--------------------------- MODULE MCStateMachine ---------------------------
(***************************************************************************)
(* A small site: a vehicle comes, loads, is sent away, and the machine is  *)
(* idle again.  One event of idle names a state that does not exist.  That *)
(* leaving has a do.next makes one event change the state twice.           *)
(***************************************************************************)
EXTENDS StateMachine

SiteStates == {"idle", "loading", "leaving"}

SiteEvents == {"came", "full"}

SiteNext == [s \in SiteStates |-> IF s = "leaving" THEN "idle" ELSE ""]

SiteEventStates ==
  [s \in SiteStates |-> [e \in SiteEvents |->
    CASE s = "idle" /\ e = "came" -> "loading"
      [] s = "loading" /\ e = "full" -> "leaving"
      [] s = "loading" /\ e = "came" -> "idle"
      [] s = "idle" /\ e = "full" -> "unknown"
      [] OTHER -> ""]]
=============================================================================
