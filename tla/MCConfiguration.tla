--------------------------- MODULE MCConfiguration ---------------------------
(***************************************************************************)
(* Configuration with two plants of two states: one with every part, whose *)
(* script has a newline and quotes and is read back as it was, and one      *)
(* whose scripts are not: one has a quote behind a backslash, the other the *)
(* characters that stand for a newline.                                    *)
(***************************************************************************)
EXTENDS Configuration

CONSTANTS idle, work, host

MCState == {idle, work}

plain == <<"newline", "quote", "other", "quote">>
escaped == <<"other", "quote", "backslash", "quote", "quote">>
angles == <<"other", "angles">>
broken == <<"other", "newline">>

MCCode == {plain, escaped, angles, broken}

\* Numbers and a device file.
args == <<"other", "space", "other">>
MCArgs == {args}

Whole ==
  [Empty EXCEPT !.states = MCState, !.init = idle, !.action[idle] = plain, !.event[idle] = work,
                !.device = args, !.redis = host]

Marked ==
  [Empty EXCEPT !.states = MCState, !.action = [s \in MCState |-> IF s = idle THEN escaped ELSE angles],
                !.next[idle] = work]

MCPlants == {Whole, Marked}
=============================================================================
