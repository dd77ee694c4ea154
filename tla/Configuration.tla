---------------------------- MODULE Configuration ----------------------------
(***************************************************************************)
(* The configuration of the plant and the command line that edits it       *)
(* (src/cli).  A command reads the whole file /conf/config.yaml, changes    *)
(* its copy and writes the whole file again; the file is empty from its     *)
(* opening until it is written, and an empty file is an empty              *)
(* configuration.  "save" writes the configuration as the commands that    *)
(* make it (bdr) to /database/init.txt, which the core daemon has executed  *)
(* at every start, on whatever configuration there is (src/core/main.cpp). *)
(*                                                                         *)
(* Every terminal is a process of its own, and so is the import: they      *)
(* overlap.  The container, with all of them, ends when the core daemon    *)
(* does; a new container has no configuration but the saved one.  A write  *)
(* may be cut by the end of the container, read before it is complete, or   *)
(* land on what another process has written since it opened the file.      *)
(*                                                                         *)
(* A script or an argument is a sequence of symbols, as far as the commands *)
(* of bdr and the splitter of command lines tell them apart; names, hosts  *)
(* and passwords are single words without marks.  What YAML makes of a text *)
(* is left out.  One event and one device stand for the others, which do    *)
(* not depend on each other; the order of the states in the file is left    *)
(* out.                                                                    *)
(***************************************************************************)
EXTENDS Integers, Sequences, FiniteSets, SequencesExt

CONSTANTS
  State,     \* the names of states
  Code,      \* the scripts that Lua compiles
  Args,      \* arguments of the device
  Params,    \* where Redis is
  Terminal,  \* the terminals
  Import,    \* the process that executes the saved commands
  Unset,      \* an empty text
  Torn,       \* a file that is no whole configuration, nor whole commands
  Plants,    \* the configurations, made and saved before, to begin with
  MaxEvents, \* commands at terminals and ends of the container (bound of the model)
  MaxRenewals \* containers that are replaced by new ones (bound of the model)

VARIABLES
  file,    \* what /conf/config.yaml holds
  saved,   \* the commands in /database/init.txt
  todo,    \* the commands the import has yet to execute
  at,      \* where a session is
  cmd,     \* the command it executes
  copy,    \* the configuration it has read
  dirty,   \* the sessions that have a file open in which another has written since
  cut,     \* a part of a file has been taken for the whole
  edits, kills, renewals,
  base,    \* history: the configuration the import began with
  stands,  \* history: the configuration that saved stands for
  promised, \* history: the configuration at the last save
  quiet,   \* history: no terminal has written since the core daemon started
  alone    \* history: nobody has edited since the last save, which was not cut and
           \* met no import and no other save

session == <<at, cmd, copy>>
bounds == <<edits, kills, renewals>>
history == <<base, stands, promised, quiet, alone>>
conf_vars == <<file, saved, todo, session, dirty, cut, bounds, history>>

Session == Terminal \cup {Import}

Empty ==
  [states |-> {}, init |-> Unset, action |-> [s \in State |-> Unset],
   next |-> [s \in State |-> Unset], event |-> [s \in State |-> Unset], device |-> Unset,
   redis |-> Unset]

Config ==
  [states : SUBSET State, init : State \cup {Unset}, action : [State -> Code \cup {Unset}],
   next : [State -> State \cup {Unset}], event : [State -> State \cup {Unset}],
   device : Args \cup {Unset}, redis : Params \cup {Unset}]

Command ==
  [op : {"create_state", "set_init"}, s : State]
    \cup [op : {"set_next", "add_event"}, s : State, to : State]
    \cup [op : {"input_action"}, s : State, code : Code]
    \cup [op : {"add_device"}, args : Args]
    \cup [op : {"params"}, redis : Params]
    \cup [op : {"clear"}]

-----------------------------------------------------------------------------
(* Texts *)

Marks == {"quote", "apostrophe"}
Blank == {"space", "newline"}
\* "angles" are the two characters <>, and "other" is every character but those named.
Symbol == Marks \cup Blank \cup {"backslash", "angles", "other"}

Put(words, c) == [words EXCEPT ![Len(words)] = Append(@, c)]

\* The splitter takes one more symbol.  A mark ends only the sentence it began; a
\* backslash is dropped before a mark and before a backslash.
Eval(sp, c) ==
  CASE sp.state = "escape" ->
         [sp EXCEPT !.state = sp.prev,
                    !.words = IF c \in Marks \cup {"backslash"} THEN Put(@, c)
                              ELSE Put(Put(@, "backslash"), c)]
    [] sp.state # "escape" /\ c = "backslash" ->
         [sp EXCEPT !.state = "escape",
                    !.prev = IF sp.state = "space" THEN "word" ELSE sp.state,
                    !.words = IF sp.state = "space" THEN Append(@, <<>>) ELSE @]
    [] sp.state = "sentence" /\ c = sp.mark -> [sp EXCEPT !.state = "space"]
    [] sp.state \in {"space", "word"} /\ c \in Marks ->
         [sp EXCEPT !.state = "sentence", !.mark = c, !.words = Append(@, <<>>)]
    [] sp.state \in {"space", "word"} /\ c \in Blank -> [sp EXCEPT !.state = "space"]
    [] sp.state = "space" /\ c \notin Marks \cup Blank \cup {"backslash"} ->
         [sp EXCEPT !.state = "word", !.words = Append(@, <<c>>)]
    [] OTHER -> [sp EXCEPT !.words = Put(@, c)]

\* replaceNewlinesAndQuotes, for scripts: it does not touch a backslash.  Arguments are
\* printed as they are.
Printed(c, mark) ==
  CASE mark = "quote" /\ c = "newline" -> <<"angles">>
    [] mark = "quote" /\ c = "quote" -> <<"backslash", "quote">>
    [] OTHER -> <<c>>

EvalAll(sp, cs) == IF Len(cs) = 1 THEN Eval(sp, cs[1]) ELSE Eval(Eval(sp, cs[1]), cs[2])

\* The words of a command line from the mark on that the text is printed in.
Split(text, mark) ==
  LET sp[k \in 0 .. Len(text)] ==
        IF k = 0 THEN [state |-> "sentence", prev |-> "space", mark |-> mark, words |-> << <<>> >>]
        ELSE EvalAll(sp[k - 1], Printed(text[k], mark))
  IN  Eval(sp[Len(text)], mark).words

\* The parameter of a command: the first word that is not empty.
Parameter(words) ==
  LET full == {i \in 1 .. Len(words) : words[i] # <<>>} IN
  IF full = {} THEN Unset ELSE words[Min(full)]

\* The script that an import stores for the printed one: <> become newlines, and what Lua
\* does not compile is refused.
ReadCode(code) ==
  IF code = Unset THEN Unset
  ELSE LET read == Parameter(Split(code, "quote")) IN
       IF read = Unset THEN Unset
       ELSE LET lua == [i \in 1 .. Len(read) |-> IF read[i] = "angles" THEN "newline" ELSE read[i]] IN
            IF lua \in Code THEN lua ELSE Unset

ReadArgs(args) ==
  IF args = Unset THEN Unset ELSE Parameter(Split(args, "apostrophe"))

\* What an import reads of a configuration that was printed.
AsRead(cfg) ==
  [cfg EXCEPT !.action = [s \in State |-> ReadCode(cfg.action[s])], !.device = ReadArgs(cfg.device)]

\* A text that is printed and read back unchanged: no symbol of those, and every backslash
\* before a symbol with which the splitter keeps it.
Plain(text, without) ==
  \A k \in 1 .. Len(text) :
    /\ text[k] \notin without
    /\ text[k] = "backslash" => k < Len(text) /\ text[k + 1] \notin Marks \cup {"backslash"}

Legible(cfg) ==
  /\ \A s \in State : cfg.action[s] # Unset => Plain(cfg.action[s], {"angles"})
  /\ cfg.device # Unset => Plain(cfg.device, {"apostrophe"})

-----------------------------------------------------------------------------
(* Commands *)

Known(cfg, s) == s \in cfg.states

\* What a command finds before it changes anything.
Accepted(cfg, c) ==
  CASE c.op = "create_state" -> ~Known(cfg, c.s)
    [] c.op \in {"set_init", "input_action"} -> Known(cfg, c.s)
    [] c.op = "set_next" -> Known(cfg, c.s) /\ Known(cfg, c.to)
    [] c.op = "add_event" -> Known(cfg, c.s) /\ Known(cfg, c.to) /\ cfg.event[c.s] = Unset
    [] c.op = "add_device" -> cfg.device = Unset
    [] OTHER -> TRUE

\* clear empties one part of the configuration after the other.
Follows == [clear |-> "clear_states", clear_states |-> "clear_redis"]

\* Deviation: clear leaves the initial state.
ClearStatesOnly(cfg) ==
  [Empty EXCEPT !.device = cfg.device, !.redis = cfg.redis, !.init = cfg.init]

ClearStates(cfg) == [Empty EXCEPT !.device = cfg.device, !.redis = cfg.redis]

Edited(cfg, c) ==
  CASE c.op = "create_state" -> [cfg EXCEPT !.states = @ \cup {c.s}]
    [] c.op = "set_init" -> [cfg EXCEPT !.init = c.s]
    [] c.op = "input_action" -> [cfg EXCEPT !.action[c.s] = c.code]
    [] c.op = "set_next" -> [cfg EXCEPT !.next[c.s] = c.to]
    [] c.op = "add_event" -> [cfg EXCEPT !.event[c.s] = c.to]
    [] c.op = "add_device" -> [cfg EXCEPT !.device = c.args]
    [] c.op = "params" -> [cfg EXCEPT !.redis = c.redis]
    [] c.op = "clear" -> [cfg EXCEPT !.device = Unset]
    [] c.op = "clear_states" -> ClearStates(cfg)
    [] c.op = "clear_redis" -> [cfg EXCEPT !.redis = Unset]

\* The commands that make a part of the configuration.
Makes(present, c) == IF present THEN <<c>> ELSE <<>>

StatesOf(cfg) == SetToSeq(cfg.states)

MakesState(cfg, s) ==
  <<[op |-> "create_state", s |-> s]>>
    \o Makes(cfg.action[s] # Unset, [op |-> "input_action", s |-> s, code |-> cfg.action[s]])

MakesTransitions(cfg, s) ==
  Makes(cfg.next[s] # Unset, [op |-> "set_next", s |-> s, to |-> cfg.next[s]])
    \o Makes(cfg.event[s] # Unset, [op |-> "add_event", s |-> s, to |-> cfg.event[s]])

ForStates(cfg, Part(_, _)) ==
  FlattenSeq([i \in 1 .. Len(StatesOf(cfg)) |-> Part(cfg, StatesOf(cfg)[i])])

\* Deviation: the transitions of a state follow its actions at once.
StateByState(cfg) ==
  ForStates(cfg, LAMBDA c, s : MakesState(c, s) \o MakesTransitions(c, s))

\* First all states, then what leads from one to another.
MakesStates(cfg) == ForStates(cfg, MakesState) \o ForStates(cfg, MakesTransitions)

make_bdr(cfg) ==
  Makes(cfg.device # Unset, [op |-> "add_device", args |-> cfg.device])
    \o MakesStates(cfg)
    \o Makes(cfg.init # Unset, [op |-> "set_init", s |-> cfg.init])
    \o Makes(cfg.redis # Unset, [op |-> "params", redis |-> cfg.redis])

\* Whatever a configuration names, it has.
Consistent(cfg) ==
  /\ cfg.init \in cfg.states \cup {Unset}
  /\ \A s \in State :
       IF s \in cfg.states
       THEN {cfg.next[s], cfg.event[s]} \subseteq cfg.states \cup {Unset}
       ELSE cfg.action[s] = Unset /\ cfg.next[s] = Unset /\ cfg.event[s] = Unset

\* A script and an argument are texts; what is read of an argument is one, too.
ASSUME ConfigurationAssumption ==
  /\ IsFiniteSet(State) /\ Import \notin Terminal
  /\ Unset \notin State \cup Params \cup Seq(Symbol) /\ Torn \notin Config
  /\ Code \cup Args \subseteq Seq(Symbol) \ {<<>>}
  /\ \A args \in Args : ReadArgs(args) \in Args \cup {Unset}
  /\ Plants \subseteq {cfg \in Config : Consistent(cfg)}
  /\ MaxEvents \in Nat /\ MaxRenewals \in Nat

-----------------------------------------------------------------------------
(* Sessions *)

NoCommand == [op |-> "none"]

ConfInit ==
  /\ file \in Plants
  /\ saved = make_bdr(AsRead(file))
  /\ todo = <<>>
  /\ at = [p \in Session |-> "idle"]
  /\ cmd = [p \in Session |-> NoCommand]
  /\ copy = [p \in Session |-> Empty]
  /\ dirty = {} /\ cut = FALSE
  /\ edits = 0 /\ kills = 0 /\ renewals = 0
  /\ base = file
  /\ stands = AsRead(file)
  /\ promised = file
  /\ quiet = FALSE
  /\ alone = TRUE

\* read_config_file, and the command's checks: a command that is refused writes nothing.
\* YAML throws on a torn file, and the session goes on with its next command.
execute(p, c) ==
  /\ at[p] = "idle"
  /\ IF file # Torn /\ Accepted(file, c)
     THEN /\ at' = [at EXCEPT ![p] = "read"]
          /\ cmd' = [cmd EXCEPT ![p] = c]
          /\ copy' = [copy EXCEPT ![p] = file]
     ELSE UNCHANGED session

Noted(p) ==
  /\ quiet' = (quiet /\ p = Import)
  /\ alone' = (alone /\ p = Import)
  /\ UNCHANGED <<base, stands, promised>>

\* Who has the configuration open, and who the file of commands; the last of them have
\* written a part.
Writing == {"write", "part"}
Saving == {"save", "save_states", "save_redis", "save_write", "save_part"}
Partly == {"part", "save_part"}

\* p empties a file: another goes on writing it where its part ended.
Emptied(p, open) ==
  {q \in Session \ {p} : IF at[q] \in open THEN at[q] \in Partly ELSE q \in dirty}

\* p writes: what another writes next does not cover it.
Overlaid(p, open) == dirty \cup {q \in Session \ {p} : at[q] \in open}

\* The command is over.
Over(p) ==
  /\ at' = [at EXCEPT ![p] = "idle"]
  /\ cmd' = [cmd EXCEPT ![p] = NoCommand]
  /\ copy' = [copy EXCEPT ![p] = Empty]

\* write_config_file opens the file, which empties it, and renders the configuration.
open_file(p) ==
  /\ at[p] = "read"
  /\ at' = [at EXCEPT ![p] = "write"]
  /\ file' = Empty
  /\ dirty' = Emptied(p, Writing)
  /\ Noted(p)
  /\ UNCHANGED <<saved, todo, cmd, copy, cut, bounds>>

\* A part of it is in the file.
write_part(p) ==
  /\ at[p] = "write"
  /\ at' = [at EXCEPT ![p] = "part"]
  /\ file' = Torn
  /\ dirty' = Overlaid(p, Writing)
  /\ Noted(p)
  /\ UNCHANGED <<saved, todo, cmd, copy, cut, bounds>>

\* All of it is: alone, or with what another has written before or behind it.
write_file(p) ==
  /\ at[p] \in Writing
  /\ file' \in {Edited(copy[p], cmd[p])} \cup (IF p \in dirty THEN {Torn} ELSE {})
  /\ dirty' = Overlaid(p, Writing) \ {p}
  /\ IF cmd[p].op \in DOMAIN Follows
     THEN /\ at' = [at EXCEPT ![p] = "clears"]
          /\ cmd' = [cmd EXCEPT ![p] = [op |-> Follows[cmd[p].op]]]
          /\ copy' = [copy EXCEPT ![p] = Empty]
     ELSE Over(p)
  /\ Noted(p)
  /\ UNCHANGED <<saved, todo, cut, bounds>>

\* clear reads the file again before it empties the next part.
clear_next(p) ==
  /\ at[p] = "clears"
  /\ IF file = Torn
     THEN Over(p)
     ELSE /\ at' = [at EXCEPT ![p] = "read"]
          /\ copy' = [copy EXCEPT ![p] = file]
          /\ UNCHANGED cmd
  /\ UNCHANGED <<file, saved, todo, dirty, cut, bounds, history>>

enter(t, c) ==
  /\ edits + kills < MaxEvents
  /\ edits' = edits + 1
  /\ execute(t, c)
  /\ UNCHANGED <<file, saved, todo, dirty, cut, kills, renewals, history>>

import_next ==
  /\ todo # <<>>
  /\ todo' = Tail(todo)
  /\ execute(Import, Head(todo))
  /\ UNCHANGED <<file, saved, dirty, cut, bounds, history>>

Imported == todo = <<>> /\ at[Import] = "idle"

\* "save" empties the file of commands before it makes them.
save(t) ==
  /\ edits + kills < MaxEvents
  /\ edits' = edits + 1
  /\ at[t] = "idle"
  /\ at' = [at EXCEPT ![t] = "save"]
  /\ saved' = <<>>
  /\ stands' = Empty
  /\ quiet' = FALSE
  /\ dirty' = Emptied(t, Saving)
  /\ UNCHANGED <<file, todo, cmd, copy, cut, kills, renewals, base, promised, alone>>

\* The configuration is read once for the device, once for the states and once for Redis.
Reads == [save |-> "save_states", save_states |-> "save_redis", save_redis |-> "save_write"]

Read(p) ==
  CASE at[p] = "save" -> [Empty EXCEPT !.device = file.device]
    [] at[p] = "save_states" -> [file EXCEPT !.device = copy[p].device, !.redis = Unset]
    [] at[p] = "save_redis" -> [copy[p] EXCEPT !.redis = file.redis]

save_reads(t) ==
  /\ at[t] \in DOMAIN Reads
  /\ IF file = Torn
     THEN Over(t) /\ dirty' = dirty \ {t}
     ELSE /\ at' = [at EXCEPT ![t] = Reads[at[t]]]
          /\ copy' = [copy EXCEPT ![t] = Read(t)]
          /\ UNCHANGED <<cmd, dirty>>
  /\ UNCHANGED <<file, saved, todo, cut, bounds, history>>

\* Some of the commands are in the file.  A command that is cut has no end of line, and
\* an import does not execute it.
save_part(t) ==
  /\ at[t] = "save_write"
  /\ at' = [at EXCEPT ![t] = "save_part"]
  /\ \E k \in 0 .. Len(make_bdr(AsRead(copy[t]))) :
       saved' = SubSeq(make_bdr(AsRead(copy[t])), 1, k)
  /\ stands' = Torn
  /\ alone' = FALSE
  /\ dirty' = Overlaid(t, Saving)
  /\ UNCHANGED <<file, todo, cmd, copy, cut, bounds, base, promised, quiet>>

\* The menu a command belongs to.
MenuOf(c) ==
  CASE c.op = "add_device" -> "device" [] c.op = "params" -> "redis" [] OTHER -> "state_machine"

\* What is left of other commands behind those that are written over their beginning: what
\* follows the name of a menu, in which they are executed, or nothing.
Behind(cmds) ==
  {SubSeq(cmds, k, Len(cmds)) :
     k \in {i \in 2 .. Len(cmds) : MenuOf(cmds[i]) # MenuOf(cmds[i - 1])}} \cup {<<>>}

\* What the file of commands holds when t has written: its own alone, with the rest of others
\* behind them, or, if others have written since its part, some of theirs before the rest of
\* its own.
Lands(t, own) ==
  IF t \notin dirty THEN {own}
  ELSE IF at[t] = "save_write" THEN {own \o rest : rest \in Behind(saved)}
  ELSE {SubSeq(saved, 1, i) \o SubSeq(own, j, Len(own)) \o rest :
          i \in 0 .. Len(saved), j \in 2 .. Len(own) + 1, rest \in Behind(saved)}

save_ends(t) ==
  /\ at[t] \in {"save_write", "save_part"}
  /\ Over(t)
  /\ LET own == make_bdr(AsRead(copy[t])) IN
     /\ saved' \in Lands(t, own)
     /\ stands' = IF saved' = own THEN AsRead(copy[t]) ELSE Torn
  /\ promised' = copy[t]
  /\ alone' = (Imported /\ copy[t] = file /\ t \notin dirty)
  /\ dirty' = Overlaid(t, Saving) \ {t}
  /\ UNCHANGED <<file, todo, cut, bounds, base, quiet>>

\* Deviation: the import begins with a clear.
Cleared == Empty

Kept == file

\* The core daemon starts in the container, or in a new one: the terminals have
\* ended with the old one, and the saved commands are executed.
core_starts ==
  /\ edits + kills < MaxEvents
  /\ kills' = kills + 1
  /\ \/ file' = Kept /\ renewals' = renewals
     \/ file' = Empty /\ renewals < MaxRenewals /\ renewals' = renewals + 1
  /\ todo' = saved
  /\ at' = [p \in Session |-> "idle"]
  /\ cmd' = [p \in Session |-> NoCommand]
  /\ copy' = [p \in Session |-> Empty]
  /\ dirty' = {}
  /\ base' = file'
  /\ quiet' = TRUE
  /\ UNCHANGED <<saved, edits, cut, stands, promised, alone>>

\* Where a file is cut, YAML may find a shorter configuration in it.  Who reads that
\* writes it, and nothing is said of what follows.
part_is_read ==
  /\ file = Torn
  /\ cut' = TRUE
  /\ UNCHANGED <<file, saved, todo, session, dirty, bounds, history>>

advance(p) ==
  \/ open_file(p) \/ write_part(p) \/ write_file(p) \/ clear_next(p)
  \/ save_reads(p) \/ save_part(p) \/ save_ends(p)

ConfNext ==
  /\ ~cut
  /\ \/ \E t \in Terminal : (\E c \in Command : enter(t, c)) \/ save(t)
     \/ import_next
     \/ \E p \in Session : advance(p)
     \/ core_starts
     \/ part_is_read

ConfSpec == ConfInit /\ [][ConfNext]_conf_vars

-----------------------------------------------------------------------------
(* Properties *)

\* What saved commands make of a configuration: scripts, next states, the initial state
\* and Redis are set again; states, events and devices that are there stay.
Merged(old, new) ==
  LET Or(x, y) == IF x # Unset THEN x ELSE y IN
  [states |-> old.states \cup new.states,
   init |-> Or(new.init, old.init),
   action |-> [s \in State |-> Or(new.action[s], old.action[s])],
   next |-> [s \in State |-> Or(new.next[s], old.next[s])],
   event |-> [s \in State |-> Or(old.event[s], new.event[s])],
   device |-> Or(old.device, new.device),
   redis |-> Or(new.redis, old.redis)]

\* However the sessions overlap and wherever the container ends, what the file and
\* every copy of it name exists, as long as nobody takes a part of a file for the whole: a
\* command of another session may be lost, but never in part.
TargetsExist ==
  /\ file # Torn => Consistent(file)
  /\ \A p \in Session : Consistent(copy[p])

\* The import, when no terminal comes between and it begins with whole files, makes what
\* the saved commands, as the command line reads them, make of the configuration there
\* was: their scripts and targets are set, no state is lost, and no command comes before
\* what it names.
ImportMerges ==
  Imported /\ quiet /\ Torn \notin {base, stands} => file = Merged(base, stands)

\* What was saved when no import was under way, and not edited since, is there again
\* after the import if its scripts and arguments are read back as they were, at whatever
\* step of whatever session the container ended that left the configuration whole or
\* empty: as often as it may end if the file of commands is whole, and once if it ended
\* in a save that has emptied that file.
SavedSurvives ==
  /\ Imported /\ quiet /\ alone /\ base # Torn /\ Legible(promised)
  /\ stands = promised \/ (stands = Empty /\ kills <= 1 /\ renewals = 0)
  => file = promised
=============================================================================
