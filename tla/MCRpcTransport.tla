--------------------------- MODULE MCRpcTransport ---------------------------
(***************************************************************************)
(* Messages of the system with their sizes as thrift's binary protocol     *)
(* writes them, a frame for every number and every string: version, length *)
(* of the name, name, number of the call, then for each field its type,    *)
(* its id and its value, and a stop.                                       *)
(***************************************************************************)
EXTENDS RpcTransport, SequencesExt

Ends(frames) == [i \in 1..Len(frames) |-> FoldLeft(+, 4 * i, SubSeq(frames, 1, i))]

\* driver_service:gate_control(is_close), oneway.
GateControl == [request |-> Ends(<<4, 4, 27, 4, 1, 2, 1, 1>>), reply |-> <<>>]

\* runner_sm:check_lua_code(code, real_run) with a script of 700 bytes.
CheckLuaCode ==
  [request |-> Ends(<<4, 4, 24, 4, 1, 2, 4, 700, 1, 2, 1, 1>>),
   reply |-> Ends(<<4, 4, 14, 4, 1, 2, 1, 1>>)]

\* With one of 435 bytes the first send ends behind 2 bytes of a frame's length.
CheckLuaCodeCut ==
  [request |-> Ends(<<4, 4, 24, 4, 1, 2, 4, 435, 1, 2, 1, 1>>),
   reply |-> Ends(<<4, 4, 14, 4, 1, 2, 1, 1>>)]

\* config_management:get_device_list(), with devices enough for a long reply (their
\* names are taken together): the buffer ends behind 2 bytes of a frame's length.
GetDeviceList ==
  [request |-> Ends(<<4, 4, 33, 4, 1>>),
   reply |-> Ends(<<4, 4, 15, 4, 1, 2, 1, 4, 1, 2, 4, 420, 1, 2, 4, 30>>)]

\* The names are two bytes shorter: the buffer ends behind the whole length.
GetDeviceListCut ==
  [request |-> Ends(<<4, 4, 33, 4, 1>>),
   reply |-> Ends(<<4, 4, 15, 4, 1, 2, 1, 4, 1, 2, 4, 418, 1, 1>>)]

Messages == {GateControl, CheckLuaCode, CheckLuaCodeCut, GetDeviceList, GetDeviceListCut}
=============================================================================
