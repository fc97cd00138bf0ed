----------------------------- MODULE MCPyocdWorker -----------------------------
(***************************************************************************)
(* TLC instance of PyocdWorker: two probes at one VID/PID pair, the first  *)
(* with both interfaces, and a third without serial number at another one; *)
(* a memory of which bytes 4 and 5 are forbidden.                          *)
(***************************************************************************)
EXTENDS PyocdWorker

MCBus ==
    << [pair |-> 1, modes |-> {"v1", "v2"}, serial |-> "s1", name |-> ""],
       [pair |-> 1, modes |-> {"v1"}, serial |-> "s2", name |-> "probe"],
       [pair |-> 2, modes |-> {"v2"}, serial |-> "", name |-> "USB Input Device"] >>

MCGenericNames == {"", "USB Input Device"}

\* In front of, up to, into, inside and behind the forbidden range.
MCAccesses == {<<3, 1>>, <<3, 2>>, <<5, 1>>, <<6, 1>>}
MCForbidden == {<<4, 6>>}

ConnectRequest(id, pair, version) ==
    [command |-> "connect", monitor |-> TRUE, version |-> version, id |-> id,
     pair |-> pair, target |-> TRUE]

MCRequests ==
    [command : {"query", "listUsbDevices", "listRttChannels", "stopActivity",
                "disconnect", "shutdown", "forbidden", "otherFrame"}]
    \cup [command : {"listProbes"}, version : {"automatic"}]
    \cup {ConnectRequest("", NoPair, "v2"), ConnectRequest("s1", 1, "automatic"),
          ConnectRequest("s2", NoPair, "v1"), ConnectRequest("", 2, "v2"),
          ConnectRequest("", 1, "other"),
          [ConnectRequest("", 1, "v1") EXCEPT !.monitor = FALSE],
          [ConnectRequest("", 1, "v1") EXCEPT !.target = FALSE]}
    \cup [command : {"configureRtt"}, at : {<<3, 1>>, NoAccess}]
    \cup [command : {"startHss"}, at : {<<6, 1>>, <<5, 1>>, NoAccess}]
    \cup [command : {"down"}, at : {<<3, 2>>, <<6, 1>>}]
    \cup [command : {"startRtt"}, channel : BOOLEAN]
===============================================================================
