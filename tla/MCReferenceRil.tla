--------------------------- MODULE MCReferenceRil ---------------------------
(* An instance of ReferenceRil for TLC. *)
EXTENDS ReferenceRil

Timers(init, poll, data, call) ==
    [initializeCallback |-> init, pollSIMState |-> poll, onDataCallListChanged |-> data,
     sendCallStateChanged |-> call]

\* Every request of ril.h on one channel, with answers of up to three lines.
AllRequests ==
    [wired |-> TRUE, lines |-> 3, unanswered |-> 1, readers |-> {1}, ends |-> FALSE,
     requests |-> DOMAIN Requests, events |-> {"+CREG:"}, timers |-> Timers(1, 1, 0, 1)]

\* Every event of the network, at any time.
AllEvents ==
    [wired |-> TRUE, lines |-> 1, unanswered |-> 2, readers |-> {1}, ends |-> FALSE,
     requests |-> {"DATA_CALL_LIST"}, events |-> Events \cup {"+CMT:"},
     timers |-> Timers(1, 1, 1, 0)]

\* Commands given up, and channels that end while others still close.
Threads ==
    [wired |-> TRUE, lines |-> 1, unanswered |-> 2, readers |-> {1, 2}, ends |-> TRUE,
     requests |-> {"RADIO_POWER"}, events |-> {},
     timers |-> Timers(1, 1, 0, 0)]

\* The tree as it stands.
Unwired ==
    [wired |-> FALSE, lines |-> 0, unanswered |-> 1, readers |-> {1, 2}, ends |-> TRUE,
     requests |-> {}, events |-> Events \cup {"+CMT:"}, timers |-> Timers(1, 0, 0, 0)]

MCBounds ==
    [AllRequests |-> AllRequests, AllEvents |-> AllEvents, Threads |-> Threads,
     Unwired |-> Unwired]
=============================================================================
