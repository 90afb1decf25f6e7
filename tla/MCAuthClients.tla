--------------------------- MODULE MCAuthClients ---------------------------
EXTENDS AuthClients

CONSTANTS d1, d2, r1, r2

Server(doings, faults) ==
    [doings |-> doings, faults |-> faults, web |-> FALSE, devices |-> {}, requests |-> {}]
Native(doings, faults, devices, rs) ==
    [doings |-> doings \cup {"client"}, faults |-> faults, web |-> FALSE,
     devices |-> devices, requests |-> rs]
Web(doings, faults, devices, rs) ==
    [Native(doings, faults, devices, rs) EXCEPT !.web = TRUE]

MCEnvironments ==
    {Server({"register", "code", "expire"}, {}),
     Server({"register", "code"}, {"store_error", "lost_ack", "lost_answer"}),
     Server({"register", "code", "reset"}, {}),
     Native({}, {}, {d1}, {r1, r2}),
     Native({}, {}, {d1, d2}, {r1, r2}),
     Native({"sign_out"}, {}, {d1}, {r1}),
     Native({"sign_out", "block", "expire"}, {}, {d1}, {r1}),
     Native({}, {"kill"}, {d1}, {r1}),
     Native({"sign_out"}, {"lost_answer"}, {d1}, {r1}),
     Native({}, {"store_error", "lost_ack"}, {d1}, {r1, r2}),
     Web({}, {}, {d1}, {r1, r2}),
     Web({}, {}, {d1, d2}, {r1, r2}),
     Web({"sign_out"}, {"lost_answer"}, {d1}, {r1})}
=============================================================================
