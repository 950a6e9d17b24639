--------------------------- MODULE MCRaveTerminal ----------------------------
(* Small instances of RaveTerminal: one terminal and a few server rows.     *)
EXTENDS RaveTerminal, TLC

CONSTANTS t1, v1, v2

\* A row for the request v1 files first on t1, one for a request v1 filed on
\* another machine, one for v2; an election, and a registration in it.
ServerRow(n, client, machine, cac) ==
    [id |-> <<Server, n>>, clientId |-> client, machineId |-> machine, cac |-> cac]

MCRequests == {ServerRow(1, <<t1, 1>>, t1, v1),
               ServerRow(3, <<Server, 9>>, Server, v1),
               ServerRow(4, <<Server, 8>>, Server, v2)}

MCElection(json) ==
    [id |-> <<Server, 2>>, clientId |-> <<Server, 2>>, machineId |-> Server,
     json |-> json]

MCRegistration ==
    [id |-> <<Server, 5>>, clientId |-> <<Server, 5>>, machineId |-> t1,
     cac |-> v1, requestId |-> <<Server, 1>>, electionId |-> <<Server, 2>>]

MCOutput(code, requests, elections, registrations) ==
    [status |-> code, admins |-> {v2}, elections |-> elections,
     requests |-> requests, registrations |-> registrations, ballots |-> {}]

MCOutputs ==
    {MCOutput(500, {}, {}, {})}
    \cup {MCOutput(200, rs, {}, gs) : rs \in SUBSET MCRequests,
                                      gs \in SUBSET {MCRegistration}}
    \cup {MCOutput(200, {}, {MCElection(json)}, {}) : json \in {"string", "object"}}

MCSpec == TerminalInit /\ [][TerminalNext(MCOutputs)]_terminalVars
=============================================================================
