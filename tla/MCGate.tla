------------------------------- MODULE MCGate -------------------------------
EXTENDS Gate

MCChecks == <<"rpm", "rpd">>
MCWidth == [rpm |-> 2, rpd |-> 4]
MCLimit == [rpm |-> 2, rpd |-> 2]

=============================================================================
