------------------------------ MODULE MCValues ------------------------------
\* Values with bytes of one bit: a short has four values, an int sixteen and a
\* long 256.
EXTENDS Values

MCData ==
    {Num(n) : n \in {-9, -1, 0, 1, 3, 8, 100, 200}}
      \cup {Frac(-1), Frac(7)}
      \cup {Text(k) : k \in {"word", "yes", "empty"}}
      \cup {[is |-> k, n |-> 2] : k \in {"date", "time", "datetime"}}

MCHostData ==
    {Num(1), Text("word"), Text("empty")} \cup {[is |-> k, n |-> 2] : k \in {"date", "time", "datetime"}}

MCFacadeData == {Null, Num(1), [is |-> "date", n |-> 2]}

MCGarbage == {0, Power(8) - 1}
=============================================================================
