----------------------------- MODULE MCHoldings -----------------------------
\* The second row of a mysql select needs a longer buffer; three rows of oracle
\* are a full batch and one that is not.
EXTENDS Holdings

MCHandles == 1..3
MCRowIds == 1..6
MCCursors == {"c"}
MCLong == {2}
MCBuffers == 1..6
MCColumns == 1..2
MCSequenceNames == {"s", "t"}
MCObjects == {"a", "b"}
MCDescriptors == 1..5
MCForeign == {1}
MCMoments == {1, 2}
MCHolders == {"u", "v"}
MCQueries == {"k", "l"}
MCPrepared == 1..3
MCNames == {"a", "b"}
MCContents == {<< >>, <<1>>, <<2, 2>>}
MCSessions == {"s", "t"}
MCDatabases == 1..3
MCHostValues == {1}
MCTables == {"x", "y"}
=============================================================================
