------------------------------- MODULE Blobs -------------------------------
(***************************************************************************
 tntdb::Blob: a reference to shared data (BlobImpl) that is copied when it is
 written while somebody else refers to it.  The memory of the data is kept
 when it is large enough.  All blobs without data refer to one instance that
 nobody may write to.
 ***************************************************************************)
EXTENDS Calls, Sequences, SequencesExt, FiniteSets

CONSTANTS Names,        \* the blobs
          Contents      \* the data: short sequences

VARIABLE sys

EmptyInstance == 0
Impls == 1..(Cardinality(Names) + 1)      \* a new one is there before the old one goes
NoImpl == [size |-> 0, memory |-> << >>, dangling |-> FALSE]

Init == sys = [
    of |-> [b \in Names |-> EmptyInstance], impl |-> [i \in Impls |-> NoImpl],
    said |-> [b \in Names |-> << >>],
    refused |-> FALSE,      \* memory was refused to data that had given back its own
    misuse |-> {}, failing |-> 0, calls |-> 0, threw |-> FALSE]

Users(s, i) == {b \in Names : s.of[b] = i}
Data(s, b) == LET i == s.of[b]
              IN IF i = EmptyInstance THEN << >> ELSE SubSeq(s.impl[i].memory, 1, s.impl[i].size)

\* What nobody refers to is destroyed, with its memory.
Collected(s) ==
    LET gone == {i \in Impls : Users(s, i) = {} /\ s.impl[i] # NoImpl}
        t == IF \E i \in gone : s.impl[i].dangling THEN Misuse(s, "freed twice") ELSE s
    IN [t EXCEPT !.impl = [i \in Impls |-> IF i \in gone THEN NoImpl ELSE @[i]]]
-----------------------------------------------------------------------------
(* BlobImpl. *)

NewByte == 0      \* a byte of new memory

\* The old memory is released before the new one is there.
Renewed(s, i, size) ==
    LET t == Call(IF s.impl[i].dangling THEN Misuse(s, "freed twice") ELSE s, TRUE)
        had == t.impl[i].memory # << >>
    IN IF t.threw THEN [t EXCEPT !.impl[i].dangling = had, !.refused = @ \/ had]
       ELSE [t EXCEPT !.impl[i].memory = [n \in 1..size |-> NewByte], !.impl[i].dangling = FALSE]
Reserve(s, i, size, shrink) ==
    IF size = 0 /\ shrink
    THEN [(IF s.impl[i].dangling THEN Misuse(s, "freed twice") ELSE s) EXCEPT !.impl[i] = NoImpl]
    ELSE LET t == IF (shrink /\ size # s.impl[i].size) \/ size > s.impl[i].size
                  THEN Renewed(s, i, size) ELSE s
         IN Then(t, LAMBDA u : [u EXCEPT !.impl[i].size = size])

\* memcpy into the memory that was reserved.
Written(s, i, data) ==
    LET t == IF Len(data) > Len(s.impl[i].memory) THEN Misuse(s, "overrun")
             ELSE IF data # << >> /\ s.impl[i].dangling THEN Misuse(s, "written after free")
             ELSE s
    IN [t EXCEPT !.impl[i].memory =
                     data \o SubSeq(@, Len(data) + 1, Len(@))]
AssignImpl(s, i, data) ==
    Then(Reserve(s, i, Len(data), FALSE), LAMBDA t : Written(t, i, data))
-----------------------------------------------------------------------------
(* Blob. *)

\* Memory for new data may be refused as well.
New(s, b) ==
    LET i == CHOOSE j \in Impls : Users(s, j) = {}
    IN Then(Call(s, TRUE), LAMBDA t : [t EXCEPT !.of[b] = i, !.impl[i] = NoImpl])

\* A blob gets data of its own unless it is the only one to refer to them.
Own(s, b) ==
    IF s.of[b] # EmptyInstance /\ Users(s, s.of[b]) = {b} THEN s ELSE New(s, b)

\* A change that failed has no promised outcome, but for the other blobs.
Says(s, b, data) == [s EXCEPT !.said[b] = IF s.threw THEN Data(s, b) ELSE data]
Ends(t) == Reached(t) /\ sys' = Finished(Collected(t))
Changed(b, failing, F(_)) ==
    LET t == Own(Begin(sys, failing), b)
    IN Then(t, LAMBDA u : Collected(F(u)))
AssignTo(s, b, data) == AssignImpl(s, s.of[b], data)

\* A blob takes the place of b: the constructors, and the copy.
Gone(b) == [sys EXCEPT !.of[b] = EmptyInstance, !.said[b] = << >>]
Construct(b, data, failing) ==
    LET t == New(Begin(Collected(Gone(b)), failing), b)
        u == Then(t, LAMBDA v : AssignTo(v, b, data))
    IN Ends(IF u.threw THEN [u EXCEPT !.of[b] = EmptyInstance] ELSE Says(u, b, data))
Copy(b, c) ==
    Ends(Begin([sys EXCEPT !.of[c] = sys.of[b], !.said[c] = sys.said[b]], 0))
Drop(b) == Ends(Begin(Gone(b), 0))

Assign(b, data, failing) ==
    Ends(Says(Changed(b, failing, LAMBDA s : AssignTo(s, b, data)), b, data))

\* The client writes what it reserved.
ReserveAndWrite(b, data, shrink, failing) ==
    LET F(s) == Then(Reserve(s, s.of[b], Len(data), shrink),
                     LAMBDA t : IF data = << >> THEN t ELSE Written(t, t.of[b], data))
    IN Ends(Says(Changed(b, failing, F), b, data))

\* A blob whose memory could not be renewed is given up, not used.
Sane(b) == sys.of[b] # EmptyInstance => ~ sys.impl[sys.of[b]].dangling
Next ==
    \E b \in Names :
      \/ \E data \in Contents, k \in 0..2 : Construct(b, data, k)
      \/ /\ Sane(b)
         /\ \E data \in Contents, k \in 0..2 :
              \/ Assign(b, data, k)
              \/ \E shrink \in BOOLEAN : ReserveAndWrite(b, data, shrink, k)
      \/ Sane(b) /\ \E c \in Names : Copy(b, c)
      \/ Drop(b)
-----------------------------------------------------------------------------
(* What the composition says of this part. *)

\* Memory is large enough for what is in it, goes with the last blob that refers
\* to it, and is freed once unless new memory was refused to data that had given
\* back its own.
HandlesLegal ==
    /\ sys.misuse \subseteq IF sys.refused THEN {"freed twice"} ELSE {}
    /\ \A i \in Impls : ~ sys.impl[i].dangling => sys.impl[i].size <= Len(sys.impl[i].memory)
    /\ \A i \in Impls : sys.impl[i] # NoImpl => Users(sys, i) # {}

\* A blob keeps its data whatever is assigned to its copies.
DataStays == \A b \in Names : Sane(b) => Data(sys, b) = sys.said[b]
=============================================================================
