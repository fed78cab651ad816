--------------------------- MODULE OraDescriptor ---------------------------
(***************************************************************************
 The timestamps of the oracle driver (oracle::Datetime): an object points to a
 descriptor of the client library and remembers whether it has to release it.
 Host variables and columns own theirs; the getters of a MultiValue look at
 one of its array.
 ***************************************************************************)
EXTENDS Calls, FiniteSets

CONSTANTS Objects,      \* the objects
          Descriptors,  \* the descriptors: 1..n, with some for every object
          Foreign,      \* those of a MultiValue
          Moments       \* the points in time

VARIABLE sys

None == 0
Unset == 0
Absent == [live |-> FALSE, datetime |-> None, release |-> FALSE, said |-> Unset]
ForeignMoment == CHOOSE m \in Moments : TRUE

Init == sys = [
    obj |-> [o \in Objects |-> Absent], open |-> Foreign, leaked |-> {},
    data |-> [d \in Descriptors |-> IF d \in Foreign THEN ForeignMoment ELSE Unset],
    misuse |-> {}, failing |-> 0, calls |-> 0, threw |-> FALSE]

At(s, o) == s.obj[o].datetime
-----------------------------------------------------------------------------
OciDescriptorAlloc(s, o) ==
    LET t == Call(s, TRUE)
        d == CHOOSE x \in Descriptors : x \notin s.open
    IN IF t.threw THEN t
       ELSE [t EXCEPT !.obj[o].datetime = d, !.open = @ \cup {d}, !.data[d] = Unset]
OciDescriptorFree(s, o) ==
    IF At(s, o) \in s.open THEN [s EXCEPT !.open = @ \ {At(s, o)}, !.data[At(s, o)] = Unset]
    ELSE Misuse(s, "freed twice")

Written(s, o, m) ==
    LET t == Call(s, At(s, o) \in s.open)
    IN IF t.threw THEN [t EXCEPT !.obj[o].said = Unset]
       ELSE [t EXCEPT !.data[At(s, o)] = m, !.obj[o].said = m]
OciConstruct(s, o, m) == Written(s, o, m)
OciAssign(s, o, src) ==
    Written(IF src \in s.open THEN s ELSE Misuse(s, "closed handle"), o, s.data[src])
-----------------------------------------------------------------------------
NewObject(s, o, release) == [s EXCEPT !.obj[o] = [Absent EXCEPT !.live = TRUE, !.release = release]]

\* If a constructor throws then there is no destructor that frees.
Constructed(s, o) ==
    IF ~ s.threw THEN s
    ELSE [s EXCEPT !.leaked = @ \cup ({At(s, o)} \ {None}), !.obj[o] = Absent]

FromDatetime(s, o, m) ==
    Constructed(Then(OciDescriptorAlloc(NewObject(s, o, TRUE), o),
                     LAMBDA t : OciConstruct(t, o, m)), o)
\* Mutant: the copy of the compiler.
CopyOf_Shallow(s, o, p) == [NewObject(s, o, TRUE) EXCEPT !.obj[o].datetime = At(s, p)]

CopyOf(s, o, p) ==
    LET t == NewObject(s, o, TRUE)
    IN IF At(s, p) = None THEN t
       ELSE Constructed(Then(OciDescriptorAlloc(t, o), LAMBDA u : OciAssign(u, o, At(u, p))), o)
ViewOf(s, o, d) == [NewObject(s, o, FALSE) EXCEPT !.obj[o].datetime = d,
                                                  !.obj[o].said = s.data[d]]

\* An object that does not own its descriptor gets one of its own.
Owned(s, o) ==
    IF At(s, o) = None \/ ~ s.obj[o].release
    THEN Then(OciDescriptorAlloc(s, o), LAMBDA t : [t EXCEPT !.obj[o].release = TRUE])
    ELSE s
AssignDatetime(s, o, m) == Then(Owned(s, o), LAMBDA t : OciConstruct(t, o, m))

Released(s, o) == IF s.obj[o].release THEN OciDescriptorFree(s, o) ELSE s
AssignFrom(s, o, p) ==
    IF At(s, p) # None THEN Then(Owned(s, o), LAMBDA t : OciAssign(t, o, At(t, p)))
    ELSE IF At(s, o) = None THEN s
    ELSE [Released(s, o) EXCEPT !.obj[o].datetime = None, !.obj[o].said = Unset]

\* A define, which a fetch fills.
Reference(s, o) ==
    IF At(s, o) # None THEN s
    ELSE OciDescriptorAlloc([s EXCEPT !.obj[o].release = TRUE], o)
FetchInto(s, o, m) ==
    Then(Reference(s, o), LAMBDA t : [t EXCEPT !.data[At(t, o)] = m, !.obj[o].said = m])

Destroyed(s, o) ==
    [(IF s.obj[o].release /\ At(s, o) # None THEN OciDescriptorFree(s, o) ELSE s)
       EXCEPT !.obj[o] = Absent]
-----------------------------------------------------------------------------
Ends(t) == Reached(t) /\ sys' = Finished(t)
Room == Cardinality(sys.open) < Cardinality(Descriptors)
Live(o) == sys.obj[o].live

NewDefault(o) == ~ Live(o) /\ sys' = NewObject(sys, o, FALSE)
NewFrom(o, m, failing) == Room /\ ~ Live(o) /\ Ends(FromDatetime(Begin(sys, failing), o, m))
NewCopy(o, p, failing) ==
    Room /\ ~ Live(o) /\ Live(p) /\ Ends(CopyOf(Begin(sys, failing), o, p))
NewView(o, d) == ~ Live(o) /\ sys' = ViewOf(sys, o, d)
Assign(o, m, failing) == Room /\ Live(o) /\ Ends(AssignDatetime(Begin(sys, failing), o, m))
AssignObject(o, p, failing) ==
    Room /\ Live(o) /\ Live(p) /\ Ends(AssignFrom(Begin(sys, failing), o, p))
\* Only the columns of Value are fetched into, and they own what they define.
Fetch(o, m, failing) ==
    /\ Room /\ Live(o) /\ (At(sys, o) = None \/ sys.obj[o].release)
    /\ Ends(FetchInto(Begin(sys, failing), o, m))
Destroy(o) == Live(o) /\ sys' = Destroyed(sys, o)

Next ==
    \E o \in Objects :
      \/ NewDefault(o)
      \/ Destroy(o)
      \/ \E d \in Foreign : NewView(o, d)
      \/ \E k \in 0..2 :
           \/ \E m \in Moments : NewFrom(o, m, k) \/ Assign(o, m, k) \/ Fetch(o, m, k)
           \/ \E p \in Objects : NewCopy(o, p, k) \/ AssignObject(o, p, k)
-----------------------------------------------------------------------------
(* What the composition says of this part. *)

Owners(d) == {o \in Objects : sys.obj[o].live /\ sys.obj[o].release /\ At(sys, o) = d}

\* Every descriptor has one owner, unless a constructor lost it.
HandlesLegal ==
    /\ sys.misuse = {}
    /\ Foreign \subseteq sys.open
    /\ \A d \in sys.open \ (Foreign \cup sys.leaked) : Cardinality(Owners(d)) = 1
    /\ \A d \in Descriptors \ (sys.open \ (Foreign \cup sys.leaked)) : Owners(d) = {}

\* An object shows what was last assigned to it, whatever happens to the one
\* that it was copied from, and a view leaves the row alone.
DataStays ==
    /\ \A o \in Objects : sys.obj[o].said # Unset => sys.data[At(sys, o)] = sys.obj[o].said
    /\ \A d \in Foreign : sys.data[d] = ForeignMoment
=============================================================================
