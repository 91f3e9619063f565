---------------------------- MODULE ConsoleProofs ----------------------------
(* The bound on the sessions of the console, for any number of handlers,
   sessions and settings. *)
EXTENDS AccessProofs

-----------------------------------------------------------------------------
(* What a login counts on while it makes room *)

\* Steps whose handler is about to write its session to the index.
Writing == {"indexing", "touching new", "touching", "retouching", "saving", "reindexing",
            "touching last"}

\* Steps of a login between its count of the index and its new session.
MakesRoom == {"choosing", "removing", "creating"}

\* Steps that follow a get that found no session.
Misses == {"gone", "missing", "lost"}

Writers(rows) == {h \in Handler : rows[h].at \in Writing}

\* All sessions that the index may come to hold without another login.
World(ix, live, rows) == ix \cup live \cup {rows[h].session : h \in Writers(rows)}

\* How many sessions a login leaves room for when it counted: one less than allowed,
\* one for each handler in ahead, which may add its own, and the strayed ones.
Room(row, ahead, live, world, n) ==
    LET most == MaxSessions - 1 + Cardinality(ahead) + n IN
    /\ row.at = "choosing" =>
         /\ row.excess \in Nat \ {0}
         /\ \/ Cardinality(world) <= row.excess + most
            \/ Cardinality(live) <= most
    /\ row.at = "removing" => Cardinality(live \ row.picked) <= most
    /\ row.at = "creating" => Cardinality(live) <= most

\* ahead[h]: the handlers that wrote or were about to since h counted.  Of two
\* logins at least one is not ahead of the other.
InOrder(ahead, rows, h) ==
    /\ h \notin ahead[h] /\ Writers(rows) \subseteq ahead[h]
    /\ \A k \in ahead[h] : rows[k].at \in MakesRoom => ahead[k] \subseteq ahead[h]

\* A live session is in the index, has strayed, or is about to be indexed; who
\* found its session gone is right, or it has strayed since.
Accounted(strayed, ix, live, rows) ==
    /\ \A s \in live : \/ s \in ix \cup strayed
                       \/ \E h \in Handler : rows[h].at = "indexing" /\ rows[h].session = s
    /\ \A h \in Handler : rows[h].at \in Misses =>
         rows[h].session \notin live \/ rows[h].session \in strayed

Bounded(all, ahead, strayed, ix, live, rows, n) ==
    /\ Cardinality(strayed) <= n
    /\ Cardinality(live) <= MaxSessions + Cardinality(all) - 1 + n
    /\ Accounted(strayed, ix, live, rows)
    /\ \A h \in Handler : rows[h].at \in MakesRoom =>
         /\ InOrder(ahead, rows, h)
         /\ Room(rows[h], ahead[h], live, World(ix, live, rows), n)

HasBound(all, ix, live, rows, n) ==
    \E ahead \in [Handler -> SUBSET all], strayed \in SUBSET Session :
        Bounded(all, ahead, strayed, ix, live, rows, n)

-----------------------------------------------------------------------------
(* Sizes *)

\* Sets of sessions and of handlers are finite.
LEMMA SessionsAreFinite ==
    ASSUME NEW S \in SUBSET Session
    PROVE  IsFiniteSet(S) /\ Cardinality(S) \in Nat
<1>1. IsFiniteSet(Session)
  BY FS_Interval, ConsoleAssumption DEF Session
<1>2. IsFiniteSet(S)
  BY <1>1, FS_Subset
<1> QED  BY <1>2, FS_CardinalityType

\* The same for handlers.
LEMMA HandlersAreFinite ==
    ASSUME NEW S \in SUBSET Handler
    PROVE  IsFiniteSet(S) /\ Cardinality(S) \in Nat
<1>1. IsFiniteSet(Handler)
  BY ConsoleAssumption
<1>2. IsFiniteSet(S)
  BY <1>1, FS_Subset
<1> QED  BY <1>2, FS_CardinalityType

\* A set of sessions is no larger than another one and what it has besides.
LEMMA NoLarger ==
    ASSUME NEW S \in SUBSET Session, NEW T \in SUBSET Session
    PROVE  Cardinality(S) <= Cardinality(T) + Cardinality(S \ T)
<1>0. S \ T \in SUBSET Session /\ T \cap (S \ T) = {} /\ T \cup (S \ T) \in SUBSET Session
  OBVIOUS
<1>1. /\ IsFiniteSet(T) /\ IsFiniteSet(S \ T) /\ IsFiniteSet(T \cup (S \ T))
      /\ Cardinality(T) \in Nat /\ Cardinality(S \ T) \in Nat /\ Cardinality(S) \in Nat
  BY <1>0, SessionsAreFinite
<1>2. Cardinality(T \cup (S \ T)) = Cardinality(T) + Cardinality(S \ T) - Cardinality({})
  BY <1>0, <1>1, FS_Union
<1>3. S \in SUBSET (T \cup (S \ T))
  OBVIOUS
<1>4. Cardinality(S) <= Cardinality(T \cup (S \ T))
  BY <1>1, <1>3, FS_Subset
<1>5. Cardinality({}) = 0
  BY FS_EmptySet
<1>6. Cardinality(T \cup (S \ T)) = Cardinality(T) + Cardinality(S \ T)
  BY <1>1, <1>2, <1>5
<1> QED  BY <1>4, <1>6

\* A part is no larger than the whole.
LEMMA PartIsSmaller ==
    ASSUME NEW S \in SUBSET Session, NEW T \in SUBSET S
    PROVE  Cardinality(T) <= Cardinality(S)
BY SessionsAreFinite, FS_Subset

\* One session more makes a set larger by one at most.
LEMMA OneLarger ==
    ASSUME NEW S \in SUBSET Session, NEW T \in SUBSET Session, NEW s, S \subseteq T \cup {s}
    PROVE  Cardinality(S) <= Cardinality(T) + 1
<1>1. IsFiniteSet(T) /\ Cardinality(T) \in Nat
  BY SessionsAreFinite
<1>2. IsFiniteSet(T \cup {s}) /\ Cardinality(T \cup {s}) <= Cardinality(T) + 1
  <2>1. /\ IsFiniteSet(T \cup {s})
        /\ Cardinality(T \cup {s}) = IF s \in T THEN Cardinality(T) ELSE Cardinality(T) + 1
    BY <1>1, FS_AddElement
  <2>2. CASE s \in T
    <3>1. Cardinality(T \cup {s}) = Cardinality(T)
      BY <2>1, <2>2
    <3> QED  BY <1>1, <2>1, <3>1
  <2>3. CASE s \notin T
    <3>1. Cardinality(T \cup {s}) = Cardinality(T) + 1
      BY <2>1, <2>3
    <3> QED  BY <1>1, <2>1, <3>1
  <2> QED  BY <2>2, <2>3
<1>3. S \in SUBSET (T \cup {s})
  OBVIOUS
<1>4. Cardinality(S) <= Cardinality(T \cup {s})
  BY <1>2, <1>3, FS_Subset
<1>5. Cardinality(S) \in Nat /\ Cardinality(T \cup {s}) \in Nat
  BY SessionsAreFinite, <1>2, FS_CardinalityType
<1> QED  BY <1>1, <1>2, <1>4, <1>5

\* The same for handlers, of which one is new.
LEMMA OneHandlerMore ==
    ASSUME NEW a \in SUBSET Handler, NEW k \in Handler, k \notin a
    PROVE  Cardinality(a \cup {k}) = Cardinality(a) + 1
BY HandlersAreFinite, FS_AddElement

\* Among more handlers are at least as many.
LEMMA MoreHandlers ==
    ASSUME NEW a \in SUBSET Handler, NEW b \in SUBSET a
    PROVE  Cardinality(b) <= Cardinality(a)
BY HandlersAreFinite, FS_Subset

\* The sessions some handlers write are no more than the handlers.
LEMMA SessionsOfHandlers ==
    ASSUME NEW W \in SUBSET Handler, NEW rows
    PROVE  /\ IsFiniteSet({rows[h].session : h \in W})
           /\ Cardinality({rows[h].session : h \in W}) <= Cardinality(W)
<1> DEFINE T == {rows[h].session : h \in W}
           f == [h \in W |-> rows[h].session]
<1>1. f \in [W -> T] /\ \A t \in T : \E h \in W : f[h] = t
  OBVIOUS
<1>2. f \in Surjection(W, T)
  BY <1>1 DEF Surjection
<1>3. IsFiniteSet(W)
  BY HandlersAreFinite
<1> QED  BY <1>2, <1>3, FS_Surjection

-----------------------------------------------------------------------------
(* Room that was left *)

\* The room a login left does not get less while no session is added but strayed
\* ones, which are counted apart.
LEMMA RoomKept ==
    ASSUME NEW r, NEW a2 \in SUBSET Handler, NEW a \in SUBSET a2,
           NEW live \in SUBSET Session, NEW live2 \in SUBSET Session,
           NEW w \in SUBSET Session, NEW w2 \in SUBSET w, NEW n \in Nat, NEW n2 \in Nat,
           Cardinality(live2 \ live) <= n2 - n, Room(r, a, live, w, n)
    PROVE  Room(r, a2, live2, w2, n2)
<1> DEFINE A == Cardinality(a)
           A2 == Cardinality(a2)
           L == Cardinality(live)
           L2 == Cardinality(live2)
           V == Cardinality(live2 \ live)
           W == Cardinality(w)
           W2 == Cardinality(w2)
           P == Cardinality(live \ r.picked)
           P2 == Cardinality(live2 \ r.picked)
<1>1. A \in Nat /\ A2 \in Nat /\ A <= A2
  BY HandlersAreFinite, MoreHandlers
<1>2. /\ L \in Nat /\ L2 \in Nat /\ V \in Nat /\ W \in Nat /\ W2 \in Nat /\ P \in Nat /\ P2 \in Nat
      /\ W2 <= W /\ L2 <= L + V
  <2>1. /\ live2 \ live \in SUBSET Session /\ w2 \in SUBSET Session
        /\ live \ r.picked \in SUBSET Session /\ live2 \ r.picked \in SUBSET Session
    OBVIOUS
  <2> QED  BY <2>1, SessionsAreFinite, PartIsSmaller, NoLarger
<1>3. P2 <= P + V
  <2> DEFINE s == live2 \ r.picked
             t == live \ r.picked
  <2>1. s \in SUBSET Session /\ t \in SUBSET Session /\ live2 \ live \in SUBSET Session
        /\ s \ t \in SUBSET (live2 \ live) /\ s \ t \in SUBSET Session
    OBVIOUS
  <2>2. Cardinality(s) <= Cardinality(t) + Cardinality(s \ t)
    BY <2>1, NoLarger
  <2>3. Cardinality(s \ t) <= Cardinality(live2 \ live)
    BY <2>1, PartIsSmaller
  <2>4. Cardinality(s \ t) \in Nat
    BY <2>1, SessionsAreFinite
  <2> HIDE DEF s, t
  <2>5. Cardinality(s) <= Cardinality(t) + V /\ P2 = Cardinality(s) /\ P = Cardinality(t)
    BY <1>2, <2>2, <2>3, <2>4 DEF s, t
  <2> QED  BY <2>5
<1>4. /\ r.at = "choosing" =>
            /\ r.excess \in Nat \ {0}
            /\ W <= r.excess + MaxSessions - 1 + A + n \/ L <= MaxSessions - 1 + A + n
      /\ r.at = "removing" => P <= MaxSessions - 1 + A + n
      /\ r.at = "creating" => L <= MaxSessions - 1 + A + n
      /\ V <= n2 - n
  <2> HIDE DEF A, L, W, P
  <2>1. Cardinality(a) = A /\ Cardinality(live) = L /\ Cardinality(w) = W
        /\ Cardinality(live \ r.picked) = P
    BY DEF A, L, W, P
  <2> QED  BY <2>1, <1>1, <1>2, ConsoleAssumption DEF Room
<1> HIDE DEF A, A2, L, L2, V, W, W2, P, P2
<1>5. /\ r.at = "choosing" =>
            /\ r.excess \in Nat \ {0}
            /\ \/ W2 <= r.excess + (MaxSessions - 1 + A2 + n2)
               \/ L2 <= MaxSessions - 1 + A2 + n2
      /\ r.at = "removing" => P2 <= MaxSessions - 1 + A2 + n2
      /\ r.at = "creating" => L2 <= MaxSessions - 1 + A2 + n2
  BY <1>1, <1>2, <1>3, <1>4, ConsoleAssumption
<1> QED  BY <1>5 DEF Room, A2, L2, W2, P2

\* A new session takes the room of the handler that adds it.
LEMMA RoomForOneMore ==
    ASSUME NEW r, NEW a \in SUBSET Handler, NEW k \in Handler, k \notin a,
           NEW live \in SUBSET Session, NEW live2 \in SUBSET Session, NEW s,
           live2 \subseteq live \cup {s},
           NEW w \in SUBSET Session, NEW w2 \in SUBSET Session, w2 \subseteq w \cup {s},
           NEW n \in Nat, Room(r, a, live, w, n)
    PROVE  Room(r, a \cup {k}, live2, w2, n)
<1> DEFINE A == Cardinality(a)
           A2 == Cardinality(a \cup {k})
           L == Cardinality(live)
           L2 == Cardinality(live2)
           W == Cardinality(w)
           W2 == Cardinality(w2)
           P == Cardinality(live \ r.picked)
           P2 == Cardinality(live2 \ r.picked)
<1>1. A \in Nat /\ A2 = A + 1
  BY HandlersAreFinite, OneHandlerMore
<1>2. /\ L \in Nat /\ L2 \in Nat /\ W \in Nat /\ W2 \in Nat /\ P \in Nat /\ P2 \in Nat
      /\ W2 <= W + 1 /\ L2 <= L + 1 /\ P2 <= P + 1
  <2>1. live \ r.picked \in SUBSET Session /\ live2 \ r.picked \in SUBSET Session
        /\ live2 \ r.picked \subseteq (live \ r.picked) \cup {s}
    OBVIOUS
  <2> QED  BY <2>1, SessionsAreFinite, OneLarger
<1>4. /\ r.at = "choosing" =>
            /\ r.excess \in Nat \ {0}
            /\ W <= r.excess + MaxSessions - 1 + A + n \/ L <= MaxSessions - 1 + A + n
      /\ r.at = "removing" => P <= MaxSessions - 1 + A + n
      /\ r.at = "creating" => L <= MaxSessions - 1 + A + n
  <2> HIDE DEF A, L, W, P
  <2>1. Cardinality(a) = A /\ Cardinality(live) = L /\ Cardinality(w) = W
        /\ Cardinality(live \ r.picked) = P
    BY DEF A, L, W, P
  <2> QED  BY <2>1, <1>1, <1>2, ConsoleAssumption DEF Room
<1> HIDE DEF A, A2, L, L2, W, W2, P, P2
<1>5. /\ r.at = "choosing" =>
            /\ r.excess \in Nat \ {0}
            /\ \/ W2 <= r.excess + (MaxSessions - 1 + A2 + n)
               \/ L2 <= MaxSessions - 1 + A2 + n
      /\ r.at = "removing" => P2 <= MaxSessions - 1 + A2 + n
      /\ r.at = "creating" => L2 <= MaxSessions - 1 + A2 + n
  BY <1>1, <1>2, <1>4, ConsoleAssumption
<1> QED  BY <1>5 DEF Room, A2, L2, W2, P2

\* Where there are few enough live sessions, there is room whatever was counted.
LEMMA RoomWhereFew ==
    ASSUME NEW r, NEW a \in SUBSET Handler, NEW live \in SUBSET Session, NEW w, NEW n \in Nat,
           r.at = "choosing" => r.excess \in Nat \ {0},
           Cardinality(live) <= MaxSessions - 1 + Cardinality(a) + n
    PROVE  Room(r, a, live, w, n)
<1> DEFINE most == MaxSessions - 1 + Cardinality(a) + n
<1>1. Cardinality(live) \in Nat /\ Cardinality(live \ r.picked) \in Nat /\ most \in Int
      /\ Cardinality(live \ r.picked) <= Cardinality(live)
  <2>1. live \ r.picked \in SUBSET Session /\ live \ r.picked \in SUBSET live
    OBVIOUS
  <2> QED  BY <2>1, SessionsAreFinite, HandlersAreFinite, PartIsSmaller, ConsoleAssumption
<1>2. Cardinality(live) <= most
  OBVIOUS
<1> HIDE DEF most
<1>3. Cardinality(live \ r.picked) <= most
  BY <1>1, <1>2
<1> QED  BY <1>2, <1>3 DEF Room, most

-----------------------------------------------------------------------------
(* The steps, as far as the bound is concerned *)

\* Handlers that write have a session.
HaveSessions(rows) == \A g \in Handler : rows[g].at \in Writing => rows[g].session \in Session

\* The live session, if any, that a handler leaves out of the index when it ends.
LeftOut(row, ix, live) == {s \in live : row.at = "indexing" /\ s = row.session /\ s \notin ix}

\* Any step but those of a login that makes room: a handler writes its own session to
\* the index, takes a session from it that is gone, or brings one back to life or leaves
\* one out of the index and says so.
Ordinary(h, ix, ix2, live, live2, rows, rows2, n, n2) ==
    /\ \A g \in Handler \ {h} : rows2[g] = rows[g]
    /\ rows2[h].at \notin MakesRoom
    /\ rows2[h].at \in Writing =>
         \/ rows2[h].session \in live2
         \/ rows[h].at \in Writing /\ rows2[h].session = rows[h].session
    /\ rows2[h].at \in Misses => rows2[h].session \notin live2
    /\ \A s \in ix2 \ ix : rows[h].at \in Writing /\ s = rows[h].session
    /\ \A s \in ix \ ix2 :
         \/ s \notin live2
         \/ rows[h].at \in Misses /\ s = rows[h].session /\ live2 \subseteq live
    /\ \A s \in live2 \ live : rows[h].at \in Writing /\ s = rows[h].session
    /\ Cardinality((live2 \ live) \cup LeftOut(rows[h], ix2, live2)) <= n2 - n

\* What the index may come to hold are sessions.
LEMMA WorldIsSessions ==
    ASSUME NEW ix \in SUBSET Session, NEW live \in SUBSET Session, NEW rows, HaveSessions(rows)
    PROVE  World(ix, live, rows) \in SUBSET Session
BY DEF World, Writers, HaveSessions

\* An ordinary step adds nothing to what the index may come to hold.
LEMMA WorldShrinks ==
    ASSUME NEW h \in Handler, NEW ix, NEW ix2, NEW live, NEW live2, NEW rows, NEW rows2,
           NEW n, NEW n2, Ordinary(h, ix, ix2, live, live2, rows, rows2, n, n2)
    PROVE  World(ix2, live2, rows2) \subseteq World(ix, live, rows)
<1>1. ASSUME NEW s \in live2  PROVE s \in World(ix, live, rows)
  BY <1>1 DEF Ordinary, World, Writers
<1>2. ASSUME NEW s \in ix2  PROVE s \in World(ix, live, rows)
  BY <1>2 DEF Ordinary, World, Writers
<1>3. ASSUME NEW g \in Writers(rows2)  PROVE rows2[g].session \in World(ix, live, rows)
  <2>1. CASE g = h
    BY <1>1, <1>3, <2>1 DEF Ordinary, World, Writers
  <2>2. CASE g # h
    BY <1>3, <2>2 DEF Ordinary, World, Writers
  <2> QED  BY <2>1, <2>2
<1>4. World(ix2, live2, rows2) = ix2 \cup live2 \cup {rows2[g].session : g \in Writers(rows2)}
  BY DEF World
<1> QED  BY <1>1, <1>2, <1>3, <1>4

\* An ordinary step keeps the bound.
LEMMA OrdinaryKeepsBound ==
    ASSUME NEW all \in SUBSET Handler, NEW h \in Handler,
           NEW ix \in SUBSET Session, NEW ix2 \in SUBSET Session,
           NEW live \in SUBSET Session, NEW live2 \in SUBSET Session,
           NEW rows, NEW rows2, NEW n \in Nat, NEW n2 \in Nat,
           HaveSessions(rows), Writers(rows2) \subseteq all,
           Ordinary(h, ix, ix2, live, live2, rows, rows2, n, n2),
           HasBound(all, ix, live, rows, n)
    PROVE  HasBound(all, ix2, live2, rows2, n2)
<1>1. PICK A \in [Handler -> SUBSET all], R \in SUBSET Session : Bounded(all, A, R, ix, live, rows, n)
  BY DEF HasBound
<1> DEFINE A2 == [g \in Handler |-> A[g] \cup Writers(rows2)]
           V == live2 \ live
           S == V \cup LeftOut(rows[h], ix2, live2)
           R2 == R \cup S
<1>2. /\ A2 \in [Handler -> SUBSET all] /\ R2 \in SUBSET Session /\ S \in SUBSET Session
      /\ V \in SUBSET S /\ V \in SUBSET Session
  BY DEF LeftOut
<1>9. Cardinality(S) <= n2 - n /\ Cardinality(S) \in Nat
  BY <1>2, SessionsAreFinite DEF Ordinary
<1>3. Cardinality(V) <= n2 - n /\ Cardinality(V) \in Nat
  <2>1. Cardinality(V) <= Cardinality(S) /\ Cardinality(V) \in Nat
    <3> HIDE DEF V, S
    <3> QED  BY <1>2, SessionsAreFinite, PartIsSmaller
  <2> HIDE DEF V, S
  <2> QED  BY <1>9, <2>1
<1>4. Cardinality(R2) <= n2
  <2>1. R2 \ R \in SUBSET S
    OBVIOUS
  <2>2. Cardinality(R2 \ R) <= Cardinality(S) /\ Cardinality(R2) <= Cardinality(R) + Cardinality(R2 \ R)
    BY <1>2, <2>1, NoLarger, PartIsSmaller
  <2>3. Cardinality(R2 \ R) \in Nat /\ Cardinality(R) \in Nat /\ Cardinality(R2) \in Nat
        /\ Cardinality(R) <= n
    <3>1. R2 \ R \in SUBSET Session
      BY <1>2
    <3> QED  BY <1>1, <1>2, <3>1, SessionsAreFinite DEF Bounded
  <2> HIDE DEF R2, S
  <2> QED  BY <1>9, <2>2, <2>3
<1>5. Cardinality(live2) <= MaxSessions + Cardinality(all) - 1 + n2
  <2>1. Cardinality(live2) <= Cardinality(live) + Cardinality(V)
    BY NoLarger
  <2>2. Cardinality(live) \in Nat /\ Cardinality(live2) \in Nat /\ Cardinality(all) \in Nat
        /\ Cardinality(live) <= MaxSessions + Cardinality(all) - 1 + n
    BY <1>1, SessionsAreFinite, HandlersAreFinite DEF Bounded
  <2> HIDE DEF V
  <2> QED  BY <1>3, <2>1, <2>2, ConsoleAssumption
<1>6. Accounted(R2, ix2, live2, rows2)
  <2>1. Accounted(R, ix, live, rows)
    BY <1>1 DEF Bounded
  <2>2. ASSUME NEW s \in live2
        PROVE  \/ s \in ix2 \cup R2
               \/ \E g \in Handler : rows2[g].at = "indexing" /\ rows2[g].session = s
    <3>1. CASE s \notin live
      BY <2>2, <3>1
    <3>2. CASE s \in live
      <4>1. CASE s \in ix
        <5>1. CASE s \in ix2
          BY <5>1
        <5>2. CASE s \notin ix2
          <6>1. rows[h].at \in Misses /\ s = rows[h].session
            BY <2>2, <4>1, <5>2 DEF Ordinary
          <6>2. s \in R
            BY <2>1, <3>2, <6>1 DEF Accounted
          <6> QED  BY <6>2
        <5> QED  BY <5>1, <5>2
      <4>2. CASE s \in R
        BY <4>2
      <4>3. ASSUME NEW g \in Handler, rows[g].at = "indexing", rows[g].session = s
            PROVE  \/ s \in ix2 \cup R2
                   \/ rows2[g].at = "indexing" /\ rows2[g].session = s
        <5>1. CASE g = h
          BY <2>2, <4>3, <5>1 DEF LeftOut
        <5>2. CASE g # h
          BY <4>3, <5>2 DEF Ordinary
        <5> QED  BY <5>1, <5>2
      <4> QED  BY <2>1, <3>2, <4>1, <4>2, <4>3 DEF Accounted
    <3> QED  BY <3>1, <3>2
  <2>3. ASSUME NEW g \in Handler, rows2[g].at \in Misses
        PROVE  rows2[g].session \notin live2 \/ rows2[g].session \in R2
    <3>1. CASE g = h
      BY <2>3, <3>1 DEF Ordinary
    <3>2. CASE g # h
      <4>1. rows2[g] = rows[g]
        BY <3>2 DEF Ordinary
      <4> QED  BY <2>1, <2>3, <4>1 DEF Accounted
    <3> QED  BY <3>1, <3>2
  <2> HIDE DEF R2
  <2> QED  BY <2>2, <2>3 DEF Accounted
<1>7. ASSUME NEW g \in Handler, rows2[g].at \in MakesRoom
      PROVE  InOrder(A2, rows2, g) /\ Room(rows2[g], A2[g], live2, World(ix2, live2, rows2), n2)
  <2>1. g # h /\ rows2[g] = rows[g]
    BY <1>7 DEF Ordinary
  <2>2. InOrder(A, rows, g) /\ Room(rows[g], A[g], live, World(ix, live, rows), n)
    BY <1>1, <1>7, <2>1 DEF Bounded
  <2>3. \A k \in Handler : rows2[k].at \in MakesRoom => rows[k].at \in MakesRoom
    BY DEF Ordinary
  <2>4. g \notin Writers(rows2) /\ \A k \in Writers(rows2) : rows2[k].at \notin MakesRoom
    BY <1>7 DEF Writers, Writing, MakesRoom
  <2>5. InOrder(A2, rows2, g)
    <3>1. A2[g] = A[g] \cup Writers(rows2) /\ \A k \in Handler : A2[k] = A[k] \cup Writers(rows2)
      OBVIOUS
    <3>2. Writers(rows2) \subseteq Handler /\ A[g] \subseteq Handler
      BY DEF Writers
    <3> HIDE DEF A2
    <3> QED  BY <2>2, <2>3, <2>4, <3>1, <3>2 DEF InOrder
  <2>6. Room(rows[g], A2[g], live2, World(ix2, live2, rows2), n2)
    <3>1. World(ix, live, rows) \in SUBSET Session
          /\ World(ix2, live2, rows2) \in SUBSET World(ix, live, rows)
      BY WorldIsSessions, WorldShrinks
    <3>2. A2[g] \in SUBSET Handler /\ A[g] \in SUBSET A2[g]
      BY <1>2
    <3> HIDE DEF A2
    <3> QED  BY <1>3, <2>2, <3>1, <3>2, RoomKept
  <2> QED  BY <2>1, <2>5, <2>6
<1> HIDE DEF A2, R2, S, V
<1>8. Bounded(all, A2, R2, ix2, live2, rows2, n2)
  BY <1>4, <1>5, <1>6, <1>7 DEF Bounded
<1> QED  BY <1>2, <1>8 DEF HasBound

\* A step that leaves the index and who writes what alone and adds no live session keeps
\* the bound, if the login it takes on, if any, leaves room.
LEMMA OnwardsKeepsBound ==
    ASSUME NEW all \in SUBSET Handler, NEW A \in [Handler -> SUBSET all], NEW R \in SUBSET Session,
           NEW ix \in SUBSET Session, NEW ix2 \in SUBSET ix,
           NEW live \in SUBSET Session, NEW live2 \in SUBSET live,
           NEW rows, NEW rows2, NEW n \in Nat, HaveSessions(rows),
           \A s \in ix \ ix2 : s \notin live2,
           \A g \in Handler :
              /\ rows2[g].at \in Writing \cup Misses => rows2[g] = rows[g]
              /\ rows[g].at \in Writing \cup Misses => rows2[g] = rows[g]
              /\ rows2[g].at \in MakesRoom => rows[g].at \in MakesRoom,
           \A g \in Handler : rows2[g].at \in MakesRoom =>
              rows2[g] = rows[g] \/ Room(rows2[g], A[g], live2, World(ix2, live2, rows2), n),
           Bounded(all, A, R, ix, live, rows, n)
    PROVE  Bounded(all, A, R, ix2, live2, rows2, n)
<1>1. Writers(rows2) = Writers(rows) /\ \A g \in Writers(rows) : rows2[g] = rows[g]
  BY DEF Writers
<1>2. World(ix, live, rows) \in SUBSET Session
      /\ World(ix2, live2, rows2) \in SUBSET World(ix, live, rows)
  <2>1. {rows2[g].session : g \in Writers(rows2)} = {rows[g].session : g \in Writers(rows)}
    BY <1>1
  <2>2. World(ix2, live2, rows2) \in SUBSET World(ix, live, rows)
    BY <2>1 DEF World
  <2> QED  BY <2>2, WorldIsSessions
<1>3. Cardinality(R) <= n /\ Cardinality(live2) <= MaxSessions + Cardinality(all) - 1 + n
  <2>1. Cardinality(live) <= MaxSessions + Cardinality(all) - 1 + n /\ Cardinality(R) <= n
    BY DEF Bounded
  <2>2. Cardinality(live2) <= Cardinality(live) /\ Cardinality(live2) \in Nat
        /\ Cardinality(live) \in Nat /\ Cardinality(all) \in Nat
    BY PartIsSmaller, SessionsAreFinite, HandlersAreFinite
  <2> QED  BY <2>1, <2>2, ConsoleAssumption
<1>4. Accounted(R, ix2, live2, rows2)
  <2>1. Accounted(R, ix, live, rows)
    BY DEF Bounded
  <2>2. \A g \in Handler : rows[g].at = "indexing" => rows2[g] = rows[g]
    BY DEF Writing
  <2> QED  BY <2>1, <2>2 DEF Accounted
<1>5. ASSUME NEW g \in Handler, rows2[g].at \in MakesRoom
      PROVE  InOrder(A, rows2, g) /\ Room(rows2[g], A[g], live2, World(ix2, live2, rows2), n)
  <2>1. InOrder(A, rows, g) /\ Room(rows[g], A[g], live, World(ix, live, rows), n)
    BY <1>5 DEF Bounded
  <2>2. InOrder(A, rows2, g)
    BY <1>1, <2>1 DEF InOrder
  <2>3. CASE rows2[g] = rows[g]
    <3>1. live2 \ live = {}
      OBVIOUS
    <3>2. Cardinality(live2 \ live) <= n - n
      <4>1. Cardinality(live2 \ live) = 0
        BY <3>1, FS_EmptySet
      <4> QED  BY <4>1
    <3>3. live2 \in SUBSET Session /\ A[g] \in SUBSET Handler
      OBVIOUS
    <3>4. Room(rows[g], A[g], live2, World(ix2, live2, rows2), n)
      BY <1>2, <2>1, <3>2, <3>3, RoomKept
    <3> QED  BY <2>2, <2>3, <3>4
  <2> QED  BY <1>5, <2>2, <2>3
<1> QED  BY <1>3, <1>4, <1>5 DEF Bounded

\* Where nobody counts, time only takes sessions away.
LEMMA TimeKeepsBound ==
    ASSUME NEW all \in SUBSET Handler, NEW ix \in SUBSET Session,
           NEW live \in SUBSET Session, NEW live2 \in SUBSET live,
           NEW rows, NEW n \in Nat, HaveSessions(rows), HasBound(all, ix, live, rows, n)
    PROVE  HasBound(all, ix, live2, rows, n)
<1>1. PICK A \in [Handler -> SUBSET all], R \in SUBSET Session : Bounded(all, A, R, ix, live, rows, n)
  BY DEF HasBound
<1>2. Bounded(all, A, R, ix, live2, rows, n)
  BY <1>1, OnwardsKeepsBound
<1> QED  BY <1>2 DEF HasBound

\* A login that has picked the oldest sessions, as many as there are too many.
LEMMA PickKeepsBound ==
    ASSUME NEW all \in SUBSET Handler, NEW h \in Handler, NEW ix \in SUBSET Session,
           NEW live \in SUBSET Session, NEW rows, NEW rows2, NEW n \in Nat, HaveSessions(rows),
           \A g \in Handler \ {h} : rows2[g] = rows[g],
           rows[h].at = "choosing", rows2[h].at = "removing",
           rows2[h].picked \in SUBSET ix,
           Cardinality(rows2[h].picked) = Lesser(rows[h].excess, Cardinality(ix)),
           HasBound(all, ix, live, rows, n)
    PROVE  HasBound(all, ix, live, rows2, n)
<1>1. PICK A \in [Handler -> SUBSET all], R \in SUBSET Session : Bounded(all, A, R, ix, live, rows, n)
  BY DEF HasBound
<1>2. InOrder(A, rows, h) /\ Room(rows[h], A[h], live, World(ix, live, rows), n)
  BY <1>1 DEF Bounded, MakesRoom
<1> DEFINE P == rows2[h].picked
           W == World(ix, live, rows)
           e == rows[h].excess
           most == MaxSessions - 1 + Cardinality(A[h]) + n
<1>3. A[h] \in SUBSET Handler /\ Cardinality(A[h]) \in Nat
  BY HandlersAreFinite
<1>4. W \in SUBSET Session /\ P \in SUBSET W /\ P \in SUBSET Session
      /\ live \ P \in SUBSET Session /\ live \ P \in SUBSET (W \ P) /\ W \ P \in SUBSET Session
  BY WorldIsSessions DEF World
<1>5. /\ Cardinality(W) \in Nat /\ Cardinality(P) \in Nat /\ Cardinality(live \ P) \in Nat
      /\ Cardinality(W \ P) \in Nat /\ Cardinality(live) \in Nat /\ Cardinality(ix) \in Nat
  BY <1>4, SessionsAreFinite
<1>6. Cardinality(live \ P) <= most
  <2>1. CASE Cardinality(live) <= most
    <3>1. live \ P \in SUBSET live
      OBVIOUS
    <3>2. Cardinality(live \ P) <= Cardinality(live)
      BY <3>1, PartIsSmaller
    <3>3. most \in Int
      BY <1>3, ConsoleAssumption
    <3> HIDE DEF P, most
    <3> QED  BY <1>5, <2>1, <3>2, <3>3
  <2>2. CASE Cardinality(W) <= e + most /\ e \in Nat /\ e < Cardinality(ix)
    <3>1. Cardinality(P) = e
      BY <2>2 DEF Lesser
    <3>2. Cardinality(W) = Cardinality(P) + Cardinality(W \ P)
      <4>1. P \cap (W \ P) = {} /\ P \cup (W \ P) = W
        BY <1>4
      <4>2. IsFiniteSet(P) /\ IsFiniteSet(W \ P)
        BY <1>4, SessionsAreFinite
      <4>3. Cardinality(P \cup (W \ P)) = Cardinality(P) + Cardinality(W \ P) - Cardinality(P \cap (W \ P))
        BY <4>2, FS_Union
      <4>4. Cardinality(W) = Cardinality(P) + Cardinality(W \ P) - 0
        BY <4>1, <4>3, FS_EmptySet
      <4> HIDE DEF P, W
      <4> QED  BY <1>5, <4>4
    <3>3. Cardinality(live \ P) <= Cardinality(W \ P)
      BY <1>4, PartIsSmaller
    <3>4. most \in Int
      BY <1>3, ConsoleAssumption
    <3> HIDE DEF P, W, most, e
    <3> QED  BY <1>5, <2>2, <3>1, <3>2, <3>3, <3>4
  <2>3. CASE e \in Nat /\ ~(e < Cardinality(ix))
    <3>1. Cardinality(P) = Cardinality(ix)
      BY <2>3 DEF Lesser
    <3>2. P = ix
      BY <3>1, SessionsAreFinite, FS_Subset
    <3>3. live \ P \subseteq R \cup {rows[g].session : g \in A[h]}
      <4>1. Accounted(R, ix, live, rows)
        BY <1>1 DEF Bounded
      <4>2. \A g \in Handler : rows[g].at = "indexing" => g \in A[h]
        BY <1>2 DEF InOrder, Writers, Writing
      <4> QED  BY <3>2, <4>1, <4>2 DEF Accounted
    <3> DEFINE T == live \ P
    <3>4. T \in SUBSET Session /\ T \ R \in SUBSET Session
          /\ T \ R \in SUBSET {rows[g].session : g \in A[h]}
      BY <1>4, <3>3
    <3>5. Cardinality(T) <= Cardinality(R) + Cardinality(T \ R)
      BY <3>4, NoLarger
    <3>6. Cardinality(T \ R) <= Cardinality(A[h])
      <4> DEFINE S == {rows[g].session : g \in A[h]}
      <4>1. Cardinality(S) <= Cardinality(A[h]) /\ IsFiniteSet(S)
        BY <1>3, SessionsOfHandlers
      <4>2. Cardinality(T \ R) <= Cardinality(S) /\ Cardinality(S) \in Nat
        BY <3>4, <4>1, FS_Subset, FS_CardinalityType
      <4>3. Cardinality(T \ R) \in Nat
        BY <3>4, SessionsAreFinite
      <4> HIDE DEF S, T
      <4> QED  BY <1>3, <4>1, <4>2, <4>3
    <3>7. Cardinality(T) \in Nat /\ Cardinality(R) \in Nat /\ Cardinality(T \ R) \in Nat
          /\ Cardinality(R) <= n
      BY <1>1, <3>4, SessionsAreFinite DEF Bounded
    <3> HIDE DEF T
    <3>8. Cardinality(T) <= MaxSessions - 1 + Cardinality(A[h]) + n
      BY <1>3, <3>5, <3>6, <3>7, ConsoleAssumption
    <3> QED  BY <3>8 DEF T
  <2> QED  BY <1>2, <2>1, <2>2, <2>3 DEF Room
<1>7. World(ix, live, rows2) = W
  <2>1. Writers(rows2) = Writers(rows) /\ \A g \in Writers(rows) : rows2[g] = rows[g]
    BY DEF Writers, Writing
  <2> QED  BY <2>1 DEF World
<1>8. Room(rows2[h], A[h], live, World(ix, live, rows2), n)
  BY <1>6 DEF Room
<1>9. \A g \in Handler :
         /\ rows2[g].at \in Writing \cup Misses => rows2[g] = rows[g]
         /\ rows[g].at \in Writing \cup Misses => rows2[g] = rows[g]
         /\ rows2[g].at \in MakesRoom => rows[g].at \in MakesRoom
  BY DEF Writing, Misses, MakesRoom
<1>10. \A g \in Handler : rows2[g].at \in MakesRoom =>
         rows2[g] = rows[g] \/ Room(rows2[g], A[g], live, World(ix, live, rows2), n)
  BY <1>8
<1>11. Bounded(all, A, R, ix, live, rows2, n)
  BY <1>1, <1>9, <1>10, OnwardsKeepsBound
<1> QED  BY <1>11 DEF HasBound

\* A login that has removed what it picked.
LEMMA RemoveKeepsBound ==
    ASSUME NEW all \in SUBSET Handler, NEW h \in Handler, NEW ix \in SUBSET Session,
           NEW live \in SUBSET Session, NEW rows, NEW rows2, NEW n \in Nat, HaveSessions(rows),
           \A g \in Handler \ {h} : rows2[g] = rows[g],
           rows[h].at = "removing", rows2[h].at = "creating",
           NEW live2 \in SUBSET (live \ rows[h].picked),
           HasBound(all, ix, live, rows, n)
    PROVE  HasBound(all, ix \ rows[h].picked, live2, rows2, n)
<1>1. PICK A \in [Handler -> SUBSET all], R \in SUBSET Session : Bounded(all, A, R, ix, live, rows, n)
  BY DEF HasBound
<1> DEFINE P == rows[h].picked
           ix2 == ix \ P
           most == MaxSessions - 1 + Cardinality(A[h]) + n
<1>2. Cardinality(live \ P) <= most
  BY <1>1 DEF Bounded, MakesRoom, Room
<1>3. Cardinality(live2) <= most
  <2>1. live \ P \in SUBSET Session /\ live2 \in SUBSET Session /\ A[h] \in SUBSET Handler
    OBVIOUS
  <2>2. Cardinality(live \ P) \in Nat /\ Cardinality(live2) \in Nat /\ Cardinality(A[h]) \in Nat
        /\ Cardinality(live2) <= Cardinality(live \ P)
    BY <2>1, SessionsAreFinite, HandlersAreFinite, PartIsSmaller
  <2>3. most \in Int
    BY <2>2, ConsoleAssumption
  <2> HIDE DEF most
  <2> QED  BY <1>2, <2>2, <2>3
<1>4. Room(rows2[h], A[h], live2, World(ix2, live2, rows2), n)
  BY <1>3 DEF Room
<1>5. \A g \in Handler :
         /\ rows2[g].at \in Writing \cup Misses => rows2[g] = rows[g]
         /\ rows[g].at \in Writing \cup Misses => rows2[g] = rows[g]
         /\ rows2[g].at \in MakesRoom => rows[g].at \in MakesRoom
  BY DEF Writing, Misses, MakesRoom
<1>6. \A g \in Handler : rows2[g].at \in MakesRoom =>
         rows2[g] = rows[g] \/ Room(rows2[g], A[g], live2, World(ix2, live2, rows2), n)
  BY <1>4
<1>7. ix2 \in SUBSET ix /\ live2 \in SUBSET live /\ \A s \in ix \ ix2 : s \notin live2
  OBVIOUS
<1> HIDE DEF ix2
<1>8. Bounded(all, A, R, ix2, live2, rows2, n)
  BY <1>1, <1>5, <1>6, <1>7, OnwardsKeepsBound
<1>9. HasBound(all, ix2, live2, rows2, n)
  BY <1>8 DEF HasBound
<1> QED  BY <1>9 DEF ix2

\* A login that has counted leaves room for all that write now.
LEMMA CountKeepsBound ==
    ASSUME NEW all \in SUBSET Handler, NEW h \in Handler, NEW ix \in SUBSET Session,
           NEW live \in SUBSET Session, NEW rows, NEW rows2, NEW n \in Nat, HaveSessions(rows),
           Writers(rows) \subseteq all,
           \A g \in Handler \ {h} : rows2[g] = rows[g],
           rows[h].at = "counting",
           \/ /\ rows2[h].at = "choosing"
              /\ rows2[h].excess = Cardinality(ix) - MaxSessions + 1 /\ rows2[h].excess > 0
           \/ rows2[h].at = "creating" /\ ~(Cardinality(ix) - MaxSessions + 1 > 0),
           HasBound(all, ix, live, rows, n)
    PROVE  HasBound(all, ix, live, rows2, n)
<1>1. PICK A \in [Handler -> SUBSET all], R \in SUBSET Session : Bounded(all, A, R, ix, live, rows, n)
  BY DEF HasBound
<1> DEFINE B == Writers(rows)
           A2 == [A EXCEPT ![h] = B]
           W == World(ix, live, rows)
           T == {rows[g].session : g \in B}
<1>2. A2 \in [Handler -> SUBSET all] /\ A2[h] = B /\ \A g \in Handler \ {h} : A2[g] = A[g]
  OBVIOUS
<1>3. Writers(rows2) = B /\ World(ix, live, rows2) = W /\ B \in SUBSET Handler /\ h \notin B
  <2>1. Writers(rows2) = B /\ B \in SUBSET Handler /\ h \notin B /\ \A g \in B : rows2[g] = rows[g]
    BY DEF Writers, Writing
  <2> QED  BY <2>1 DEF World
<1>4. /\ Cardinality(W) <= Cardinality(ix) + Cardinality(B) + n
      /\ Cardinality(ix) \in Nat /\ Cardinality(B) \in Nat /\ Cardinality(W) \in Nat
      /\ Cardinality(live) \in Nat /\ Cardinality(live) <= Cardinality(W)
  <2>1. live \subseteq ix \cup R \cup T
    <3>1. Accounted(R, ix, live, rows)
      BY <1>1 DEF Bounded
    <3>2. \A g \in Handler : rows[g].at = "indexing" => g \in B
      BY DEF Writers, Writing
    <3> QED  BY <3>1, <3>2 DEF Accounted
  <2>2. W \in SUBSET Session /\ W \ ix \in SUBSET Session /\ (W \ ix) \ R \in SUBSET Session
        /\ live \in SUBSET W /\ T \in SUBSET Session /\ (W \ ix) \ R \in SUBSET T
    <3>1. W \in SUBSET Session
      BY WorldIsSessions
    <3> QED  BY <2>1, <3>1 DEF World
  <2>3. Cardinality(W) <= Cardinality(ix) + Cardinality(W \ ix)
        /\ Cardinality(W \ ix) <= Cardinality(R) + Cardinality((W \ ix) \ R)
    BY <2>2, NoLarger
  <2>4. Cardinality(T) <= Cardinality(B)
    BY <1>3, SessionsOfHandlers
  <2>5. Cardinality((W \ ix) \ R) <= Cardinality(T) /\ Cardinality(live) <= Cardinality(W)
    BY <2>2, PartIsSmaller
  <2>6. /\ Cardinality(W) \in Nat /\ Cardinality(W \ ix) \in Nat /\ Cardinality((W \ ix) \ R) \in Nat
        /\ Cardinality(T) \in Nat /\ Cardinality(R) \in Nat /\ Cardinality(ix) \in Nat
        /\ Cardinality(live) \in Nat
    BY <2>2, SessionsAreFinite
  <2>7. Cardinality(B) \in Nat /\ Cardinality(R) <= n
    BY <1>1, <1>3, HandlersAreFinite DEF Bounded
  <2> HIDE DEF W, T, B
  <2> QED  BY <2>3, <2>4, <2>5, <2>6, <2>7
<1>5. Room(rows2[h], B, live, W, n)
  <2> HIDE DEF W, B
  <2>1. CASE rows2[h].at = "choosing"
    <3>1. rows2[h].excess \in Nat \ {0}
          /\ Cardinality(W) <= rows2[h].excess + (MaxSessions - 1 + Cardinality(B) + n)
      BY <1>4, <2>1, ConsoleAssumption
    <3> QED  BY <2>1, <3>1 DEF Room
  <2>2. CASE rows2[h].at = "creating"
    <3>1. Cardinality(live) <= MaxSessions - 1 + Cardinality(B) + n
      BY <1>4, <2>2, ConsoleAssumption
    <3> QED  BY <2>2, <3>1 DEF Room
  <2> QED  BY <2>1, <2>2
<1>6. InOrder(A2, rows2, h)
  <2>1. \A k \in B : rows2[k].at \notin MakesRoom
    BY <1>3 DEF Writers, Writing, MakesRoom
  <2> HIDE DEF A2, B
  <2> QED  BY <1>2, <1>3, <2>1 DEF InOrder
<1>7. ASSUME NEW g \in Handler \ {h}, rows2[g].at \in MakesRoom
      PROVE  InOrder(A2, rows2, g) /\ Room(rows2[g], A2[g], live, World(ix, live, rows2), n)
  <2>1. rows2[g] = rows[g] /\ A2[g] = A[g]
    BY <1>2, <1>7
  <2>2. InOrder(A, rows, g) /\ Room(rows[g], A[g], live, W, n)
    BY <1>1, <1>7, <2>1 DEF Bounded
  <2>3. A[g] \subseteq Handler
    OBVIOUS
  <2> HIDE DEF A2, B, W
  <2>4. \A k \in A[g] : rows2[k].at \in MakesRoom => A2[k] \subseteq A[g]
    <3> TAKE k \in A[g]
    <3>1. CASE k = h
      BY <1>2, <1>3, <2>2, <3>1 DEF InOrder, B
    <3>2. CASE k # h
      BY <1>2, <2>2, <2>3, <3>2 DEF InOrder
    <3> QED  BY <3>1, <3>2
  <2>5. InOrder(A2, rows2, g)
    BY <1>2, <1>3, <2>1, <2>2, <2>4 DEF InOrder, B
  <2> QED  BY <1>3, <2>1, <2>2, <2>5
<1>8. Accounted(R, ix, live, rows2)
  <2>1. Accounted(R, ix, live, rows)
    BY <1>1 DEF Bounded
  <2>2. rows2[h].at \notin Misses /\ rows[h].at # "indexing"
    BY DEF Misses
  <2> QED  BY <2>1, <2>2 DEF Accounted
<1> HIDE DEF A2, B, W
<1>9. Bounded(all, A2, R, ix, live, rows2, n)
  <2>1. Cardinality(R) <= n /\ Cardinality(live) <= MaxSessions + Cardinality(all) - 1 + n
    BY <1>1 DEF Bounded
  <2>2. ASSUME NEW g \in Handler, rows2[g].at \in MakesRoom
        PROVE  InOrder(A2, rows2, g) /\ Room(rows2[g], A2[g], live, World(ix, live, rows2), n)
    <3>1. CASE g = h
      BY <1>2, <1>3, <1>5, <1>6, <3>1
    <3> QED  BY <1>7, <2>2, <3>1
  <2> QED  BY <1>8, <2>1, <2>2 DEF Bounded
<1> QED  BY <1>2, <1>9 DEF HasBound

\* A new session takes the room its login left: for the others the login is ahead,
\* or they are ahead of it and have the room of one handler more.
LEMMA NewSessionKeepsBound ==
    ASSUME NEW all \in SUBSET Handler, NEW h \in all, NEW ix \in SUBSET Session,
           NEW live \in SUBSET Session, NEW live2 \in SUBSET Session,
           NEW s \in Session, live2 \subseteq live \cup {s},
           NEW rows, NEW rows2, NEW n \in Nat, HaveSessions(rows),
           Writers(rows) \subseteq all,
           \A g \in Handler \ {h} : rows2[g] = rows[g],
           \A g \in Handler : rows[g].at \in Misses => rows[g].session # s,
           rows[h].at = "creating", rows2[h].at = "indexing", rows2[h].session = s,
           HasBound(all, ix, live, rows, n)
    PROVE  HasBound(all, ix, live2, rows2, n)
<1>1. PICK A \in [Handler -> SUBSET all], R \in SUBSET Session : Bounded(all, A, R, ix, live, rows, n)
  BY DEF HasBound
<1> DEFINE A2 == [g \in Handler |-> A[g] \cup {h}]
           W == World(ix, live, rows)
           W2 == World(ix, live2, rows2)
<1>0. h \in Handler
  OBVIOUS
<1>2. A2 \in [Handler -> SUBSET all] /\ \A g \in Handler : A2[g] = A[g] \cup {h}
  OBVIOUS
<1>3. Writers(rows2) = Writers(rows) \cup {h}
  BY <1>0 DEF Writers, Writing
<1>4. W \in SUBSET Session /\ W2 \in SUBSET Session /\ W2 \subseteq W \cup {s}
  <2>1. W \in SUBSET Session
    BY WorldIsSessions
  <2>2. {rows2[g].session : g \in Writers(rows2)}
           \subseteq {rows[g].session : g \in Writers(rows)} \cup {s}
    BY <1>3 DEF Writers
  <2>3. W2 \subseteq W \cup {s}
    BY <2>2 DEF World
  <2> QED  BY <2>1, <2>3
<1>5. /\ InOrder(A, rows, h)
      /\ Cardinality(live) <= MaxSessions - 1 + Cardinality(A[h]) + n
  BY <1>0, <1>1 DEF Bounded, MakesRoom, Room
<1>6. Cardinality(live2) <= MaxSessions - 1 + (Cardinality(A[h]) + 1) + n
      /\ Cardinality(A[h]) \in Nat /\ Cardinality(live2) \in Nat
  <2>1. Cardinality(live2) <= Cardinality(live) + 1
    BY OneLarger
  <2>2. Cardinality(live2) \in Nat /\ Cardinality(live) \in Nat /\ Cardinality(A[h]) \in Nat
    BY <1>0, SessionsAreFinite, HandlersAreFinite
  <2> QED  BY <1>5, <2>1, <2>2, ConsoleAssumption
<1>7. ASSUME NEW a \in SUBSET Handler, A[h] \cup {h} \subseteq a
      PROVE  Cardinality(live2) <= MaxSessions - 1 + Cardinality(a) + n
  <2>1. h \notin A[h] /\ A[h] \in SUBSET Handler /\ A[h] \cup {h} \in SUBSET a
    BY <1>0, <1>5, <1>7 DEF InOrder
  <2>2. Cardinality(A[h] \cup {h}) = Cardinality(A[h]) + 1
    BY <1>0, <2>1, OneHandlerMore
  <2>3. Cardinality(A[h] \cup {h}) <= Cardinality(a) /\ Cardinality(a) \in Nat
    BY <2>1, MoreHandlers, HandlersAreFinite
  <2> QED  BY <1>6, <2>2, <2>3, ConsoleAssumption
<1>8. Cardinality(live2) <= MaxSessions + Cardinality(all) - 1 + n
  <2>1. A[h] \cup {h} \subseteq all
    BY <1>0
  <2>2. Cardinality(live2) <= MaxSessions - 1 + Cardinality(all) + n /\ Cardinality(all) \in Nat
    BY <1>7, <2>1, HandlersAreFinite
  <2> QED  BY <1>6, <2>2, ConsoleAssumption
<1>9. ASSUME NEW g \in Handler, rows2[g].at \in MakesRoom
      PROVE  InOrder(A2, rows2, g) /\ Room(rows2[g], A2[g], live2, W2, n)
  <2>1. g # h /\ rows2[g] = rows[g]
    BY <1>9 DEF MakesRoom
  <2>2. InOrder(A, rows, g) /\ Room(rows[g], A[g], live, W, n)
    BY <1>1, <1>9, <2>1 DEF Bounded
  <2>3. A[g] \in SUBSET Handler /\ A2[g] = A[g] \cup {h} /\ A2[g] \in SUBSET Handler
    BY <1>0, <1>2
  <2>4. rows2[h].at \notin MakesRoom
    BY DEF MakesRoom
  <2> HIDE DEF A2, W, W2
  <2>5. \A k \in A2[g] : rows2[k].at \in MakesRoom => A2[k] \subseteq A2[g]
    <3> TAKE k \in A2[g]
    <3> HAVE rows2[k].at \in MakesRoom
    <3>1. k # h /\ k \in A[g]
      BY <2>3, <2>4
    <3>2. rows[k].at \in MakesRoom /\ A2[k] = A[k] \cup {h}
      BY <1>2, <2>3, <3>1
    <3> QED  BY <2>2, <2>3, <3>1, <3>2 DEF InOrder
  <2>6. InOrder(A2, rows2, g)
    BY <1>3, <2>1, <2>2, <2>3, <2>5 DEF InOrder
  <2>7. Room(rows[g], A2[g], live2, W2, n)
    <3>1. CASE h \notin A[g]
      <4>1. Room(rows[g], A[g] \cup {h}, live2, W2, n)
        BY <1>0, <1>4, <2>2, <2>3, <3>1, RoomForOneMore
      <4> QED  BY <2>3, <4>1
    <3>2. CASE h \in A[g]
      <4>1. A[h] \cup {h} \subseteq A2[g]
        BY <2>2, <2>3, <3>2 DEF InOrder, MakesRoom
      <4>2. Cardinality(live2) <= MaxSessions - 1 + Cardinality(A2[g]) + n
        BY <1>7, <2>3, <4>1
      <4>3. rows[g].at = "choosing" => rows[g].excess \in Nat \ {0}
        BY <2>2 DEF Room
      <4> QED  BY <2>3, <4>2, <4>3, RoomWhereFew
    <3> QED  BY <3>1, <3>2
  <2> QED  BY <2>1, <2>6, <2>7
<1>10. Accounted(R, ix, live2, rows2) /\ Cardinality(R) <= n
  <2>1. Accounted(R, ix, live, rows) /\ Cardinality(R) <= n
    BY <1>1 DEF Bounded
  <2>2. \A g \in Handler : rows2[g].at \in Misses => g # h
    BY DEF Misses
  <2>3. \A g \in Handler : rows[g].at = "indexing" => g # h
    OBVIOUS
  <2> QED  BY <1>0, <2>1, <2>2, <2>3 DEF Accounted
<1> HIDE DEF A2, W2
<1>11. Bounded(all, A2, R, ix, live2, rows2, n)
  BY <1>8, <1>9, <1>10 DEF Bounded, W2
<1> QED  BY <1>2, <1>11 DEF HasBound

-----------------------------------------------------------------------------
(* The steps of the console are such steps *)

BoundInv ==
    /\ DOMAIN index \subseteq Session /\ strays \in Nat
    /\ \A g \in Handler \ setting.handlers : handler[g].at = "idle"
    /\ HasBound(setting.handlers, DOMAIN index, LiveSessions, handler, strays)

\* A step of one handler that is ordinary.
Usual(h) ==
    /\ DOMAIN index' \subseteq Session /\ strays' \in Nat
    /\ Ordinary(h, DOMAIN index, DOMAIN index', LiveSessions, LiveSessions',
                handler, handler', strays, strays')

\* What is left to show of a step that brings no session back.
LEMMA UsualStep ==
    ASSUME BoundInv, NEW h \in Handler, UNCHANGED strays,
           \A g \in Handler \ {h} : handler'[g] = handler[g],
           LiveSessions' \subseteq LiveSessions, DOMAIN index' \subseteq Session,
           handler'[h].at \notin MakesRoom,
           handler'[h].at \in Writing =>
             \/ handler'[h].session \in LiveSessions'
             \/ handler[h].at \in Writing /\ handler'[h].session = handler[h].session,
           handler'[h].at \in Misses => handler'[h].session \notin LiveSessions',
           handler[h].at = "indexing" => handler[h].session \in DOMAIN index',
           \A s \in DOMAIN index' \ DOMAIN index : handler[h].at \in Writing /\ s = handler[h].session,
           \A s \in DOMAIN index \ DOMAIN index' :
             s \notin LiveSessions' \/ (handler[h].at \in Misses /\ s = handler[h].session)
    PROVE  Usual(h)
<1> DEFINE L == LiveSessions
           L2 == LiveSessions'
           S == (L2 \ L) \cup LeftOut(handler[h], DOMAIN index', L2)
<1>1. S = {} /\ L2 \subseteq L
  BY DEF LeftOut
<1>2. Cardinality(S) = 0 /\ strays \in Nat /\ strays' = strays
  BY <1>1, FS_EmptySet DEF BoundInv
<1>3. Cardinality(S) <= strays' - strays
  BY <1>2
<1> QED  BY <1>1, <1>2, <1>3 DEF Usual, Ordinary

\* Sessions that were drawn are sessions.
LEMMA DrawnAreSessions ==
    ASSUME ConsoleInv, NEW s \in 1..drawn
    PROVE  s \in Session
<1>1. drawn \in 0..MaxDrawn /\ MaxDrawn \in Nat
  BY ConsoleAssumption DEF ConsoleInv
<1>2. s \in 1..MaxDrawn
  BY <1>1
<1> QED  BY <1>2 DEF Session

\* What is live is so by its key.
LEMMA LiveFacts ==
    /\ LiveSessions = {s \in Session : clock < kept[s].exp}
    /\ LiveSessions' = {s \in Session : clock' < kept'[s].exp}
BY DEF LiveSessions, Live

\* A step that leaves the store alone.
LEMMA QuietStep ==
    ASSUME BoundInv, NEW h \in Handler, UNCHANGED <<kept, index, strays, clock>>,
           \A g \in Handler \ {h} : handler'[g] = handler[g],
           handler[h].at # "indexing", handler'[h].at \notin MakesRoom,
           handler'[h].at \in Writing => handler'[h].session \in LiveSessions,
           handler'[h].at \in Misses => handler'[h].session \notin LiveSessions
    PROVE  Usual(h)
<1>1. LiveSessions' = LiveSessions /\ DOMAIN index \subseteq Session
  BY LiveFacts DEF BoundInv
<1> QED  BY <1>1, UsualStep

\* Looking a session up.
LEMMA LookUsual ==
    ASSUME ConsoleInv, BoundInv, NEW h \in Handler, UNCHANGED clock,
           \/ GetKey(h, "confirming", "touching new", "missing")
           \/ GetKey(h, "replacing", "retouching", "lost")
           \/ GetKey(h, "leaving", "touching last", "gone")
           \/ GetPair(h, "getting", "touching", "gone")
    PROVE  Usual(h)
<1>1. UNCHANGED <<kept, index, strays>>
      /\ handler[h].at \in {"confirming", "replacing", "leaving", "getting"}
  BY DEF GetKey, GetPair, storeVars
<1>2. /\ \A g \in Handler \ {h} : handler'[g] = handler[g]
      /\ handler'[h].session = handler[h].session
      /\ \/ /\ Live(handler[h].session)
            /\ handler'[h].at \in {"touching new", "retouching", "touching last", "touching"}
         \/ ~Live(handler[h].session) /\ handler'[h].at \in {"missing", "lost", "gone"}
  <2>1. CASE GetPair(h, "getting", "touching", "gone")
    <3>1. DOMAIN handler = Handler /\ DOMAIN handler[h] = Fields
      BY DEF ConsoleInv
    <3>2. CASE Live(handler[h].session)
      <4>1. handler' = [handler EXCEPT ![h] = [@ EXCEPT !.at = "touching",
                                                    !.pair = kept[handler[h].session].pair]]
        BY <2>1, <3>2 DEF GetPair
      <4> QED  BY <3>1, <3>2, <4>1 DEF Fields
    <3>3. CASE ~Live(handler[h].session)
      <4>1. handler' = [handler EXCEPT ![h] = [@ EXCEPT !.at = "gone"]]
        BY <2>1, <3>3 DEF GetPair
      <4> QED  BY <3>1, <3>3, <4>1 DEF Fields
    <3> QED  BY <3>2, <3>3
  <2>2. ASSUME NEW from, NEW next \in {"touching new", "retouching", "touching last"},
               NEW none \in {"missing", "lost", "gone"}, GetKey(h, from, next, none)
        PROVE  /\ \A g \in Handler \ {h} : handler'[g] = handler[g]
               /\ handler'[h].session = handler[h].session
               /\ \/ Live(handler[h].session) /\ handler'[h].at = next
                  \/ ~Live(handler[h].session) /\ handler'[h].at = none
    <3>1. CASE Live(handler[h].session)
      <4>1. Goes(h, next) /\ next # "idle"
        BY <2>2, <3>1 DEF GetKey
      <4> QED  BY <3>1, <4>1, GoesOn
    <3>2. CASE ~Live(handler[h].session)
      <4>1. Goes(h, none) /\ none # "idle"
        BY <2>2, <3>2 DEF GetKey
      <4> QED  BY <3>2, <4>1, GoesOn
    <3> QED  BY <3>1, <3>2
  <2> QED  BY <2>1, <2>2
<1>3. handler[h].session \in Session
  <2>1. handler[h].session \in 1..drawn /\ drawn \in 0..MaxDrawn
    BY <1>1 DEF ConsoleInv, Early
  <2> QED  BY <2>1, DrawnAreSessions
<1>4. handler[h].session \in LiveSessions <=> Live(handler[h].session)
  BY <1>3 DEF LiveSessions
<1>5. /\ handler[h].at # "indexing" /\ handler'[h].at \notin MakesRoom
      /\ handler'[h].at \in Writing => handler'[h].session \in LiveSessions
      /\ handler'[h].at \in Misses => handler'[h].session \notin LiveSessions
  BY <1>1, <1>2, <1>4 DEF MakesRoom, Writing, Misses
<1> QED  BY <1>1, <1>2, <1>5, QuietStep

\* Prolonging a session: who finds it gone writes it to the index all the same.
LEMMA TouchUsual ==
    ASSUME ConsoleInv, BoundInv, NEW h \in Handler, UNCHANGED clock,
           \/ Touch(h, "touching new", "opening") \/ Touch(h, "touching", "calling")
           \/ Touch(h, "retouching", "saving") \/ Touch(h, "touching last", "deleting")
    PROVE  Usual(h)
<1>1. PICK next \in {"opening", "calling", "saving", "deleting"} : Goes(h, next)
  BY DEF Touch
<1>2. /\ handler[h].at \in {"touching new", "touching", "retouching", "touching last"}
      /\ UNCHANGED strays
      /\ kept' = IF Live(handler[h].session)
                 THEN [kept EXCEPT ![handler[h].session].exp = clock + SessionTtl] ELSE kept
      /\ Index(handler[h].session, clock)
  BY DEF Touch
<1>3. /\ \A g \in Handler \ {h} : handler'[g] = handler[g]
      /\ handler'[h].at = next /\ handler'[h].session = handler[h].session
  BY <1>1, GoesOn
<1>4. handler[h].session \in Session /\ DOMAIN kept = Session
      /\ \A t \in Session : DOMAIN kept[t] = {"pair", "exp"}
  <2>1. handler[h].session \in 1..drawn /\ drawn \in 0..MaxDrawn /\ DOMAIN kept = Session
        /\ \A t \in Session : DOMAIN kept[t] = {"pair", "exp"}
    BY <1>2 DEF ConsoleInv, Early
  <2> QED  BY <2>1, DrawnAreSessions
<1>5. DOMAIN index' = DOMAIN index \cup {handler[h].session}
  BY <1>2 DEF Index
<1>6. LiveSessions' \subseteq LiveSessions
  <2>1. \A t \in Session : t # handler[h].session => kept'[t] = kept[t]
    BY <1>2, <1>4
  <2>2. ~Live(handler[h].session) => kept' = kept
    BY <1>2
  <2> QED  BY <2>1, <2>2, LiveFacts DEF Live
<1>7. DOMAIN index \subseteq Session
  BY DEF BoundInv
<1>8. /\ handler'[h].at \notin MakesRoom /\ handler'[h].at \notin Misses
      /\ handler[h].at \in Writing
  BY <1>2, <1>3 DEF MakesRoom, Writing, Misses
<1> QED  BY <1>2, <1>3, <1>4, <1>5, <1>6, <1>7, <1>8, UsualStep

\* Taking a session that was not found out of the index.
LEMMA UnindexUsual ==
    ASSUME ConsoleInv, BoundInv, NEW h \in Handler, UNCHANGED clock,
           \/ Unindex(h, "missing", "dropping") \/ Unindex(h, "gone", "idle")
           \/ Unindex(h, "lost", "calling again")
    PROVE  Usual(h)
<1>1. PICK next \in {"dropping", "idle", "calling again"} : Goes(h, next)
  BY DEF Unindex
<1>2. /\ handler[h].at \in {"missing", "gone", "lost"} /\ UNCHANGED <<kept, strays>>
      /\ DOMAIN index' = DOMAIN index \ {handler[h].session}
  BY DEF Unindex
<1>3. (\A g \in Handler \ {h} : handler'[g] = handler[g]) /\ handler'[h].at = next
  BY <1>1, GoesOn
<1>4. LiveSessions' = LiveSessions /\ DOMAIN index \subseteq Session
  BY <1>2, LiveFacts DEF BoundInv
<1>5. /\ handler'[h].at \notin MakesRoom \cup Misses \cup Writing
      /\ handler[h].at # "indexing" /\ handler[h].at \in Misses
  BY <1>2, <1>3 DEF MakesRoom, Misses, Writing
<1> QED  BY <1>2, <1>3, <1>4, <1>5, UsualStep

\* Removing sessions with their keys leaves none of them live.
LEMMA RemoveFacts ==
    ASSUME ConsoleInv, UNCHANGED clock, NEW ss, Remove(ss)
    PROVE  /\ DOMAIN index' = DOMAIN index \ ss
           /\ LiveSessions' \subseteq LiveSessions \ ss
<1>1. DOMAIN index' = DOMAIN index \ ss
  BY DEF Remove
<1>2. clock \in Nat /\ \A s \in Session : kept'[s] = IF s \in ss THEN NoSession ELSE kept[s]
  BY RemoveEffect DEF ConsoleInv
<1>3. \A s \in Session : s \in ss => ~(clock' < kept'[s].exp)
  BY <1>2 DEF NoSession
<1>4. \A s \in Session : s \notin ss => kept'[s] = kept[s]
  BY <1>2
<1> QED  BY <1>1, <1>3, <1>4, LiveFacts

\* Deleting a session, at the end of a handler or for a logout; and pruning.
LEMMA DeleteUsual ==
    ASSUME ConsoleInv, BoundInv, NEW h \in Handler, UNCHANGED clock,
           Drop(h) \/ Close(h) \/ RemovePicked(h, "pruning", "counting")
    PROVE  Usual(h)
<1>1. PICK ss : Remove(ss)
  BY DEF Drop, Close, RemovePicked
<1>2. handler[h].at \in {"dropping", "deleting", "pruning"} /\ UNCHANGED strays
  BY DEF Drop, Close, RemovePicked
<1>3. /\ \A g \in Handler \ {h} : handler'[g] = handler[g]
      /\ handler'[h].at \in {"idle", "counting"}
  <2>1. CASE Drop(h) \/ Close(h)
    <3>1. Goes(h, "idle")
      BY <2>1 DEF Drop, Close, Ends
    <3> QED  BY <3>1, GoesOn
  <2>2. CASE RemovePicked(h, "pruning", "counting")
    <3>1. DOMAIN handler = Handler /\ DOMAIN handler[h] = Fields
      BY DEF ConsoleInv
    <3>2. handler' = [handler EXCEPT ![h] = [@ EXCEPT !.at = "counting", !.picked = {}]]
      BY <2>2 DEF RemovePicked
    <3> QED  BY <3>1, <3>2 DEF Fields
  <2> QED  BY <2>1, <2>2
<1>4. DOMAIN index' = DOMAIN index \ ss /\ LiveSessions' \subseteq LiveSessions \ ss
  BY <1>1, RemoveFacts
<1>5. DOMAIN index \subseteq Session
  BY DEF BoundInv
<1>6. handler'[h].at \notin MakesRoom \cup Misses \cup Writing /\ handler[h].at # "indexing"
  BY <1>2, <1>3 DEF MakesRoom, Misses, Writing
<1> QED  BY <1>2, <1>3, <1>4, <1>5, <1>6, UsualStep

\* Adding a session to the index.
LEMMA AddUsual ==
    ASSUME ConsoleInv, BoundInv, NEW h \in Handler, UNCHANGED clock, AddNew(h) \/ AddAgain(h)
    PROVE  Usual(h)
<1>1. PICK next \in {"calling me", "calling again"} : Goes(h, next)
  BY DEF AddNew, AddAgain
<1>2. /\ handler[h].at \in {"indexing", "reindexing"} /\ UNCHANGED <<kept, strays>>
      /\ DOMAIN index' = DOMAIN index \cup {handler[h].session}
  BY DEF AddNew, AddAgain, Index
<1>3. (\A g \in Handler \ {h} : handler'[g] = handler[g]) /\ handler'[h].at = next
  BY <1>1, GoesOn
<1>4. LiveSessions' = LiveSessions /\ DOMAIN index \subseteq Session
  BY <1>2, LiveFacts DEF BoundInv
<1>5. handler[h].session \in Session
  <2>1. handler[h].session \in 1..drawn
    BY <1>2 DEF ConsoleInv, Early
  <2> QED  BY <2>1, DrawnAreSessions
<1>6. handler'[h].at \notin MakesRoom \cup Misses \cup Writing /\ handler[h].at \in Writing
  BY <1>2, <1>3 DEF MakesRoom, Misses, Writing
<1> QED  BY <1>2, <1>3, <1>4, <1>5, <1>6, UsualStep

\* Setting a session again: if it was gone, it counts as strayed.
LEMMA SetPairUsual ==
    ASSUME ConsoleInv, BoundInv, NEW h \in Handler, UNCHANGED clock, SetPair(h)
    PROVE  Usual(h)
<1> DEFINE s == handler[h].session
           L == LiveSessions
           L2 == LiveSessions'
<1>1. /\ handler[h].at = "saving" /\ GoesWith(h, "reindexing", clock) /\ UNCHANGED index
      /\ strays' = IF Live(s) THEN strays ELSE strays + 1
      /\ kept' = [kept EXCEPT ![s] = [pair |-> handler[h].pair, exp |-> clock + SessionTtl]]
  BY DEF SetPair, Keep
<1>2. /\ \A g \in Handler \ {h} : handler'[g] = handler[g]
      /\ handler'[h].at = "reindexing" /\ handler'[h].session = s
  BY <1>1, GoesOn
<1>3. s \in Session /\ DOMAIN kept = Session
  <2>1. s \in 1..drawn /\ DOMAIN kept = Session
    BY <1>1 DEF ConsoleInv, Early
  <2> QED  BY <2>1, DrawnAreSessions
<1>4. strays \in Nat /\ DOMAIN index \subseteq Session
  BY DEF BoundInv
<1>5. \A t \in Session : t # s => kept'[t] = kept[t]
  BY <1>1, <1>3
<1>6. L2 \ L \subseteq {s} /\ (Live(s) => L2 \subseteq L)
  BY <1>3, <1>5, LiveFacts DEF Live
<1>7. Cardinality(L2 \ L) <= strays' - strays /\ strays' \in Nat
  <2>1. CASE Live(s)
    <3>1. L2 \ L = {}
      BY <1>6, <2>1
    <3>2. Cardinality(L2 \ L) = 0
      BY <3>1, FS_EmptySet
    <3> QED  BY <1>1, <1>4, <2>1, <3>2
  <2>2. CASE ~Live(s)
    <3>1. L2 \ L \in SUBSET {s} /\ IsFiniteSet({s}) /\ Cardinality({s}) = 1
      BY <1>6, FS_Singleton
    <3>2. Cardinality(L2 \ L) <= 1 /\ L2 \ L \in SUBSET Session
      BY <1>3, <3>1, FS_Subset
    <3>3. Cardinality(L2 \ L) \in Nat
      BY <3>2, SessionsAreFinite
    <3>4. strays' = strays + 1
      BY <1>1, <2>2
    <3> HIDE DEF L, L2
    <3> QED  BY <1>4, <3>2, <3>3, <3>4
  <2> QED  BY <2>1, <2>2
<1>8. /\ handler'[h].at \notin MakesRoom \cup Misses /\ handler'[h].at # "idle"
      /\ handler[h].at \in Writing /\ handler[h].at # "indexing"
      /\ DOMAIN index' = DOMAIN index
  BY <1>1, <1>2 DEF MakesRoom, Misses, Writing
<1>9. (L2 \ L) \cup LeftOut(handler[h], DOMAIN index', L2) = L2 \ L
  BY <1>8 DEF LeftOut
<1> QED  BY <1>2, <1>4, <1>6, <1>7, <1>8, <1>9 DEF Usual, Ordinary

\* Ending: who had set its session and not yet indexed it leaves it out.
LEMMA DiesUsual ==
    ASSUME ConsoleInv, BoundInv, NEW h \in Handler, UNCHANGED clock, Dies(h)
    PROVE  Usual(h)
<1> DEFINE L == LiveSessions
           L2 == LiveSessions'
           left == LeftOut(handler[h], DOMAIN index', L2)
<1>1. /\ Goes(h, "idle") /\ UNCHANGED <<kept, index>>
      /\ strays' = IF handler[h].at = "indexing" THEN strays + 1 ELSE strays
  BY DEF Dies, Ends
<1>2. (\A g \in Handler \ {h} : handler'[g] = handler[g]) /\ handler'[h].at = "idle"
  BY <1>1, GoesOn
<1>3. strays \in Nat /\ DOMAIN index \subseteq Session /\ L2 = L /\ L \in SUBSET Session
  BY <1>1, LiveFacts DEF BoundInv
<1>4. Cardinality(left) <= strays' - strays /\ strays' \in Nat
  <2>1. CASE handler[h].at = "indexing"
    <3>1. left \in SUBSET {handler[h].session} /\ left \in SUBSET Session
      BY <1>3 DEF LeftOut
    <3> HIDE DEF left
    <3>2. IsFiniteSet({handler[h].session}) /\ Cardinality({handler[h].session}) = 1
      BY FS_Singleton
    <3>3. Cardinality(left) <= 1 /\ Cardinality(left) \in Nat
      BY <3>1, <3>2, FS_Subset, SessionsAreFinite
    <3>4. strays' = strays + 1
      BY <1>1, <2>1
    <3> QED  BY <1>3, <3>3, <3>4
  <2>2. CASE handler[h].at # "indexing"
    <3>1. left = {}
      BY <2>2 DEF LeftOut
    <3>2. Cardinality(left) = 0
      BY <3>1, FS_EmptySet
    <3> QED  BY <1>1, <1>3, <2>2, <3>2
  <2> QED  BY <2>1, <2>2
<1>5. (L2 \ L) \cup left = left /\ L2 \ L = {} /\ DOMAIN index' = DOMAIN index
  BY <1>1, <1>3
<1>6. handler'[h].at \notin MakesRoom \cup Misses \cup Writing
  BY <1>2 DEF MakesRoom, Misses, Writing
<1> HIDE DEF L, L2
<1> QED  BY <1>2, <1>3, <1>4, <1>5, <1>6 DEF Usual, Ordinary, L, L2

\* The steps that do nothing to the store.
LEMMA OtherUsual ==
    ASSUME ConsoleInv, BoundInv, NEW h \in Handler, UNCHANGED clock,
           \/ PickExpired(h)
           \/ Call(h, "calling me", "loading", Me)
           \/ Hear(h, "loading", "confirming", "dropping", "dropping")
           \/ Call(h, "calling", "waiting", handler[h].path)
           \/ Hear(h, "waiting", "idle", "refreshing", "idle")
           \/ Refresh(h)
           \/ Call(h, "calling again", "waiting again", handler[h].path)
           \/ Hear(h, "waiting again", "idle", "dropping", "idle")
           \/ Open(h)
           \/ \E u : Login(h, u)
           \/ SignedIn(h)
           \/ \E s, path : Logout(h, s) \/ Request(h, s, path)
    PROVE  Usual(h)
<1> DEFINE Next2 == {"idle", "counting", "pruning", "loading", "waiting", "waiting again",
                     "confirming", "dropping", "refreshing", "replacing", "signing", "evicting",
                     "getting", "leaving"}
<1>0. DOMAIN handler = Handler /\ DOMAIN handler[h] = Fields
  BY DEF ConsoleInv
<1>1. UNCHANGED <<kept, index, strays>> /\ handler[h].at # "indexing"
  BY DEF PickExpired, Call, Hear, Refresh, Open, Login, SignedIn, Logout, Request, Starts, storeVars
<1>2. (\A g \in Handler \ {h} : handler'[g] = handler[g]) /\ handler'[h].at \in Next2
  <2>1. CASE \E next \in Next2 : Goes(h, next)
    BY <2>1, GoesOn
  <2>2. CASE PickExpired(h)
    <3> DEFINE picks == {t \in DOMAIN index : index[t] <= clock - SessionTtl}
               goes == IF picks = {} THEN "counting" ELSE "pruning"
    <3>1. handler' = [handler EXCEPT ![h] = [@ EXCEPT !.at = goes, !.picked = picks, !.now = clock]]
      BY <2>2 DEF PickExpired
    <3>2. goes \in {"counting", "pruning"}
      OBVIOUS
    <3> HIDE DEF goes, picks
    <3> QED  BY <1>0, <3>1, <3>2 DEF Fields
  <2>3. CASE Refresh(h)
    <3>1. \/ handler' = [handler EXCEPT ![h] = [@ EXCEPT !.at = "replacing",
                                                 !.pair = Pair(handler[h].pair.refresh.sub)]]
          \/ handler' = [handler EXCEPT ![h] = [@ EXCEPT !.at = "dropping"]]
      BY <2>3 DEF Refresh
    <3> QED  BY <1>0, <3>1 DEF Fields
  <2>4. ASSUME NEW u, Login(h, u)
        PROVE  (\A g \in Handler \ {h} : handler'[g] = handler[g]) /\ handler'[h].at \in Next2
    <3>1. \/ handler' = [handler EXCEPT ![h] = [Idle EXCEPT !.at = "signing", !.signin = RowRead(u)]]
          \/ handler' = [handler EXCEPT ![h] = Idle]
      BY <2>4 DEF Login
    <3>2. CASE handler' = [handler EXCEPT ![h] = Idle]
      BY <1>0, <3>2 DEF Idle
    <3>3. CASE handler' = [handler EXCEPT ![h] = [Idle EXCEPT !.at = "signing", !.signin = RowRead(u)]]
      BY <1>0, <3>3 DEF Idle
    <3> QED  BY <3>1, <3>2, <3>3
  <2>7. CASE SignedIn(h)
    <3> DEFINE u == handler[h].signin.user
    <3>1. \/ handler' = [handler EXCEPT ![h] = [Idle EXCEPT !.at = "evicting", !.pair = Pair(u)]]
          \/ handler' = [handler EXCEPT ![h] = Idle]
      BY <2>7 DEF SignedIn
    <3> HIDE DEF u
    <3>2. CASE handler' = [handler EXCEPT ![h] = Idle]
      BY <1>0, <3>2 DEF Idle
    <3>3. CASE handler' = [handler EXCEPT ![h] = [Idle EXCEPT !.at = "evicting", !.pair = Pair(u)]]
      BY <1>0, <3>3 DEF Idle
    <3> QED  BY <3>1, <3>2, <3>3
  <2>5. ASSUME NEW s, NEW path, Logout(h, s) \/ Request(h, s, path)
        PROVE  (\A g \in Handler \ {h} : handler'[g] = handler[g]) /\ handler'[h].at \in Next2
    <3>1. CASE Logout(h, s)
      <4>1. handler' = [handler EXCEPT ![h] = [Idle EXCEPT !.at = "leaving", !.session = s, !.path = <<>>]]
        BY <3>1 DEF Logout, Starts
      <4> QED  BY <1>0, <4>1 DEF Idle
    <3>2. CASE Request(h, s, path)
      <4>1. handler' = [handler EXCEPT ![h] = [Idle EXCEPT !.at = "getting", !.session = s, !.path = path]]
        BY <3>2 DEF Request, Starts
      <4> QED  BY <1>0, <4>1 DEF Idle
    <3> QED  BY <2>5, <3>1, <3>2
  <2>6. \/ \E next \in Next2 : Goes(h, next)
        \/ PickExpired(h) \/ Refresh(h) \/ SignedIn(h)
        \/ \E u : Login(h, u)
        \/ \E s, path : Logout(h, s) \/ Request(h, s, path)
    BY DEF Call, Hear, Open, Ends
  <2> QED  BY <2>1, <2>2, <2>3, <2>4, <2>5, <2>6, <2>7
<1>3. handler'[h].at \notin MakesRoom \cup Misses \cup Writing
  BY <1>2 DEF MakesRoom, Misses, Writing
<1> QED  BY <1>1, <1>2, <1>3, QuietStep

\* A step is an ordinary one or one of a login that makes room.
LEMMA StepKinds ==
    ASSUME ConsoleInv, BoundInv, NEW h \in Handler, BrowserStep(h)
    PROVE  \/ Usual(h)
           \/ /\ Count(h) \/ PickOldest(h) \/ RemovePicked(h, "removing", "creating") \/ SetNew(h)
              /\ UNCHANGED clock
<1>1. UNCHANGED clock
  BY DEF BrowserStep, identityVars
<1>2. CASE ConsoleStep(h)
  <2>1. CASE StoreStep(h)
    BY <1>1, <2>1, LookUsual, TouchUsual, UnindexUsual, DeleteUsual, AddUsual, SetPairUsual,
       OtherUsual DEF StoreStep
  <2>2. CASE Close(h)
    BY <1>1, <2>2, DeleteUsual
  <2>3. CASE Dies(h)
    BY <1>1, <2>3, DiesUsual
  <2> QED  BY <1>1, <1>2, <2>1, <2>2, <2>3, OtherUsual DEF ConsoleStep
<1> QED  BY <1>1, <1>2, OtherUsual DEF BrowserStep

\* What the bound needs to know of the handlers and the sessions.
LEMMA HandlerFacts ==
    ASSUME ConsoleInv, BoundInv
    PROVE  /\ setting.handlers \in SUBSET Handler /\ HaveSessions(handler)
           /\ Writers(handler) \subseteq setting.handlers
           /\ LiveSessions \in SUBSET Session /\ DOMAIN index \in SUBSET Session
           /\ strays \in Nat
<1>1. setting.handlers \in SUBSET Handler
  BY SettingsAssumption DEF ConsoleInv
<1>2. HaveSessions(handler)
  <2> SUFFICES ASSUME NEW g \in Handler, handler[g].at \in Writing
               PROVE  handler[g].session \in Session
    BY DEF HaveSessions
  <2>1. handler[g].session \in 1..drawn
    BY DEF ConsoleInv, Writing, Early
  <2> QED  BY <2>1, DrawnAreSessions
<1>3. Writers(handler) \subseteq setting.handlers
  BY DEF Writers, Writing, BoundInv
<1> QED  BY <1>1, <1>2, <1>3 DEF BoundInv, LiveSessions

\* A handler's step keeps the bound.
LEMMA BrowserKeepsBound ==
    ASSUME ConsoleInv, BoundInv, NEW h \in setting.handlers, BrowserStep(h)
    PROVE  BoundInv'
<1> DEFINE all == setting.handlers
           ix == DOMAIN index
           live == LiveSessions
           ix2 == DOMAIN index'
           live2 == LiveSessions'
           n == strays
           n2 == strays'
<1>1. all \in SUBSET Handler /\ h \in Handler /\ HaveSessions(handler) /\ Writers(handler) \subseteq all
      /\ live \in SUBSET Session /\ ix \in SUBSET Session /\ n \in Nat
  BY HandlerFacts
<1>2. Effect(h) /\ UNCHANGED <<setting, clock>>
  BY <1>1, BrowserEffect DEF identityVars
<1>4. \A g \in Handler \ {h} : handler'[g] = handler[g]
  BY <1>2 DEF Effect
<1>5. \A g \in Handler \ setting'.handlers : handler'[g].at = "idle"
  BY <1>1, <1>2, <1>4 DEF BoundInv
<1>6. live2 \in SUBSET Session
  BY LiveFacts
<1>7. HasBound(all, ix, live, handler, n)
  BY DEF BoundInv
<1>8. ASSUME ix2 \in SUBSET Session, n2 \in Nat, HasBound(all, ix2, live2, handler', n2)
      PROVE  BoundInv'
  BY <1>2, <1>5, <1>8 DEF BoundInv
<1>9. CASE Usual(h)
  <2>1. ix2 \in SUBSET Session /\ n2 \in Nat
        /\ Ordinary(h, ix, ix2, live, live2, handler, handler', n, n2)
    BY <1>9 DEF Usual
  <2>2. Writers(handler') \subseteq all
    BY <1>2, <1>5 DEF Writers, Writing
  <2> HIDE DEF all, ix, live, ix2, live2, n, n2
  <2>3. HasBound(all, ix2, live2, handler', n2)
    BY <1>1, <1>6, <1>7, <2>1, <2>2, OrdinaryKeepsBound
  <2> QED  BY <1>8, <2>1, <2>3
<1>10. DOMAIN handler = Handler /\ DOMAIN handler[h] = Fields
  BY <1>1 DEF ConsoleInv
<1>11. CASE Count(h) /\ UNCHANGED clock
  <2>1. UNCHANGED <<kept, index, strays>> /\ handler[h].at = "counting"
        /\ handler' = [handler EXCEPT ![h] =
             IF Excess > 0 THEN [@ EXCEPT !.at = "choosing", !.excess = Excess]
             ELSE [@ EXCEPT !.at = "creating"]]
    BY <1>11 DEF Count, storeVars
  <2>2. ix2 = ix /\ live2 = live /\ n2 = n /\ Excess = Cardinality(ix) - MaxSessions + 1
    BY <1>11, <2>1, LiveFacts DEF Excess
  <2>3. \/ handler'[h].at = "choosing" /\ handler'[h].excess = Excess /\ Excess > 0
        \/ handler'[h].at = "creating" /\ ~(Excess > 0)
    <3>1. CASE Excess > 0
      <4>1. handler' = [handler EXCEPT ![h] = [@ EXCEPT !.at = "choosing", !.excess = Excess]]
        BY <2>1, <3>1
      <4> QED  BY <1>1, <1>10, <3>1, <4>1 DEF Fields
    <3>2. CASE ~(Excess > 0)
      <4>1. handler' = [handler EXCEPT ![h] = [@ EXCEPT !.at = "creating"]]
        BY <2>1, <3>2
      <4> QED  BY <1>1, <1>10, <3>2, <4>1 DEF Fields
    <3> QED  BY <3>1, <3>2
  <2>4. \/ /\ handler'[h].at = "choosing"
           /\ handler'[h].excess = Cardinality(ix) - MaxSessions + 1 /\ handler'[h].excess > 0
        \/ handler'[h].at = "creating" /\ ~(Cardinality(ix) - MaxSessions + 1 > 0)
    BY <2>2, <2>3
  <2>5. handler[h].at = "counting"
    BY <2>1
  <2> HIDE DEF all, ix, live, ix2, live2, n, n2
  <2>6. HasBound(all, ix, live, handler', n)
    BY <1>1, <1>4, <1>7, <2>4, <2>5, CountKeepsBound
  <2> QED  BY <1>1, <1>8, <2>2, <2>6
<1>12. CASE PickOldest(h) /\ UNCHANGED clock
  <2>1. UNCHANGED <<kept, index, strays>> /\ handler[h].at = "choosing"
    BY <1>12 DEF PickOldest, storeVars
  <2>2. PICK ss \in SUBSET ix :
          /\ Cardinality(ss) = Lesser(handler[h].excess, Cardinality(ix))
          /\ handler' = [handler EXCEPT ![h] =
               [@ EXCEPT !.at = "removing", !.picked = ss, !.excess = 0]]
    BY <1>12 DEF PickOldest
  <2>3. ix2 = ix /\ live2 = live /\ n2 = n
    BY <1>12, <2>1, LiveFacts
  <2>4. handler'[h].at = "removing" /\ handler'[h].picked = ss
    BY <1>1, <1>10, <2>2 DEF Fields
  <2> HIDE DEF all, ix, live, ix2, live2, n, n2
  <2>5. HasBound(all, ix, live, handler', n)
    BY <1>1, <1>4, <1>7, <2>1, <2>2, <2>4, PickKeepsBound
  <2> QED  BY <1>1, <1>8, <2>3, <2>5
<1>13. CASE RemovePicked(h, "removing", "creating") /\ UNCHANGED clock
  <2>1. UNCHANGED strays /\ handler[h].at = "removing" /\ Remove(handler[h].picked)
        /\ handler' = [handler EXCEPT ![h] = [@ EXCEPT !.at = "creating", !.picked = {}]]
    BY <1>13 DEF RemovePicked
  <2>2. ix2 = ix \ handler[h].picked /\ live2 \in SUBSET (live \ handler[h].picked) /\ n2 = n
    BY <1>13, <2>1, RemoveFacts
  <2>3. handler'[h].at = "creating"
    BY <1>1, <1>10, <2>1 DEF Fields
  <2> HIDE DEF all, ix, live, ix2, live2, n, n2
  <2>4. HasBound(all, ix \ handler[h].picked, live2, handler', n)
    BY <1>1, <1>4, <1>7, <2>1, <2>2, <2>3, RemoveKeepsBound
  <2> QED  BY <1>1, <1>8, <2>2, <2>4
<1>14. CASE SetNew(h) /\ UNCHANGED clock
  <2> DEFINE s == drawn + 1
  <2>1. /\ handler[h].at = "creating" /\ drawn < setting.draws
        /\ kept' = [kept EXCEPT ![s] = [pair |-> handler[h].pair, exp |-> clock + SessionTtl]]
        /\ handler' = [handler EXCEPT ![h] = [@ EXCEPT !.at = "indexing", !.session = s]]
        /\ UNCHANGED <<index, strays>>
    BY <1>14 DEF SetNew, Keep
  <2>2. s \in Session /\ s \notin 1..drawn /\ DOMAIN kept = Session
    <3>1. drawn \in 0..MaxDrawn /\ setting.draws \in 0..MaxDrawn /\ DOMAIN kept = Session
      BY SettingsAssumption DEF ConsoleInv
    <3> QED  BY <2>1, <3>1, ConsoleAssumption DEF Session
  <2>3. ix2 = ix /\ n2 = n /\ live2 \subseteq live \cup {s}
    <3>1. \A t \in Session : t # s => kept'[t] = kept[t]
      BY <2>1, <2>2
    <3> QED  BY <1>14, <2>1, <3>1, LiveFacts
  <2>4. handler'[h].at = "indexing" /\ handler'[h].session = s
    BY <1>1, <1>10, <2>1 DEF Fields
  <2>5. \A g \in Handler : handler[g].at \in Misses => handler[g].session # s
    BY <2>2 DEF ConsoleInv, Misses, Early
  <2>6. h \in all
    OBVIOUS
  <2> HIDE DEF all, ix, live, ix2, live2, n, n2, s
  <2>7. handler[h].at = "creating" /\ s \in Session /\ live2 \subseteq live \cup {s}
    BY <2>1, <2>2, <2>3
  <2>8. HasBound(all, ix, live2, handler', n)
    BY <1>1, <1>4, <1>6, <1>7, <2>4, <2>5, <2>6, <2>7, NewSessionKeepsBound
  <2> QED  BY <1>1, <1>8, <2>3, <2>8
<1> QED  BY <1>1, <1>9, <1>11, <1>12, <1>13, <1>14, StepKinds

\* The bound holds at first and stays.
LEMMA BoundInitially == Init => BoundInv
<1> SUFFICES ASSUME Init  PROVE BoundInv
  OBVIOUS
<1>1. /\ clock = 0 /\ kept = [s \in Session |-> NoSession] /\ strays = 0
      /\ handler = [h \in Handler |-> Idle] /\ index = [s \in {} |-> 0]
      /\ setting \in Settings
  BY DEF Init, IdentityInit, ConsoleInit
<1>2. LiveSessions = {} /\ DOMAIN index = {} /\ \A g \in Handler : handler[g].at = "idle"
  BY <1>1, LiveFacts DEF NoSession, Idle
<1> DEFINE all == setting.handlers
           A == [g \in Handler |-> {}]
<1>3. Cardinality({}) = 0 /\ all \in SUBSET Handler /\ Cardinality(all) \in Nat
  BY <1>1, FS_EmptySet, SettingsAssumption, HandlersAreFinite
<1>4. Bounded(all, A, {}, {}, {}, handler, 0)
  <2>1. Accounted({}, {}, {}, handler)
    BY <1>2 DEF Accounted, Misses
  <2>2. \A g \in Handler : handler[g].at \notin MakesRoom
    BY <1>2 DEF MakesRoom
  <2>3. Cardinality({}) <= MaxSessions + Cardinality(all) - 1 + 0
    BY <1>3, ConsoleAssumption
  <2>4. Cardinality({}) <= 0
    BY <1>3
  <2> QED  BY <2>1, <2>2, <2>3, <2>4 DEF Bounded
<1>5. A \in [Handler -> SUBSET all] /\ {} \in SUBSET Session
  OBVIOUS
<1> HIDE DEF A, all
<1>6. HasBound(all, {}, {}, handler, 0)
  BY <1>4, <1>5 DEF HasBound
<1> QED  BY <1>1, <1>2, <1>6 DEF BoundInv, all

\* Every step keeps the bound.
LEMMA BoundPreserved == ConsoleInv /\ BoundInv /\ [Next]_vars => BoundInv'
<1> SUFFICES ASSUME ConsoleInv, BoundInv, [Next]_vars  PROVE BoundInv'
  OBVIOUS
<1>1. CASE \E h \in setting.handlers : BrowserStep(h)
  BY <1>1, BrowserKeepsBound
<1>2. CASE ~(\E h \in setting.handlers : BrowserStep(h))
  <2>1. UNCHANGED <<setting, kept, index, strays, handler>> /\ clock' \in Nat /\ clock' >= clock
    BY <1>2, OthersLeaveConsole DEF consoleVars
  <2>2. LiveSessions' \in SUBSET LiveSessions
    <3>1. clock \in Nat /\ \A s \in Session : kept[s].exp \in Nat
      BY DEF ConsoleInv
    <3> QED  BY <2>1, <3>1, LiveFacts
  <2>3. HasBound(setting.handlers, DOMAIN index, LiveSessions, handler, strays)
    BY DEF BoundInv
  <2> DEFINE all == setting.handlers
             ix == DOMAIN index
             live == LiveSessions
             live2 == LiveSessions'
  <2>4. all \in SUBSET Handler /\ HaveSessions(handler) /\ live \in SUBSET Session
        /\ ix \in SUBSET Session /\ strays \in Nat
    BY HandlerFacts
  <2>5. live2 \in SUBSET live /\ HasBound(all, ix, live, handler, strays)
    BY <2>2, <2>3
  <2>6. HasBound(all, ix, live2, handler, strays)
    <3> HIDE DEF all, ix, live, live2
    <3> QED  BY <2>4, <2>5, TimeKeepsBound
  <2> QED  BY <2>1, <2>6 DEF BoundInv
<1> QED  BY <1>1, <1>2

\* However logins, refreshes and logouts of several handlers interleave, and wherever they
\* end, there are no more live sessions than max_sessions, one for each other handler, one
\* for each time a removed session was set again and one for each login that ended between
\* setting its session and indexing it (_evict, create, replace_tokens).
THEOREM SessionsAreBounded == Spec => []SessionsBounded
<1>1. Spec => [](ConsoleInv /\ ClosedInv)
  BY ConsoleInitially, ConsolePreserved, PTL DEF Spec
<1>2. Spec => [](ConsoleInv /\ BoundInv)
  BY <1>1, BoundInitially, BoundPreserved, PTL DEF Spec
<1>3. BoundInv => SessionsBounded
  BY DEF BoundInv, HasBound, Bounded, SessionsBounded
<1> QED  BY <1>2, <1>3, PTL
=============================================================================
