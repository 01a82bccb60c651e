------------------------- MODULE CollabClientProofs -------------------------
(***************************************************************************)
(* For any number of tabs, keys, values and retries: the types of          *)
(* CollabClient, that a synced session shows what is in its shared maps,   *)
(* that a stopped transport stays stopped, that a quiet connection has     *)
(* converged, and that two seeds meet only after a grant went stale.       *)
(***************************************************************************)
EXTENDS CollabClient, SequenceTheorems, FiniteSetTheorems, TLAPS

-----------------------------------------------------------------------------
(* Documents.                                                              *)

LEMMA ClockFacts ==
    ASSUME NEW D \in Document
    PROVE  Clock(D) \in Nat /\ \A x \in D : Clock(D) >= x.at
<1>1. CASE D = {} BY <1>1 DEF Clock
<1>2. CASE D # {}
  <2> DEFINE w == CHOOSE w \in D : \A x \in D : w.at >= x.at
  <2>1. \E v \in D : \A x \in D : v.at >= x.at BY <1>2 DEF Document
  <2>2. w \in D /\ \A x \in D : w.at >= x.at BY <2>1, Zenon
  <2>3. Clock(D) = w.at BY <1>2 DEF Clock
  <2>4. \A x \in D : x \in Stamped BY DEF Document
  <2>5. w.at \in Nat BY <2>2, <2>4 DEF Stamped, MapWrite
  <2> QED BY <2>2, <2>3, <2>5
<1> QED BY <1>1, <1>2

LEMMA StampedFacts ==
    ASSUME NEW w \in Stamped
    PROVE  w.at \in Nat /\ w.by \in Nat /\ (w.key \in Key => w.val \in Entries)
BY ClientAssumption DEF Stamped, MapWrite

(* A later write of two; the latest of two documents is one of theirs.     *)
LEMMA LaterFacts ==
    ASSUME NEW v \in Stamped, NEW w \in Stamped, NEW x \in Stamped
    PROVE  /\ Later(v, v)
           /\ Later(v, w) \/ Later(w, v)
           /\ Later(v, w) /\ Later(w, x) => Later(v, x)
<1>1. v.at \in Nat /\ v.by \in Nat /\ w.at \in Nat /\ w.by \in Nat /\ x.at \in Nat /\ x.by \in Nat
  BY StampedFacts
<1> QED BY <1>1 DEF Later

LEMMA UnionDocument ==
    ASSUME NEW D \in Document, NEW E \in Document
    PROVE  D \cup E \in Document
<1> DEFINE U == D \cup E
<1>1. U \in SUBSET Stamped BY DEF Document
<1>2. U = {} \/ \E w \in U : \A x \in U : w.at >= x.at
  <2>1. CASE D = {} BY <2>1 DEF Document
  <2>2. CASE E = {} BY <2>2 DEF Document
  <2>3. CASE D # {} /\ E # {}
    <3>1. PICK v \in D : \A x \in D : v.at >= x.at BY <2>3 DEF Document
    <3>2. PICK w \in E : \A x \in E : w.at >= x.at BY <2>3 DEF Document
    <3>3. \A x \in U : x.at \in Nat BY <1>1, StampedFacts
    <3>4. CASE v.at >= w.at BY <3>1, <3>2, <3>3, <3>4
    <3>5. CASE ~(v.at >= w.at) BY <3>1, <3>2, <3>3, <3>5
    <3> QED BY <3>4, <3>5
  <2> QED BY <2>1, <2>2, <2>3
<1>3. ASSUME NEW k \in Key, Writes(U, k) # {}
      PROVE  \E w \in Writes(U, k) : \A x \in Writes(U, k) : Later(w, x)
  <2>1. Writes(U, k) = Writes(D, k) \cup Writes(E, k) BY DEF Writes
  <2>2. CASE Writes(D, k) = {} BY <1>3, <2>1, <2>2 DEF Document
  <2>3. CASE Writes(E, k) = {} BY <1>3, <2>1, <2>3 DEF Document
  <2>4. CASE Writes(D, k) # {} /\ Writes(E, k) # {}
    <3>1. PICK v \in Writes(D, k) : \A x \in Writes(D, k) : Later(v, x) BY <2>4 DEF Document
    <3>2. PICK w \in Writes(E, k) : \A x \in Writes(E, k) : Later(w, x) BY <2>4 DEF Document
    <3>3. \A x \in Writes(U, k) : x \in Stamped BY <1>1 DEF Writes
    <3>4. CASE Later(v, w) BY <2>1, <3>1, <3>2, <3>3, <3>4, LaterFacts
    <3>5. CASE Later(w, v) BY <2>1, <3>1, <3>2, <3>3, <3>5, LaterFacts
    <3> QED BY <2>1, <3>3, <3>4, <3>5, LaterFacts
  <2> QED BY <2>2, <2>3, <2>4
<1> QED BY <1>1, <1>2, <1>3 DEF Document

LEMMA EmptyDocument == {} \in Document
BY DEF Document, Writes

LEMMA EntryType ==
    ASSUME NEW D \in Document, NEW k \in Key
    PROVE  Entry(D, k) \in Entries
<1>1. CASE Writes(D, k) = {} BY <1>1 DEF Entry, Entries
<1>2. CASE Writes(D, k) # {}
  <2>1. \E w \in Writes(D, k) : \A x \in Writes(D, k) : Later(w, x) BY <1>2 DEF Document
  <2>2. Winner(D, k) \in Writes(D, k) BY <2>1, Zenon DEF Winner
  <2>3. Winner(D, k) \in Stamped /\ Winner(D, k).key = k BY <2>2 DEF Writes, Document
  <2>4. Winner(D, k).val \in Entries BY <2>3, StampedFacts
  <2> QED BY <1>2, <2>4 DEF Entry
<1> QED BY <1>1, <1>2

(* What decodes is a cache.                                                *)
LEMMA MaterializedType ==
    ASSUME NEW D \in Document, Decodes(D)
    PROVE  Materialized(D) \in [Key -> Val \cup {None}]
<1>1. \A k \in Key : Entry(D, k) \in Entries /\ Entry(D, k) # Corrupt
  BY EntryType DEF Decodes
<1> QED BY <1>1 DEF Materialized, Entries

-----------------------------------------------------------------------------
(* Transactions.  Local writes are one per key, all of them after what the *)
(* document has.                                                           *)

Local(D, W) ==
    /\ W \subseteq Stamped
    /\ \A w \in W : w.at = Clock(D) + 1
    /\ \A v, w \in W : v.key = w.key => v = w

LEMMA LocalDocument ==
    ASSUME NEW D \in Document, NEW W, Local(D, W)
    PROVE  W \in Document /\ D \cup W \in Document
<1>1. \A x \in W : x \in Stamped BY DEF Local
<1>2. W = {} \/ \E w \in W : \A x \in W : w.at >= x.at
  <2>1. Clock(D) + 1 \in Nat BY ClockFacts
  <2> QED BY <2>1 DEF Local
<1>3. ASSUME NEW k \in Key, Writes(W, k) # {}
      PROVE  \E w \in Writes(W, k) : \A x \in Writes(W, k) : Later(w, x)
  <2>1. PICK w \in Writes(W, k) : TRUE BY <1>3
  <2>2. \A x \in Writes(W, k) : x = w BY DEF Local, Writes
  <2>3. Later(w, w) BY <1>1, <2>1, LaterFacts DEF Writes
  <2> QED BY <2>1, <2>2, <2>3
<1>4. W \in Document BY <1>1, <1>2, <1>3 DEF Document
<1> QED BY <1>4, UnionDocument

LEMMA LocalEntries ==
    ASSUME NEW D \in Document, NEW W, Local(D, W), NEW k
    PROVE  /\ \A w \in W : w.key = k => Entry(D \cup W, k) = w.val
           /\ (\A w \in W : w.key # k) => Entry(D \cup W, k) = Entry(D, k)
<1> DEFINE U == D \cup W
<1>1. ASSUME NEW w \in W, w.key = k PROVE Entry(U, k) = w.val
  <2>1. \A x \in Writes(U, k) : x \in Stamped BY DEF Local, Writes, Document
  <2>2. w \in Writes(U, k) BY <1>1 DEF Writes
  <2>3. \A x \in Writes(U, k) : x = w \/ w.at > x.at
    <3>1. ASSUME NEW x \in Writes(U, k) PROVE x = w \/ w.at > x.at
      <4>1. CASE x \in W BY <1>1, <4>1 DEF Local, Writes
      <4>2. CASE x \in D
        <5>1. Clock(D) >= x.at /\ Clock(D) \in Nat /\ x.at \in Nat
          BY <2>1, <4>2, ClockFacts, StampedFacts
        <5>2. w.at = Clock(D) + 1 BY <1>1 DEF Local
        <5> QED BY <5>1, <5>2
      <4> QED BY <3>1, <4>1, <4>2 DEF Writes
    <3> QED BY <3>1
  <2>4. \A x \in Writes(U, k) : Later(w, x)
    BY <2>1, <2>2, <2>3, LaterFacts DEF Later
  <2>5. \A x \in Writes(U, k) : (\A y \in Writes(U, k) : Later(x, y)) => x = w
    <3>1. ASSUME NEW x \in Writes(U, k), Later(x, w), w.at > x.at PROVE FALSE
      <4>1. x.at \in Nat /\ w.at \in Nat BY <2>1, <2>2, StampedFacts
      <4> QED BY <3>1, <4>1 DEF Later
    <3>2. ASSUME NEW x \in Writes(U, k), \A y \in Writes(U, k) : Later(x, y) PROVE x = w
      <4>1. Later(x, w) BY <2>2, <3>2, Zenon
      <4> QED BY <2>3, <3>1, <3>2, <4>1, Zenon
    <3> QED BY <3>2
  <2>6. Winner(U, k) = w BY <2>2, <2>4, <2>5, Zenon DEF Winner
  <2> QED BY <2>2, <2>6 DEF Entry
<1>2. ASSUME \A w \in W : w.key # k PROVE Entry(U, k) = Entry(D, k)
  <2>1. Writes(U, k) = Writes(D, k) BY <1>2 DEF Writes
  <2>2. Winner(U, k) = Winner(D, k) BY <2>1 DEF Winner
  <2> QED BY <2>1, <2>2 DEF Entry
<1> QED BY <1>1, <1>2

LEMMA WriteFacts ==
    ASSUME NEW D \in Document, NEW c \in Client \cup {0}, NEW k \in Key, NEW v \in Entries
    PROVE  /\ Write(D, c, k, v) \in Stamped /\ Write(D, c, k, v).key = k
           /\ Write(D, c, k, v).val = v /\ Write(D, c, k, v).at = Clock(D) + 1
<1>1. Clock(D) + 1 \in Nat BY ClockFacts
<1>2. c \in Nat BY ClientAssumption
<1> QED BY <1>1, <1>2 DEF Write, Stamped, MapWrite

(* U has what D has, but for the keys K, which are those of `next`.        *)
Leaves(D, U, K, next) == \A k \in Key : Entry(U, k) = IF k \in K THEN next[k] ELSE Entry(D, k)

LEMMA DiffFacts ==
    ASSUME NEW D \in Document, NEW c \in Client, NEW K \in SUBSET Key,
           NEW next \in [Key -> Entries]
    PROVE  /\ Local(D, Diff(D, c, K, next))
           /\ Leaves(D, D \cup Diff(D, c, K, next), K, next)
<1> DEFINE W == Diff(D, c, K, next)
           wr(k) == Write(D, c, k, next[k])
<1>1. \A k \in Key : /\ wr(k) \in Stamped /\ wr(k).key = k /\ wr(k).val = next[k]
                     /\ wr(k).at = Clock(D) + 1
  BY WriteFacts
<1>2. \A w \in W : \E k \in K : k \in Key /\ w = wr(k) /\ Entry(D, k) # next[k]
  BY DEF Diff
<1>3. \A k \in K : Entry(D, k) # next[k] => wr(k) \in W
  BY DEF Diff
<1> HIDE DEF W, wr
<1>4. Local(D, W)
  <2>1. \A w \in W : w \in Stamped /\ w.at = Clock(D) + 1 BY <1>1, <1>2
  <2>2. ASSUME NEW v \in W, NEW w \in W, v.key = w.key PROVE v = w
    <3>1. PICK j \in Key : v = wr(j) BY <1>2
    <3>2. PICK k \in Key : w = wr(k) BY <1>2
    <3>3. j = k BY <1>1, <2>2, <3>1, <3>2, Zenon
    <3> QED BY <3>1, <3>2, <3>3, Zenon
  <2> QED BY <2>1, <2>2 DEF Local
<1>5. ASSUME NEW k \in Key
      PROVE  Entry(D \cup W, k) = IF k \in K THEN next[k] ELSE Entry(D, k)
  <2>1. CASE k \in K /\ Entry(D, k) # next[k]
    BY <1>1, <1>3, <1>4, <2>1, LocalEntries
  <2>2. CASE ~(k \in K /\ Entry(D, k) # next[k])
    <3>1. ASSUME NEW w \in W, w.key = k PROVE FALSE
      <4>1. PICK j \in K : j \in Key /\ w = wr(j) /\ Entry(D, j) # next[j] BY <1>2, Zenon
      <4>2. j = k BY <1>1, <3>1, <4>1, Zenon
      <4> QED BY <2>2, <4>1, <4>2, Zenon
    <3> QED BY <1>4, <2>2, <3>1, LocalEntries
  <2> QED BY <2>1, <2>2
<1> QED BY <1>4, <1>5 DEF W, Leaves

(* A seed touches no map.                                                  *)
LEMMA SeedFacts ==
    ASSUME NEW D \in Document, NEW c \in Client
    PROVE  /\ {Write(D, c, "text", c)} \in Document
           /\ D \cup {Write(D, c, "text", c)} \in Document
           /\ Materialized(D \cup {Write(D, c, "text", c)}) = Materialized(D)
<1> DEFINE w == Write(D, c, "text", c)
<1>1. Clock(D) + 1 \in Nat /\ c \in Nat BY ClockFacts, ClientAssumption
<1>2. w \in Stamped /\ w.key = "text" /\ w.at = Clock(D) + 1 BY <1>1 DEF Write, Stamped, MapWrite
<1> HIDE DEF w
<1>3. Local(D, {w}) BY <1>2 DEF Local
<1>4. ASSUME NEW k \in Key PROVE Entry(D \cup {w}, k) = Entry(D, k)
  <2>1. \A v \in {w} : v.key # k BY <1>2, ClientAssumption
  <2> QED BY <1>3, <2>1, LocalEntries
<1> QED BY <1>3, <1>4, LocalDocument DEF w, Materialized
-----------------------------------------------------------------------------
(* The session.                                                            *)

Overlays == [Key -> Val \cup {None}]

(* What is said of one tab when it alone has changed.                      *)
LEMMA SessionMoves ==
    ASSUME SessionOK, SyncedShowsMaps, NEW c \in Client,
           NEW D \in Document, doc' = [doc EXCEPT ![c] = D],
           cache' \in [Client -> Overlays],
           status' \in [Client -> {"synced", "overlay-rejected"}],
           undoStack' \in [Client -> Seq(SUBSET Item)],
           \A d \in Client \ {c} : cache'[d] = cache[d] /\ status'[d] = status[d],
           status'[c] = "synced" => cache'[c] = Materialized(D)
    PROVE  SessionOK' /\ SyncedShowsMaps'
<1>1. doc \in [Client -> Document] BY DEF SessionOK
<1>2. doc' \in [Client -> Document] /\ doc'[c] = D BY <1>1
<1>3. ASSUME NEW d \in Client, status'[d] = "synced" PROVE cache'[d] = Materialized(doc'[d])
  <2>1. CASE d = c BY <1>2, <1>3, <2>1
  <2>2. CASE d # c
    <3>1. doc'[d] = doc[d] BY <1>1, <2>2
    <3> QED BY <1>3, <2>2, <3>1, Zenon DEF SyncedShowsMaps
  <2> QED BY <2>1, <2>2
<1>4. SyncedShowsMaps'
  <2>1. ASSUME NEW d \in Client, (status[d] = "synced")' PROVE (cache[d] = Materialized(doc[d]))'
    BY <1>3, <2>1, Zenon DEF Materialized, Entry, Winner, Writes, Later
  <2> QED BY <2>1, Zenon DEF SyncedShowsMaps
<1> QED BY <1>2, <1>4 DEF SessionOK, Overlays

LEMMA RematerializeFacts ==
    ASSUME SessionOK, NEW c \in Client, NEW D \in Document, Rematerialize(c, D)
    PROVE  /\ cache' \in [Client -> Overlays]
           /\ status' \in [Client -> {"synced", "overlay-rejected"}]
           /\ \A d \in Client \ {c} : cache'[d] = cache[d] /\ status'[d] = status[d]
           /\ status'[c] = "synced" => cache'[c] = Materialized(D)
<1>1. CASE Decodes(D)
  <2>1. Materialized(D) \in Overlays BY <1>1, MaterializedType DEF Overlays
  <2> QED BY <1>1, <2>1 DEF Rematerialize, SessionOK, Overlays
<1>2. CASE ~Decodes(D) BY <1>2 DEF Rematerialize, SessionOK, Overlays
<1> QED BY <1>1, <1>2

LEMMA FrameFacts ==
    ASSUME NEW W \in Document, NEW q \in Seq(Frame)
    PROVE  q \o DocFrame(W) \in Seq(Frame)
<1>1. CASE W = {}
  <2>1. q \o << >> = q OBVIOUS
  <2> QED BY <1>1, <2>1 DEF DocFrame
<1>2. CASE W # {}
  <2> DEFINE f == [tag |-> "doc", writes |-> W]
  <2>1. f \in Frame BY DEF Frame
  <2> HIDE DEF f
  <2>2. <<f>> \in Seq(Frame) BY <2>1
  <2>3. q \o <<f>> \in Seq(Frame) BY <2>2
  <2>4. DocFrame(W) = <<f>> BY <1>2 DEF DocFrame, f
  <2> QED BY <2>3, <2>4
<1> QED BY <1>1, <1>2

LEMMA ForwardFacts ==
    ASSUME up \in [Client -> Seq(Frame)], NEW c \in Client, NEW W \in Document, Forward(c, W)
    PROVE  up' \in [Client -> Seq(Frame)]
<1>1. up[c] \o DocFrame(W) \in Seq(Frame) BY FrameFacts
<1> QED BY <1>1 DEF Forward

LEMMA TransactStep ==
    ASSUME TypeOK, SyncedShowsMaps, NEW c \in Client, NEW W, Local(doc[c], W),
           \A w \in W : w.key \in Key, NEW next \in Overlays,
           status[c] = "synced" => next = Materialized(doc[c] \cup W),
           Transact(c, W, next)
    PROVE  SessionOK' /\ SyncedShowsMaps' /\ up' \in [Client -> Seq(Frame)]
<1>1. SessionOK /\ doc[c] \in Document BY DEF TypeOK, SessionOK
<1>2. W \in Document /\ doc[c] \cup W \in Document BY <1>1, LocalDocument
<1>3. up' \in [Client -> Seq(Frame)] BY <1>2, ForwardFacts DEF Transact, TypeOK, WireOK
<1>4. UndoItem(doc[c], W) \in SUBSET Item
  <2>1. ASSUME NEW w \in W PROVE [write |-> w, prev |-> Entry(doc[c], w.key)] \in Item
    BY <1>1, EntryType, ClientAssumption DEF Item, Local, Stamped, MapWrite
  <2> QED BY <2>1 DEF UndoItem
<1>5. undoStack' \in [Client -> Seq(SUBSET Item)]
  <2>1. Append(undoStack[c], UndoItem(doc[c], W)) \in Seq(SUBSET Item)
    BY <1>1, <1>4, AppendProperties DEF SessionOK
  <2> QED BY <1>1, <2>1 DEF Transact, SessionOK
<1>6. /\ doc' = [doc EXCEPT ![c] = doc[c] \cup W]
      /\ cache' = [cache EXCEPT ![c] = next] /\ status' = status
  BY DEF Transact
<1>7. /\ cache' \in [Client -> Overlays] /\ cache'[c] = next
      /\ status' \in [Client -> {"synced", "overlay-rejected"}]
      /\ \A d \in Client \ {c} : cache'[d] = cache[d] /\ status'[d] = status[d]
  BY <1>1, <1>6 DEF SessionOK, Overlays
<1>8. status'[c] = "synced" => cache'[c] = Materialized(doc[c] \cup W)
  BY <1>6, <1>7
<1>9. SessionOK' /\ SyncedShowsMaps'
  BY <1>1, <1>2, <1>5, <1>6, <1>7, <1>8, SessionMoves
<1> QED BY <1>3, <1>9

(* A local edit of the keys K: the cache the maps then hold.               *)
Shows(shown, K, next, old) == \A k \in Key : shown[k] = IF k \in K THEN next[k] ELSE old[k]

LEMMA DiffStep ==
    ASSUME TypeOK, SyncedShowsMaps, NEW c \in Client, NEW K \in SUBSET Key,
           NEW next \in Overlays, NEW shown \in Overlays,
           Shows(shown, K, next, cache[c]),
           Transact(c, Diff(doc[c], c, K, next), shown)
    PROVE  SessionOK' /\ SyncedShowsMaps' /\ up' \in [Client -> Seq(Frame)]
<1> DEFINE W == Diff(doc[c], c, K, next)
<1>1. doc[c] \in Document BY DEF TypeOK, SessionOK
<1>2. next \in [Key -> Entries] BY DEF Overlays, Entries
<1>3. Local(doc[c], W) /\ Leaves(doc[c], doc[c] \cup W, K, next)
  BY <1>1, <1>2, DiffFacts
<1>4. \A w \in W : w.key \in Key
  BY <1>1, <1>2, WriteFacts DEF Diff
<1>5. ASSUME status[c] = "synced" PROVE shown = Materialized(doc[c] \cup W)
  <2>1. cache[c] = Materialized(doc[c]) BY <1>5 DEF SyncedShowsMaps
  <2>2. \A k \in Key : cache[c][k] = Entry(doc[c], k) BY <2>1 DEF Materialized
  <2>3. \A k \in Key : shown[k] = Entry(doc[c] \cup W, k) BY <1>3, <2>2 DEF Leaves, Shows
  <2> HIDE DEF W
  <2>4. Materialized(doc[c] \cup W) = [k \in Key |-> Entry(doc[c] \cup W, k)]
    BY DEF Materialized
  <2> QED BY <2>3, <2>4 DEF Overlays
<1> HIDE DEF W
<1>6. Transact(c, W, shown) BY DEF W
<1> QED BY <1>3, <1>4, <1>5, <1>6, TransactStep

LEMMA SeedStep ==
    ASSUME TypeOK, SyncedShowsMaps, NEW c \in Client,
           doc' = [doc EXCEPT ![c] = doc[c] \cup {Write(doc[c], c, "text", c)}],
           UNCHANGED <<cache, status, undoStack>>
    PROVE  SessionOK' /\ SyncedShowsMaps'
<1>1. SessionOK /\ doc[c] \in Document BY DEF TypeOK, SessionOK
<1> DEFINE D == doc[c] \cup {Write(doc[c], c, "text", c)}
<1>2. D \in Document /\ Materialized(D) = Materialized(doc[c]) BY <1>1, SeedFacts
<1> HIDE DEF D
<1>3. doc' = [doc EXCEPT ![c] = D] BY DEF D
<1>4. status'[c] = "synced" => cache'[c] = Materialized(D) BY <1>2 DEF SyncedShowsMaps
<1>5. /\ cache' \in [Client -> Overlays] /\ undoStack' \in [Client -> Seq(SUBSET Item)]
      /\ status' \in [Client -> {"synced", "overlay-rejected"}]
      /\ \A d \in Client \ {c} : cache'[d] = cache[d] /\ status'[d] = status[d]
  BY <1>1 DEF SessionOK, Overlays
<1> QED BY <1>1, <1>2, <1>3, <1>4, <1>5, SessionMoves

LEMMA SessionRests ==
    ASSUME TypeOK, SyncedShowsMaps, UNCHANGED <<doc, cache, status, undoStack>>
    PROVE  SessionOK' /\ SyncedShowsMaps'
<1>1. SessionOK' BY DEF TypeOK, SessionOK
<1>2. doc' = doc /\ cache' = cache /\ status' = status OBVIOUS
<1>3. ASSUME NEW d \in Client, (status[d] = "synced")' PROVE (cache[d] = Materialized(doc[d]))'
  <2>1. status[d] = "synced" BY <1>2, <1>3
  <2>2. cache[d] = Materialized(doc[d]) BY <2>1 DEF SyncedShowsMaps
  <2>3. cache'[d] = Materialized(doc'[d]) BY <1>2, <2>2
  <2> QED BY <2>3, Zenon DEF Materialized, Entry, Winner, Writes, Later
<1>4. SyncedShowsMaps' BY <1>3, Zenon DEF SyncedShowsMaps
<1> QED BY <1>1, <1>4

-----------------------------------------------------------------------------
(* Edits.                                                                  *)

IInv == TypeOK /\ SyncedShowsMaps

(* What an edit leaves alone.                                              *)
LEMMA EditKeeps ==
    ASSUME IInv, SessionOK', SyncedShowsMaps', up' \in [Client -> Seq(Frame)], Edited,
           UNCHANGED <<transport, gate, viewerMode, down, relay, stale>>
    PROVE  IInv'
<1>1. TransportOK' BY DEF IInv, TypeOK, TransportOK, transport
<1>2. GateOK' BY DEF IInv, TypeOK, GateOK, gate
<1>3. WireOK' BY DEF IInv, TypeOK, WireOK
<1>4. RelayOK'
  <2>1. room' = room /\ members' = members /\ seeder' = seeder /\ stale' = stale BY DEF relay
  <2>2. RelayOK BY DEF IInv, TypeOK
  <2> QED BY <2>1, <2>2 DEF RelayOK
<1>5. drops' \in Nat /\ edits' \in Nat /\ foreign' \in Nat BY DEF IInv, TypeOK, Edited
<1> QED BY <1>1, <1>2, <1>3, <1>4, <1>5 DEF IInv, TypeOK

LEMMA WriteOverridesStep ==
    ASSUME IInv, NEW c \in Client, NEW next \in Overlays, WriteOverrides(c, next), Edited,
           UNCHANGED <<transport, gate, viewerMode, down, relay, stale>>
    PROVE  IInv'
<1> DEFINE shown == OnOverrides(next, cache[c])
<1>1. cache[c] \in Overlays BY DEF IInv, TypeOK, SessionOK, Overlays
<1>2. shown \in Overlays BY <1>1 DEF OnOverrides, Overlays
<1>3. Shows(shown, Override, next, cache[c]) BY DEF OnOverrides, Shows
<1>4. Transact(c, Diff(doc[c], c, Override, next), shown) BY DEF WriteOverrides
<1>5. Override \in SUBSET Key BY DEF Key
<1> HIDE DEF shown
<1>6. SessionOK' /\ SyncedShowsMaps' /\ up' \in [Client -> Seq(Frame)]
  BY <1>2, <1>3, <1>4, <1>5, DiffStep DEF IInv
<1> QED BY <1>6, EditKeeps

LEMMA MoveNodeStep ==
    ASSUME IInv, NEW c \in Client, NEW k \in Override, NEW v \in Val, MoveNode(c, k, v)
    PROVE  IInv'
<1> DEFINE next == [cache[c] EXCEPT ![k] = v]
<1>1. next \in Overlays BY DEF IInv, TypeOK, SessionOK, Overlays
<1>2. WriteOverrides(c, next) /\ Edited BY DEF MoveNode
<1>3. UNCHANGED <<transport, gate, viewerMode, down, relay, stale>> BY DEF MoveNode
<1> HIDE DEF next
<1> QED BY <1>1, <1>2, <1>3, WriteOverridesStep

LEMMA ClearOverridesStep ==
    ASSUME IInv, NEW c \in Client, ClearOverrides(c)
    PROVE  IInv'
<1>1. Absent \in Overlays BY DEF Absent, Overlays
<1>2. WriteOverrides(c, Absent) /\ Edited BY DEF ClearOverrides
<1>3. UNCHANGED <<transport, gate, viewerMode, down, relay, stale>> BY DEF ClearOverrides
<1> QED BY <1>1, <1>2, <1>3, WriteOverridesStep

LEMMA SetStyleStep ==
    ASSUME IInv, NEW c \in Client, NEW k \in Style, NEW v \in Val \cup {None}, SetStyle(c, k, v)
    PROVE  IInv'
<1> DEFINE next == [cache[c] EXCEPT ![k] = v]
<1>1. next \in Overlays /\ Shows(next, {k}, next, cache[c])
  <2>1. cache[c] \in [Key -> Val \cup {None}] BY DEF IInv, TypeOK, SessionOK
  <2> QED BY <2>1 DEF Overlays, Shows
<1>2. Transact(c, Diff(doc[c], c, {k}, next), next) /\ Edited BY DEF SetStyle
<1>3. UNCHANGED <<transport, gate, viewerMode, down, relay, stale>> BY DEF SetStyle
<1>4. {k} \in SUBSET Key BY DEF Key
<1> HIDE DEF next
<1>5. SessionOK' /\ SyncedShowsMaps' /\ up' \in [Client -> Seq(Frame)]
  BY <1>1, <1>2, <1>4, DiffStep DEF IInv
<1> QED BY <1>2, <1>3, <1>5, EditKeeps

LEMMA ReplaceStep ==
    ASSUME IInv, NEW c \in Client, NEW next \in Overlays, Replace(c, next)
    PROVE  IInv'
<1>1. Transact(c, Diff(doc[c], c, Key, next), next) /\ Edited BY DEF Replace
<1>2. UNCHANGED <<transport, gate, viewerMode, down, relay, stale>> BY DEF Replace
<1>3. Key \in SUBSET Key /\ Shows(next, Key, next, cache[c]) BY DEF Shows
<1>4. SessionOK' /\ SyncedShowsMaps' /\ up' \in [Client -> Seq(Frame)]
  BY <1>1, <1>3, DiffStep DEF IInv
<1> QED BY <1>1, <1>2, <1>4, EditKeeps

(* Writes with one stamp are a document, whatever their keys.              *)
LEMMA StampDocument ==
    ASSUME NEW n \in Nat, NEW b \in Nat, NEW W \in SUBSET Stamped,
           \A w \in W : w.at = n /\ w.by = b
    PROVE  W \in Document
<1>1. W = {} \/ \E w \in W : \A x \in W : w.at >= x.at OBVIOUS
<1>2. \A v, w \in W : Later(v, w) BY DEF Later
<1> QED BY <1>1, <1>2 DEF Document, Writes

(* An undo writes back what was there before, under one stamp.             *)
LEMMA UndoStep ==
    ASSUME IInv, NEW c \in Client, Undo(c)
    PROVE  IInv'
<1>1. SessionOK /\ doc[c] \in Document /\ undoStack[c] \in Seq(SUBSET Item)
  BY DEF IInv, TypeOK, SessionOK
<1> DEFINE item == undoStack[c][Len(undoStack[c])]
           live == {u \in item : Winner(doc[c], u.write.key) = u.write}
           wr(u) == Write(doc[c], c, u.write.key, u.prev)
           W == {wr(u) : u \in live}
           D == doc[c] \cup W
<1>2. /\ doc' = [doc EXCEPT ![c] = D]
      /\ undoStack' = [undoStack EXCEPT ![c] = SubSeq(@, 1, Len(@) - 1)]
      /\ IF W = {} THEN UNCHANGED <<cache, status>> ELSE Rematerialize(c, D)
      /\ Forward(c, W)
      /\ Edited /\ UNCHANGED <<transport, gate, viewerMode, down, relay, stale>>
      /\ undoStack[c] # << >>
  BY DEF Undo
<1>3. item \in SUBSET Item BY <1>1, <1>2
<1>4. W \in Document
  <2>1. Clock(doc[c]) + 1 \in Nat /\ c \in Nat BY <1>1, ClockFacts, ClientAssumption
  <2>2. ASSUME NEW u \in live
        PROVE  wr(u) \in Stamped /\ wr(u).at = Clock(doc[c]) + 1 /\ wr(u).by = c
    <3>1. u.write.key \in Key /\ u.prev \in Entries BY <1>3, <2>2 DEF Item, MapWrite
    <3> QED BY <2>1, <3>1 DEF Write, Stamped, MapWrite
  <2> HIDE DEF live, wr
  <2>3. W \in SUBSET Stamped /\ \A w \in W : w.at = Clock(doc[c]) + 1 /\ w.by = c BY <2>2
  <2> QED BY <2>1, <2>3, StampDocument
<1> HIDE DEF item, live, wr, W
<1>5. D \in Document BY <1>1, <1>4, UnionDocument
<1>6. up' \in [Client -> Seq(Frame)] BY <1>2, <1>4, ForwardFacts DEF IInv, TypeOK, WireOK
<1>7. undoStack' \in [Client -> Seq(SUBSET Item)]
  <2>1. SubSeq(undoStack[c], 1, Len(undoStack[c]) - 1) \in Seq(SUBSET Item) BY <1>1, <1>2
  <2> QED BY <1>1, <1>2, <2>1 DEF SessionOK
<1>8. /\ cache' \in [Client -> Overlays]
      /\ status' \in [Client -> {"synced", "overlay-rejected"}]
      /\ \A d \in Client \ {c} : cache'[d] = cache[d] /\ status'[d] = status[d]
      /\ status'[c] = "synced" => cache'[c] = Materialized(D)
  <2>1. CASE W = {}
    <3>1. D = doc[c] BY <2>1
    <3> QED BY <1>1, <1>2, <2>1, <3>1 DEF IInv, SyncedShowsMaps, SessionOK, Overlays
  <2>2. CASE W # {}
    <3>1. Rematerialize(c, D) BY <1>2, <2>2
    <3> HIDE DEF D
    <3> QED BY <1>1, <1>5, <3>1, RematerializeFacts
  <2> QED BY <2>1, <2>2
<1> HIDE DEF D
<1>9. SessionOK' /\ SyncedShowsMaps'
  BY <1>1, <1>2, <1>5, <1>7, <1>8, SessionMoves DEF IInv
<1> QED BY <1>2, <1>6, <1>9, EditKeeps

-----------------------------------------------------------------------------
(* The seed gate and the frames received.                                  *)

LEMMA MaybeSeedFacts ==
    ASSUME IInv, NEW c \in Client, NEW done, NEW connected, NEW granted,
           MaybeSeed(c, done, connected, granted), UNCHANGED <<cache, status, undoStack>>
    PROVE  SessionOK' /\ SyncedShowsMaps' /\ up' \in [Client -> Seq(Frame)]
<1>1. doc[c] \in Document /\ up \in [Client -> Seq(Frame)]
  BY DEF IInv, TypeOK, SessionOK, WireOK
<1>2. CASE GateOpen(done, connected, granted) /\ ~HasText(doc[c])
  <2> DEFINE W == {Write(doc[c], c, "text", c)}
  <2>1. doc' = [doc EXCEPT ![c] = doc[c] \cup W] /\ Forward(c, W)
    BY <1>2 DEF MaybeSeed
  <2>2. W \in Document BY <1>1, SeedFacts
  <2>3. SessionOK' /\ SyncedShowsMaps' BY <2>1, SeedStep DEF IInv
  <2> HIDE DEF W
  <2> QED BY <1>1, <2>1, <2>2, <2>3, ForwardFacts
<1>3. CASE ~(GateOpen(done, connected, granted) /\ ~HasText(doc[c]))
  <2>1. UNCHANGED <<doc, up>> BY <1>3 DEF MaybeSeed
  <2> QED BY <1>1, <2>1, SessionRests DEF IInv
<1> QED BY <1>2, <1>3

LEMMA SeedTimerStep ==
    ASSUME IInv, NEW c \in Client, SeedTimer(c)
    PROVE  IInv'
<1>1. SessionOK' /\ SyncedShowsMaps' /\ up' \in [Client -> Seq(Frame)]
  BY MaybeSeedFacts DEF SeedTimer
<1>2. TransportOK' BY DEF SeedTimer, IInv, TypeOK, TransportOK, transport
<1>3. GateOK' BY DEF SeedTimer, IInv, TypeOK, GateOK
<1>4. WireOK' BY <1>1 DEF SeedTimer, IInv, TypeOK, WireOK
<1>5. RelayOK' /\ drops' \in Nat /\ edits' \in Nat /\ foreign' \in Nat
  <2>1. room' = room /\ members' = members /\ seeder' = seeder /\ stale' = stale
        /\ drops' = drops /\ edits' = edits /\ foreign' = foreign
    BY DEF SeedTimer, relay, bounds
  <2> QED BY <2>1 DEF IInv, TypeOK, RelayOK
<1> QED BY <1>1, <1>2, <1>3, <1>4, <1>5 DEF IInv, TypeOK

LEMMA IntegrateFacts ==
    ASSUME IInv, NEW c \in Client, NEW W \in Document, Integrate(c, W)
    PROVE  SessionOK' /\ SyncedShowsMaps'
<1> DEFINE D == doc[c] \cup W
<1>1. SessionOK /\ doc[c] \in Document BY DEF IInv, TypeOK, SessionOK
<1>2. D \in Document BY <1>1, UnionDocument
<1>3. /\ doc' = [doc EXCEPT ![c] = D] /\ undoStack' = undoStack
      /\ IF MapsDiffer(doc[c], D) THEN Rematerialize(c, D) ELSE UNCHANGED <<cache, status>>
  BY DEF Integrate
<1> HIDE DEF D
<1>4. /\ cache' \in [Client -> Overlays]
      /\ status' \in [Client -> {"synced", "overlay-rejected"}]
      /\ \A d \in Client \ {c} : cache'[d] = cache[d] /\ status'[d] = status[d]
      /\ status'[c] = "synced" => cache'[c] = Materialized(D)
  <2>1. CASE MapsDiffer(doc[c], D) BY <1>1, <1>2, <1>3, <2>1, RematerializeFacts
  <2>2. CASE ~MapsDiffer(doc[c], D)
    <3>1. Materialized(doc[c]) = Materialized(D) BY <2>2 DEF MapsDiffer
    <3>2. cache' = cache /\ status' = status BY <1>3, <2>2
    <3>3. status[c] = "synced" => cache[c] = Materialized(D)
      BY <3>1 DEF IInv, SyncedShowsMaps
    <3> QED BY <1>1, <3>2, <3>3 DEF SessionOK, Overlays
  <2> QED BY <2>1, <2>2
<1>5. undoStack' \in [Client -> Seq(SUBSET Item)] BY <1>1, <1>3 DEF SessionOK
<1> QED BY <1>1, <1>2, <1>3, <1>4, <1>5, SessionMoves DEF IInv

LEMMA ReceiveStep ==
    ASSUME IInv, NEW c \in Client, Receive(c)
    PROVE  IInv'
<1> DEFINE frame == Head(down[c])
<1>1. /\ down \in [Client -> Seq(Frame)] /\ up \in [Client -> Seq(Frame)]
      /\ down[c] \in Seq(Frame) /\ down[c] # << >>
  BY DEF Receive, IInv, TypeOK, WireOK
<1>2. frame \in Frame /\ Tail(down[c]) \in Seq(Frame) BY <1>1
<1>3. down' \in [Client -> Seq(Frame)] BY <1>1, <1>2 DEF Receive
<1>4. TransportOK' BY DEF Receive, IInv, TypeOK, TransportOK, transport
<1>5. /\ room' = room /\ members' = members /\ seeder' = seeder
      /\ drops' = drops /\ edits' = edits /\ foreign' = foreign
  BY DEF Receive, relay, bounds
<1> HIDE DEF frame
<1>6. /\ SessionOK' /\ SyncedShowsMaps' /\ up' \in [Client -> Seq(Frame)]
      /\ GateOK' /\ stale' = stale
  <2>1. CASE /\ frame.tag = "doc" /\ Integrate(c, frame.writes)
             /\ UNCHANGED <<gate, viewerMode, up, stale>>
    <3>1. frame.writes \in Document BY <1>2, <2>1 DEF Frame
    <3>2. SessionOK' /\ SyncedShowsMaps' BY <2>1, <3>1, IntegrateFacts
    <3> QED BY <1>1, <2>1, <3>2 DEF IInv, TypeOK, GateOK, gate
  <2>2. CASE /\ frame.tag = "seed"
             /\ seedGranted' = [seedGranted EXCEPT ![c] = TRUE]
             /\ MaybeSeed(c, seedTimerDone[c], transportConnected[c], TRUE)
             /\ UNCHANGED <<cache, status, undoStack, transportConnected, seedTimerDone,
                            viewerMode, stale>>
    <3>1. SessionOK' /\ SyncedShowsMaps' /\ up' \in [Client -> Seq(Frame)]
      BY <2>2, MaybeSeedFacts
    <3> QED BY <2>2, <3>1 DEF IInv, TypeOK, GateOK
  <2>3. CASE /\ frame.tag = "role"
             /\ viewerMode' = [viewerMode EXCEPT ![c] = frame.role = "viewer"]
             /\ UNCHANGED <<session, gate, up, stale>>
    <3>1. SessionOK' /\ SyncedShowsMaps' BY <2>3, SessionRests DEF IInv, session
    <3>2. GateOK' BY <2>3 DEF IInv, TypeOK, GateOK, gate
    <3> QED BY <1>1, <2>3, <3>1, <3>2
  <2> QED BY <2>1, <2>2, <2>3 DEF Receive, frame
<1>7. RelayOK' BY <1>5, <1>6 DEF IInv, TypeOK, RelayOK
<1> QED BY <1>3, <1>4, <1>5, <1>6, <1>7 DEF IInv, TypeOK, WireOK

-----------------------------------------------------------------------------
(* The transport.                                                          *)

(* A connection that is gone, as the relay sees it.                        *)
LEMMA LostFacts ==
    ASSUME IInv, NEW c \in Client, Lost(c)
    PROVE  WireOK' /\ RelayOK'
<1>1. WireOK /\ RelayOK BY DEF IInv, TypeOK
<1>2. << >> \in Seq(Frame) OBVIOUS
<1>3. up' \in [Client -> Seq(Frame)] BY <1>1, <1>2 DEF Lost, WireOK
<1>4. members' \in SUBSET members /\ room' = room /\ stale' \subseteq Client
  BY <1>1 DEF Lost, Without, RelayOK
<1>5. down' \in [Client -> Seq(Frame)] /\ seeder' \in Client \cup {None}
  <2>1. CASE seeder' = seeder /\ down' = [down EXCEPT ![c] = << >>]
    BY <1>1, <1>2, <2>1 DEF WireOK, RelayOK
  <2>2. CASE seeder' = None /\ down' = [down EXCEPT ![c] = << >>]
    BY <1>1, <1>2, <2>2 DEF WireOK, RelayOK
  <2>3. ASSUME NEW m \in Without(c), seeder' = m.client,
               down' = [down EXCEPT ![c] = << >>, ![m.client] = Append(@, [tag |-> "seed"])]
        PROVE  down' \in [Client -> Seq(Frame)] /\ seeder' \in Client \cup {None}
    <3>1. m.client \in Client /\ m.client # c BY <1>1, <2>3 DEF Without, RelayOK
    <3>2. [tag |-> "seed"] \in Frame BY DEF Frame
    <3>3. down[m.client] \in Seq(Frame) BY <1>1, <3>1 DEF WireOK
    <3>4. Append(down[m.client], [tag |-> "seed"]) \in Seq(Frame)
      BY <3>2, <3>3, AppendProperties
    <3> QED BY <1>1, <1>2, <2>3, <3>1, <3>4 DEF WireOK
  <2> QED BY <2>1, <2>2, <2>3 DEF Lost
<1> QED BY <1>1, <1>3, <1>4, <1>5 DEF WireOK, RelayOK

LEMMA SurfaceFacts ==
    ASSUME IInv, NEW c \in Client, Surface(c), UNCHANGED <<cache, status, undoStack>>
    PROVE  /\ SessionOK' /\ SyncedShowsMaps' /\ surfaced' \in [Client -> Nat]
           /\ transportConnected' \in [Client -> BOOLEAN] /\ seedGranted' \in [Client -> BOOLEAN]
<1>1. SessionOK' /\ SyncedShowsMaps'
  <2>1. CASE GateOpen(seedTimerDone[c], FALSE, FALSE) /\ ~HasText(doc[c])
    <3>1. doc' = [doc EXCEPT ![c] = doc[c] \cup {Write(doc[c], c, "text", c)}]
      BY <2>1 DEF Surface
    <3> QED BY <3>1, SeedStep DEF IInv
  <2>2. CASE ~(GateOpen(seedTimerDone[c], FALSE, FALSE) /\ ~HasText(doc[c]))
    <3>1. UNCHANGED doc BY <2>2 DEF Surface
    <3> QED BY <3>1, SessionRests DEF IInv
  <2> QED BY <2>1, <2>2
<1>2. surfaced' \in [Client -> Nat] BY DEF Surface, IInv, TypeOK, TransportOK
<1>3. transportConnected' \in [Client -> BOOLEAN] /\ seedGranted' \in [Client -> BOOLEAN]
  BY DEF Surface, IInv, TypeOK, GateOK
<1> QED BY <1>1, <1>2, <1>3

(* A close that is retried, or surfaced.                                   *)
LEMMA ReconnectFacts ==
    ASSUME IInv, NEW c \in Client, Reconnect(c), UNCHANGED <<cache, status, undoStack>>,
           sock' = [sock EXCEPT ![c] = "closed"], UNCHANGED <<seedTimerDone, viewerMode>>
    PROVE  TransportOK' /\ SessionOK' /\ SyncedShowsMaps' /\ GateOK'
<1>1. TransportOK /\ GateOK BY DEF IInv, TypeOK
<1>2. CASE Exhausted(c) /\ Stop(c) /\ Surface(c) /\ UNCHANGED <<attempt, reconnectedPending, timer>>
  <2>1. /\ SessionOK' /\ SyncedShowsMaps' /\ surfaced' \in [Client -> Nat]
        /\ transportConnected' \in [Client -> BOOLEAN] /\ seedGranted' \in [Client -> BOOLEAN]
    BY <1>2, SurfaceFacts
  <2>2. TransportOK' BY <1>1, <1>2, <2>1 DEF TransportOK, Stop
  <2>3. GateOK' BY <1>1, <2>1 DEF GateOK
  <2> QED BY <2>1, <2>2, <2>3
<1>3. CASE /\ ~Exhausted(c)
           /\ attempt' = [attempt EXCEPT ![c] = @ + 1]
           /\ reconnectedPending' = [reconnectedPending EXCEPT ![c] = TRUE]
           /\ timer' = [timer EXCEPT ![c] = TRUE]
           /\ UNCHANGED <<stopped, surfaced, doc, transportConnected, seedGranted>>
  <2>1. SessionOK' /\ SyncedShowsMaps' BY <1>3, SessionRests DEF IInv
  <2>2. attempt[c] + 1 \in 0..MaxRetries
    BY <1>1, <1>3, ClientAssumption DEF TransportOK, Exhausted
  <2>3. TransportOK' BY <1>1, <1>3, <2>2 DEF TransportOK
  <2>4. GateOK' BY <1>1, <1>3 DEF GateOK
  <2> QED BY <2>1, <2>3, <2>4
<1> QED BY <1>2, <1>3 DEF Reconnect

LEMMA NetworkStep ==
    ASSUME IInv, NEW c \in Client, Network(c)
    PROVE  IInv'
<1>1. TransportOK /\ SessionOK /\ GateOK /\ WireOK /\ RelayOK
      /\ drops \in Nat /\ edits \in Nat /\ foreign \in Nat
  BY DEF IInv, TypeOK
<1>2. CASE SocketOpens(c)
  <2>1. TransportOK' BY <1>1, <1>2, ClientAssumption DEF SocketOpens, TransportOK
  <2>2. StateFrames(c) \in Seq(Frame)
    <3>1. <<[tag |-> "auth"]>> \in Seq(Frame) BY DEF Frame
    <3>2. doc[c] \in Document BY <1>1 DEF SessionOK
    <3> QED BY <3>1, <3>2, FrameFacts DEF StateFrames
  <2>3. WireOK' BY <1>1, <1>2, <2>2 DEF SocketOpens, WireOK
  <2>4. SessionOK' /\ SyncedShowsMaps' BY <1>2, SessionRests DEF SocketOpens, session, IInv
  <2>5. GateOK' BY <1>1, <1>2 DEF SocketOpens, GateOK, gate
  <2>6. RelayOK' /\ drops' \in Nat /\ edits' \in Nat /\ foreign' \in Nat
    BY <1>1, <1>2 DEF SocketOpens, RelayOK, relay, bounds
  <2> QED BY <2>1, <2>3, <2>4, <2>5, <2>6 DEF IInv, TypeOK
<1>3. CASE ConnectFails(c)
  <2>1. TransportOK' /\ SessionOK' /\ SyncedShowsMaps' /\ GateOK'
    BY <1>3, ReconnectFacts DEF ConnectFails
  <2>2. WireOK' /\ RelayOK' /\ drops' \in Nat /\ edits' \in Nat /\ foreign' \in Nat
    BY <1>1, <1>3 DEF ConnectFails, WireOK, RelayOK, relay, bounds
  <2> QED BY <2>1, <2>2 DEF IInv, TypeOK
<1>4. CASE Drop(c)
  <2>1. TransportOK' /\ SessionOK' /\ SyncedShowsMaps' /\ GateOK'
    BY <1>4, ReconnectFacts DEF Drop
  <2>2. WireOK' /\ RelayOK' BY <1>4, LostFacts DEF Drop
  <2>3. drops' \in Nat /\ edits' \in Nat /\ foreign' \in Nat BY <1>1, <1>4 DEF Drop
  <2> QED BY <2>1, <2>2, <2>3 DEF IInv, TypeOK
<1>5. CASE Rejected(c)
  <2>1. /\ SessionOK' /\ SyncedShowsMaps' /\ surfaced' \in [Client -> Nat]
        /\ transportConnected' \in [Client -> BOOLEAN] /\ seedGranted' \in [Client -> BOOLEAN]
    BY <1>5, SurfaceFacts DEF Rejected
  <2>2. TransportOK' BY <1>1, <1>5, <2>1 DEF Rejected, Stop, TransportOK
  <2>3. GateOK' BY <1>1, <1>5, <2>1 DEF Rejected, GateOK
  <2>4. WireOK' /\ RelayOK' BY <1>5, LostFacts DEF Rejected
  <2>5. drops' \in Nat /\ edits' \in Nat /\ foreign' \in Nat BY <1>1, <1>5 DEF Rejected
  <2> QED BY <2>1, <2>2, <2>3, <2>4, <2>5 DEF IInv, TypeOK
<1>6. CASE RetryFires(c)
  <2>1. TransportOK' BY <1>1, <1>6 DEF RetryFires, Retried, TransportOK
  <2>2. SessionOK' /\ SyncedShowsMaps' BY <1>6, SessionRests DEF RetryFires, session, IInv
  <2>3. GateOK' BY <1>1, <1>6 DEF RetryFires, GateOK, gate
  <2>4. WireOK' /\ RelayOK' /\ drops' \in Nat /\ edits' \in Nat /\ foreign' \in Nat
    BY <1>1, <1>6 DEF RetryFires, WireOK, RelayOK, relay, bounds
  <2> QED BY <2>1, <2>2, <2>3, <2>4 DEF IInv, TypeOK
<1>7. CASE Disconnect(c)
  <2>1. TransportOK' BY <1>1, <1>7 DEF Disconnect, Stop, TransportOK
  <2>2. SessionOK' /\ SyncedShowsMaps' BY <1>7, SessionRests DEF Disconnect, session, IInv
  <2>3. GateOK' BY <1>1, <1>7 DEF Disconnect, GateOK, gate
  <2>4. WireOK' /\ RelayOK' BY <1>7, LostFacts DEF Disconnect
  <2>5. drops' \in Nat /\ edits' \in Nat /\ foreign' \in Nat BY <1>1, <1>7 DEF Disconnect
  <2> QED BY <2>1, <2>2, <2>3, <2>4, <2>5 DEF IInv, TypeOK
<1> QED BY <1>2, <1>3, <1>4, <1>5, <1>6, <1>7 DEF Network

-----------------------------------------------------------------------------
(* The relay.                                                              *)

LEMMA BroadcastFacts ==
    ASSUME IInv, NEW W \in Document, NEW from, Broadcast(W, from)
    PROVE  down' \in [Client -> Seq(Frame)]
<1>1. ASSUME NEW c \in Client
      PROVE  (IF Member(c) /\ c # from THEN down[c] \o DocFrame(W) ELSE down[c]) \in Seq(Frame)
  <2>1. down[c] \in Seq(Frame) BY DEF IInv, TypeOK, WireOK
  <2>2. down[c] \o DocFrame(W) \in Seq(Frame) BY <2>1, FrameFacts
  <2> QED BY <2>1, <2>2
<1> QED BY <1>1 DEF Broadcast

LEMMA AdmitStep ==
    ASSUME IInv, NEW c \in Client, Admit(c)
    PROVE  IInv'
<1>1. TransportOK /\ GateOK /\ WireOK /\ RelayOK BY DEF IInv, TypeOK
<1>2. TransportOK' /\ GateOK' BY <1>1 DEF Admit, TransportOK, transport, GateOK, gate
<1>3. SessionOK' /\ SyncedShowsMaps' BY SessionRests DEF Admit, session, IInv
<1>4. up[c] \in Seq(Frame) /\ up[c] # << >> BY <1>1 DEF Admit, WireOK
<1>5. Tail(up[c]) \in Seq(Frame) BY <1>4
<1>6. up' \in [Client -> Seq(Frame)] BY <1>1, <1>5 DEF Admit, WireOK
<1> DEFINE grants == room = {} /\ seeder = None
           head(r) == << [tag |-> "role", role |-> r] >>
           grant == IF grants THEN << [tag |-> "seed"] >> ELSE << >>
<1>7. PICK r \in Role : /\ members' = members \cup {[client |-> c, role |-> r]}
                        /\ seeder' = IF grants THEN c ELSE seeder
                        /\ down' = [down EXCEPT ![c] = head(r) \o grant \o DocFrame(room)]
  BY DEF Admit
<1>8. head(r) \in Seq(Frame) /\ grant \in Seq(Frame)
  <2>1. [tag |-> "role", role |-> r] \in Frame /\ [tag |-> "seed"] \in Frame BY DEF Frame
  <2> QED BY <2>1
<1> HIDE DEF head, grant, grants
<1>9. head(r) \o grant \o DocFrame(room) \in Seq(Frame)
  <2>1. head(r) \o grant \in Seq(Frame) BY <1>8
  <2> QED BY <1>1, <2>1, FrameFacts DEF RelayOK
<1>10. WireOK' BY <1>1, <1>6, <1>7, <1>9 DEF WireOK
<1>11. RelayOK'
  <2>1. room' = room /\ stale' = stale BY DEF Admit
  <2>2. [client |-> c, role |-> r] \in [client : Client, role : Role] OBVIOUS
  <2> QED BY <1>1, <1>7, <2>1, <2>2 DEF RelayOK
<1>12. drops' \in Nat /\ edits' \in Nat /\ foreign' \in Nat
  BY DEF Admit, bounds, IInv, TypeOK
<1> QED BY <1>2, <1>3, <1>10, <1>11, <1>12 DEF IInv, TypeOK

LEMMA HandleStep ==
    ASSUME IInv, NEW c \in Client, Handle(c)
    PROVE  IInv'
<1>1. TransportOK /\ GateOK /\ WireOK /\ RelayOK BY DEF IInv, TypeOK
<1>2. TransportOK' /\ GateOK' BY <1>1 DEF Handle, TransportOK, transport, GateOK, gate
<1>3. SessionOK' /\ SyncedShowsMaps' BY SessionRests DEF Handle, session, IInv
<1> DEFINE W == Head(up[c]).writes
<1>4. up[c] \in Seq(Frame) /\ up[c] # << >> /\ Head(up[c]).tag = "doc" BY <1>1 DEF Handle, WireOK
<1>5. Tail(up[c]) \in Seq(Frame) /\ Head(up[c]) \in Frame BY <1>4
<1>6. up' \in [Client -> Seq(Frame)] BY <1>1, <1>5 DEF Handle, WireOK
<1>7. W \in Document BY <1>4, <1>5 DEF Frame
<1>8. \/ room' = room \cup W /\ Broadcast(W, c)
      \/ room' = room /\ down' = down
  BY DEF Handle
<1> HIDE DEF W
<1>9. room \cup W \in Document BY <1>1, <1>7, UnionDocument DEF RelayOK
<1>10. room' \in Document /\ down' \in [Client -> Seq(Frame)]
  <2>1. CASE room' = room \cup W /\ Broadcast(W, c) BY <1>7, <1>9, <2>1, BroadcastFacts
  <2>2. CASE room' = room /\ down' = down BY <1>1, <2>2 DEF RelayOK, WireOK
  <2> QED BY <1>8, <2>1, <2>2
<1>11. /\ members' = members /\ seeder' = seeder /\ stale' = stale
       /\ drops' = drops /\ edits' = edits /\ foreign' = foreign
  BY DEF Handle, bounds
<1>12. drops \in Nat /\ edits \in Nat /\ foreign \in Nat BY DEF IInv, TypeOK
<1> QED BY <1>1, <1>2, <1>3, <1>6, <1>10, <1>11, <1>12 DEF IInv, TypeOK, WireOK, RelayOK

LEMMA ForeignStep ==
    ASSUME IInv, NEW k \in Key, NEW v \in Val \cup {Corrupt}, ForeignWrite(k, v)
    PROVE  IInv'
<1>1. TransportOK /\ GateOK /\ WireOK /\ RelayOK BY DEF IInv, TypeOK
<1>2. TransportOK' /\ GateOK' BY <1>1 DEF ForeignWrite, TransportOK, transport, GateOK, gate
<1>3. SessionOK' /\ SyncedShowsMaps' BY SessionRests DEF ForeignWrite, session, IInv
<1> DEFINE w == Write(room, 0, k, v)
<1>4. room' = room \cup {w} /\ Broadcast({w}, 0) BY DEF ForeignWrite
<1>5. room \in Document BY <1>1 DEF RelayOK
<1>6. w \in Stamped /\ w.at = Clock(room) + 1 BY <1>5, WriteFacts DEF Entries
<1> HIDE DEF w
<1>7. Local(room, {w}) BY <1>6 DEF Local
<1>8. {w} \in Document /\ room \cup {w} \in Document BY <1>5, <1>7, LocalDocument
<1>9. down' \in [Client -> Seq(Frame)] BY <1>4, <1>8, BroadcastFacts
<1>10. /\ up' = up /\ members' = members /\ seeder' = seeder /\ stale' = stale
       /\ drops' = drops /\ edits' = edits /\ foreign' = foreign + 1
  BY DEF ForeignWrite
<1>11. drops \in Nat /\ edits \in Nat /\ foreign \in Nat BY DEF IInv, TypeOK
<1> QED BY <1>1, <1>2, <1>3, <1>4, <1>8, <1>9, <1>10, <1>11 DEF IInv, TypeOK, WireOK, RelayOK

-----------------------------------------------------------------------------
(* The specification.                                                      *)

LEMMA InitIInv == Init => IInv
<1> SUFFICES ASSUME Init PROVE IInv OBVIOUS
<1>1. TransportOK BY ClientAssumption DEF Init, TransportOK
<1>2. SessionOK
  <2>1. Absent \in [Key -> Val \cup {None}] BY DEF Absent
  <2>2. << >> \in Seq(SUBSET Item) OBVIOUS
  <2> QED BY <2>1, <2>2, EmptyDocument DEF Init, SessionOK
<1>3. GateOK BY DEF Init, GateOK
<1>4. WireOK
  <2>1. << >> \in Seq(Frame) OBVIOUS
  <2> QED BY <2>1 DEF Init, WireOK
<1>5. RelayOK BY EmptyDocument DEF Init, RelayOK
<1>6. SyncedShowsMaps
  <2>1. Materialized({}) = Absent BY DEF Materialized, Absent, Entry, Writes
  <2> QED BY <2>1 DEF Init, SyncedShowsMaps
<1> QED BY <1>1, <1>2, <1>3, <1>4, <1>5, <1>6 DEF IInv, TypeOK, Init

LEMMA StutterIInv == IInv /\ UNCHANGED vars => IInv'
<1> SUFFICES ASSUME IInv, UNCHANGED vars PROVE IInv' OBVIOUS
<1> USE DEF vars
<1>1. SessionOK' /\ SyncedShowsMaps' BY SessionRests DEF session, IInv
<1>2. TransportOK' BY DEF transport, TransportOK, IInv, TypeOK
<1>3. GateOK' BY DEF gate, GateOK, IInv, TypeOK
<1>4. WireOK' BY DEF WireOK, IInv, TypeOK
<1>5. RelayOK' BY DEF relay, RelayOK, IInv, TypeOK
<1>6. drops' \in Nat /\ edits' \in Nat /\ foreign' \in Nat BY DEF bounds, IInv, TypeOK
<1> QED BY <1>1, <1>2, <1>3, <1>4, <1>5, <1>6 DEF IInv, TypeOK

LEMMA EditStep ==
    ASSUME IInv, NEW c \in Client, Edit(c)
    PROVE  IInv'
<1>1. ASSUME NEW k \in Override, NEW v \in Val, MoveNode(c, k, v) PROVE IInv'
  BY <1>1, MoveNodeStep
<1>2. ASSUME NEW k \in Style, NEW v \in Val \cup {None}, SetStyle(c, k, v) PROVE IInv'
  BY <1>2, SetStyleStep
<1>3. ASSUME NEW v \in Val, Replace(c, [k \in Key |-> v]) PROVE IInv'
  <2>1. [k \in Key |-> v] \in Overlays BY DEF Overlays
  <2> QED BY <1>3, <2>1, ReplaceStep
<1>4. ClearOverrides(c) => IInv' BY ClearOverridesStep
<1>5. Undo(c) => IInv' BY UndoStep
<1> QED BY <1>1, <1>2, <1>3, <1>4, <1>5 DEF Edit

LEMMA NextIInv == IInv /\ [Next]_vars => IInv'
<1> SUFFICES ASSUME IInv, [Next]_vars PROVE IInv' OBVIOUS
<1>1. ASSUME NEW c \in Client, Edit(c) PROVE IInv' BY <1>1, EditStep
<1>2. ASSUME NEW c \in Client, Network(c) PROVE IInv' BY <1>2, NetworkStep
<1>3. ASSUME NEW c \in Client, Receive(c) PROVE IInv' BY <1>3, ReceiveStep
<1>4. ASSUME NEW c \in Client, SeedTimer(c) PROVE IInv' BY <1>4, SeedTimerStep
<1>5. ASSUME NEW c \in Client, Admit(c) PROVE IInv' BY <1>5, AdmitStep
<1>6. ASSUME NEW c \in Client, Handle(c) PROVE IInv' BY <1>6, HandleStep
<1>7. ASSUME NEW k \in Key, NEW v \in Val \cup {Corrupt}, ForeignWrite(k, v) PROVE IInv'
  BY <1>7, ForeignStep
<1>8. CASE UNCHANGED vars BY <1>8, StutterIInv
<1> QED BY <1>1, <1>2, <1>3, <1>4, <1>5, <1>6, <1>7, <1>8 DEF Next

LEMMA Invariance == Spec => []IInv
BY InitIInv, NextIInv, PTL DEF Spec

(* Every variable of the client has its type.                              *)
THEOREM TypesHold == Spec => []TypeOK
<1>1. IInv => TypeOK BY DEF IInv
<1> QED BY <1>1, Invariance, PTL

(* Through local edits, remote updates, undos, seeds and rejected updates, *)
(* the overlay a synced session shows is the one in its shared maps        *)
(* (session.ts, onMapChange).                                              *)
THEOREM SyncedShowsMapsHolds == Spec => []SyncedShowsMaps
<1>1. IInv => SyncedShowsMaps BY DEF IInv
<1> QED BY <1>1, Invariance, PTL

(* A stopped transport stays stopped and closed, and surfaces no other     *)
(* close (transport.ts).                                                   *)
StaysStopped ==
    \A c \in Client : stopped[c] =>
        /\ stopped'[c] /\ surfaced'[c] = surfaced[c]
        /\ sock[c] = "closed" => sock'[c] = "closed"

LEMMA NetworkStops ==
    ASSUME TransportOK, NEW c \in Client, Network(c)
    PROVE  StaysStopped
<1>1. CASE SocketOpens(c) BY <1>1 DEF SocketOpens, TransportOK, StaysStopped
<1>2. CASE RetryFires(c) BY <1>2 DEF RetryFires, Retried, TransportOK, StaysStopped
<1>3. CASE Disconnect(c) BY <1>3 DEF Disconnect, Stop, TransportOK, StaysStopped
<1>4. CASE Rejected(c) BY <1>4 DEF Rejected, Stop, Surface, TransportOK, StaysStopped
<1>5. CASE ConnectFails(c) BY <1>5 DEF ConnectFails, Reconnect, Stop, Surface, TransportOK, StaysStopped
<1>6. CASE Drop(c) BY <1>6 DEF Drop, Reconnect, Stop, Surface, TransportOK, StaysStopped
<1> QED BY <1>1, <1>2, <1>3, <1>4, <1>5, <1>6 DEF Network

LEMMA NextStops ==
    ASSUME TransportOK, [Next]_vars
    PROVE  StaysStopped
<1>1. ASSUME NEW c \in Client, Network(c) PROVE StaysStopped BY <1>1, NetworkStops
<1>2. ASSUME UNCHANGED transport PROVE StaysStopped BY <1>2 DEF transport, StaysStopped
<1>3. ASSUME NEW c \in Client, Edit(c) PROVE UNCHANGED transport
  BY <1>3, Zenon DEF Edit, MoveNode, SetStyle, Replace, ClearOverrides, Undo
<1>4. ASSUME NEW c \in Client, Receive(c) \/ SeedTimer(c) \/ Admit(c) \/ Handle(c)
      PROVE  UNCHANGED transport
  BY <1>4, Zenon DEF Receive, SeedTimer, Admit, Handle
<1>5. ASSUME NEW k \in Key, NEW v \in Val \cup {Corrupt}, ForeignWrite(k, v)
      PROVE  UNCHANGED transport
  BY <1>5, Zenon DEF ForeignWrite
<1>6. CASE UNCHANGED vars BY <1>2, <1>6 DEF vars
<1> QED BY <1>1, <1>2, <1>3, <1>4, <1>5, <1>6 DEF Next

(* Nothing that still fires after a stop revives the transport.            *)
THEOREM StopIsFinalHolds == Spec => StopIsFinal
<1>1. TypeOK /\ [Next]_vars => StaysStopped BY NextStops DEF TypeOK
<1>2. StaysStopped => [\A c \in Client : stopped[c] =>
          /\ stopped'[c] /\ surfaced'[c] = surfaced[c]
          /\ sock[c] = "closed" => sock'[c] = "closed"]_vars
  BY DEF StaysStopped
<1> QED BY <1>1, <1>2, TypesHold, PTL DEF Spec, StopIsFinal

-----------------------------------------------------------------------------
(* Frames in flight.                                                       *)

LEMMA CarriedNone == Carried(<< >>) = {}
BY DEF Carried

LEMMA CarriedFrame ==
    ASSUME NEW q \in Seq(Frame), NEW f \in Frame
    PROVE  Carried(Append(q, f)) = Carried(q) \cup (IF f.tag = "doc" THEN f.writes ELSE {})
<1> DEFINE r == Append(q, f)
<1>1. /\ DOMAIN q = 1 .. Len(q) /\ DOMAIN r = 1 .. (Len(q) + 1) /\ Len(q) \in Nat
      /\ r[Len(q) + 1] = f /\ \A i \in 1 .. Len(q) : r[i] = q[i]
  BY AppendProperties, LenProperties
<1> HIDE DEF r
<1>2. ASSUME NEW w \in Carried(r)
      PROVE  w \in Carried(q) \cup (IF f.tag = "doc" THEN f.writes ELSE {})
  <2>1. PICK i \in DOMAIN r : r[i].tag = "doc" /\ w \in r[i].writes BY <1>2 DEF Carried
  <2>2. CASE i = Len(q) + 1 BY <1>1, <2>1, <2>2
  <2>3. CASE i # Len(q) + 1
    <3>1. i \in 1 .. Len(q) BY <1>1, <2>1, <2>3
    <3> QED BY <1>1, <2>1, <3>1 DEF Carried
  <2> QED BY <2>2, <2>3
<1>3. ASSUME NEW w \in Carried(q) \cup (IF f.tag = "doc" THEN f.writes ELSE {})
      PROVE  w \in Carried(r)
  <2>1. CASE w \in Carried(q)
    <3>1. PICK i \in DOMAIN q : q[i].tag = "doc" /\ w \in q[i].writes BY <2>1 DEF Carried
    <3>2. i \in DOMAIN r /\ r[i] = q[i] BY <1>1, <3>1
    <3> QED BY <3>1, <3>2 DEF Carried
  <2>2. CASE f.tag = "doc" /\ w \in f.writes
    <3>1. Len(q) + 1 \in DOMAIN r BY <1>1
    <3> QED BY <1>1, <2>2, <3>1 DEF Carried
  <2> QED BY <1>3, <2>1, <2>2
<1> QED BY <1>2, <1>3 DEF r

(* Sending an update adds its writes and no other frame.                   *)
LEMMA SendFacts ==
    ASSUME NEW q \in Seq(Frame), NEW W \in Document
    PROVE  /\ Carried(q \o DocFrame(W)) = Carried(q) \cup W
           /\ DOMAIN q \subseteq DOMAIN (q \o DocFrame(W))
           /\ \A i \in DOMAIN q : (q \o DocFrame(W))[i] = q[i]
           /\ \A i \in DOMAIN (q \o DocFrame(W)) :
                 \/ i \in DOMAIN q /\ (q \o DocFrame(W))[i] = q[i]
                 \/ (q \o DocFrame(W))[i].tag = "doc"
<1>1. CASE W = {}
  <2>1. q \o << >> = q OBVIOUS
  <2> QED BY <1>1, <2>1 DEF DocFrame
<1>2. CASE W # {}
  <2> DEFINE f == [tag |-> "doc", writes |-> W]
  <2>1. f \in Frame /\ f.tag = "doc" /\ f.writes = W BY DEF Frame
  <2>2. DocFrame(W) = <<f>> BY <1>2 DEF DocFrame
  <2> HIDE DEF f
  <2>3. q \o <<f>> = Append(q, f) BY <2>1
  <2>4. Carried(Append(q, f)) = Carried(q) \cup W BY <2>1, CarriedFrame
  <2>5. /\ DOMAIN q = 1 .. Len(q) /\ DOMAIN Append(q, f) = 1 .. (Len(q) + 1) /\ Len(q) \in Nat
        /\ Append(q, f)[Len(q) + 1] = f /\ \A i \in 1 .. Len(q) : Append(q, f)[i] = q[i]
    BY <2>1, AppendProperties, LenProperties
  <2>6. DOMAIN q \subseteq DOMAIN Append(q, f) /\ \A i \in DOMAIN q : Append(q, f)[i] = q[i]
    BY <2>5
  <2>7. ASSUME NEW i \in DOMAIN Append(q, f)
        PROVE  \/ i \in DOMAIN q /\ Append(q, f)[i] = q[i]
               \/ Append(q, f)[i].tag = "doc"
    <3>1. CASE i = Len(q) + 1 BY <2>1, <2>5, <3>1
    <3>2. CASE i # Len(q) + 1 BY <2>5, <2>7, <3>2
    <3> QED BY <3>1, <3>2
  <2> QED BY <2>2, <2>3, <2>4, <2>6, <2>7
<1> QED BY <1>1, <1>2

(* Reading takes the writes of the first frame.                            *)
LEMMA ReadFacts ==
    ASSUME NEW q \in Seq(Frame), q # << >>
    PROVE  /\ Carried(q) = (IF Head(q).tag = "doc" THEN Head(q).writes ELSE {}) \cup Carried(Tail(q))
           /\ Head(q) = q[1] /\ 1 \in DOMAIN q /\ Head(q) \in Frame /\ Tail(q) \in Seq(Frame)
           /\ \A i \in DOMAIN Tail(q) : i \in Nat /\ i + 1 \in DOMAIN q /\ Tail(q)[i] = q[i + 1] /\ i + 1 # 1
<1> DEFINE t == Tail(q)
<1>1. /\ t \in Seq(Frame) /\ Head(q) = q[1] /\ Head(q) \in Frame
      /\ DOMAIN q = 1 .. Len(q) /\ Len(q) \in Nat /\ Len(q) >= 1
      /\ DOMAIN t = 1 .. (Len(q) - 1) /\ \A i \in 1 .. (Len(q) - 1) : t[i] = q[i + 1]
  BY HeadTailProperties, LenProperties, EmptySeq
<1> HIDE DEF t
<1>2. \A i \in DOMAIN t : i \in Nat /\ i + 1 \in DOMAIN q /\ t[i] = q[i + 1] /\ i + 1 # 1 BY <1>1
<1>3. \A i \in DOMAIN q : i = 1 \/ (i - 1 \in DOMAIN t /\ t[i - 1] = q[i]) BY <1>1
<1>4. 1 \in DOMAIN q BY <1>1
<1>5. ASSUME NEW w \in Carried(q)
      PROVE  w \in (IF Head(q).tag = "doc" THEN Head(q).writes ELSE {}) \cup Carried(t)
  <2>1. PICK i \in DOMAIN q : q[i].tag = "doc" /\ w \in q[i].writes BY <1>5 DEF Carried
  <2> QED BY <1>1, <1>3, <2>1 DEF Carried
<1>6. ASSUME NEW w \in (IF Head(q).tag = "doc" THEN Head(q).writes ELSE {}) \cup Carried(t)
      PROVE  w \in Carried(q)
  <2>1. CASE w \in Carried(t)
    <3>1. PICK i \in DOMAIN t : t[i].tag = "doc" /\ w \in t[i].writes BY <2>1 DEF Carried
    <3> QED BY <1>2, <3>1 DEF Carried
  <2>2. CASE Head(q).tag = "doc" /\ w \in Head(q).writes
    BY <1>1, <1>4, <2>2 DEF Carried
  <2> QED BY <1>6, <2>1, <2>2
<1> QED BY <1>1, <1>2, <1>4, <1>5, <1>6 DEF t
-----------------------------------------------------------------------------
(* What a tab writes.                                                      *)

(* The tab c adds the writes W to its document, and sends them if it can.  *)
Adds(c, W) ==
    /\ W \in Document
    /\ doc' = [doc EXCEPT ![c] = doc[c] \cup W]
    /\ Forward(c, W)

LEMMA AddsNothing ==
    ASSUME TypeOK, NEW c \in Client, UNCHANGED <<doc, up>>
    PROVE  Adds(c, {})
<1>1. doc \in [Client -> Document] /\ up \in [Client -> Seq(Frame)]
  BY DEF TypeOK, SessionOK, WireOK
<1>2. up[c] \o << >> = up[c] BY <1>1
<1> QED BY <1>1, <1>2, EmptyDocument DEF Adds, Forward, DocFrame

(* An undo writes map entries only.                                        *)
LEMMA UndoWrites ==
    ASSUME IInv, NEW c \in Client, Undo(c)
    PROVE  \E W : Adds(c, W) /\ \A w \in W : w.key \in Key
<1>1. SessionOK /\ doc[c] \in Document /\ undoStack[c] \in Seq(SUBSET Item)
  BY DEF IInv, TypeOK, SessionOK
<1> DEFINE item == undoStack[c][Len(undoStack[c])]
           live == {u \in item : Winner(doc[c], u.write.key) = u.write}
           wr(u) == Write(doc[c], c, u.write.key, u.prev)
           W == {wr(u) : u \in live}
<1>2. /\ doc' = [doc EXCEPT ![c] = doc[c] \cup W] /\ Forward(c, W) /\ undoStack[c] # << >>
  BY DEF Undo
<1>3. item \in SUBSET Item BY <1>1, <1>2
<1>4. Clock(doc[c]) + 1 \in Nat /\ c \in Nat BY <1>1, ClockFacts, ClientAssumption
<1>5. ASSUME NEW u \in live
      PROVE  /\ wr(u) \in Stamped /\ wr(u).at = Clock(doc[c]) + 1 /\ wr(u).by = c
             /\ wr(u).key \in Key
  <2>1. u.write.key \in Key /\ u.prev \in Entries BY <1>3, <1>5 DEF Item, MapWrite
  <2> QED BY <1>4, <2>1 DEF Write, Stamped, MapWrite
<1> HIDE DEF live, wr
<1>6. W \in SUBSET Stamped /\ \A w \in W : w.at = Clock(doc[c]) + 1 /\ w.by = c BY <1>5
<1>7. W \in Document BY <1>4, <1>6, StampDocument
<1>8. \A w \in W : w.key \in Key BY <1>5
<1> HIDE DEF W
<1> QED BY <1>2, <1>7, <1>8 DEF Adds

LEMMA DiffWrites ==
    ASSUME IInv, NEW c \in Client, NEW K \in SUBSET Key, NEW next \in Overlays, NEW shown,
           Transact(c, Diff(doc[c], c, K, next), shown)
    PROVE  \E W : Adds(c, W) /\ \A w \in W : w.key \in Key
<1> DEFINE W == Diff(doc[c], c, K, next)
<1>1. doc[c] \in Document BY DEF IInv, TypeOK, SessionOK
<1>2. next \in [Key -> Entries] BY DEF Overlays, Entries
<1>3. W \in Document BY <1>1, <1>2, DiffFacts, LocalDocument
<1>4. \A w \in W : w.key \in Key BY <1>1, <1>2, WriteFacts DEF Diff
<1>5. doc' = [doc EXCEPT ![c] = doc[c] \cup W] /\ Forward(c, W) BY DEF Transact
<1> HIDE DEF W
<1> QED BY <1>3, <1>4, <1>5 DEF Adds

LEMMA EditWrites ==
    ASSUME IInv, NEW c \in Client, Edit(c)
    PROVE  /\ \E W : Adds(c, W) /\ \A w \in W : w.key \in Key
           /\ UNCHANGED <<transport, gate, viewerMode, down, relay, stale>>
<1>1. Override \in SUBSET Key /\ Key \in SUBSET Key BY DEF Key
<1>2. cache[c] \in Overlays BY DEF IInv, TypeOK, SessionOK, Overlays
<1>3. ASSUME NEW k \in Override, NEW v \in Val, MoveNode(c, k, v)
      PROVE  \E W : Adds(c, W) /\ \A w \in W : w.key \in Key
  <2>1. [cache[c] EXCEPT ![k] = v] \in Overlays BY <1>2 DEF Overlays
  <2> QED BY <1>1, <1>3, <2>1, DiffWrites DEF MoveNode, WriteOverrides
<1>4. ASSUME NEW k \in Style, NEW v \in Val \cup {None}, SetStyle(c, k, v)
      PROVE  \E W : Adds(c, W) /\ \A w \in W : w.key \in Key
  <2> DEFINE next == [cache[c] EXCEPT ![k] = v]
  <2>1. next \in Overlays BY <1>2 DEF Overlays
  <2>2. {k} \in SUBSET Key BY DEF Key
  <2>3. Transact(c, Diff(doc[c], c, {k}, next), next) BY <1>4 DEF SetStyle
  <2> HIDE DEF next
  <2> QED BY <2>1, <2>2, <2>3, DiffWrites
<1>5. ASSUME NEW v \in Val, Replace(c, [k \in Key |-> v])
      PROVE  \E W : Adds(c, W) /\ \A w \in W : w.key \in Key
  <2> DEFINE next == [k \in Key |-> v]
  <2>1. next \in Overlays BY DEF Overlays
  <2>2. Transact(c, Diff(doc[c], c, Key, next), next) BY <1>5 DEF Replace
  <2> HIDE DEF next
  <2> QED BY <1>1, <2>1, <2>2, DiffWrites
<1>6. ASSUME ClearOverrides(c)
      PROVE  \E W : Adds(c, W) /\ \A w \in W : w.key \in Key
  <2>1. Absent \in Overlays BY DEF Absent, Overlays
  <2> QED BY <1>1, <1>6, <2>1, DiffWrites DEF ClearOverrides, WriteOverrides
<1>7. UNCHANGED <<transport, gate, viewerMode, down, relay, stale>>
  BY Zenon DEF Edit, MoveNode, SetStyle, Replace, ClearOverrides, Undo
<1> QED BY <1>3, <1>4, <1>5, <1>6, <1>7, UndoWrites DEF Edit

(* A seed is written where the gate lets it through, and says whose it is. *)
LEMMA SeedWrites ==
    ASSUME IInv, NEW c \in Client, NEW done, NEW connected, NEW granted,
           MaybeSeed(c, done, connected, granted)
    PROVE  \E W : /\ Adds(c, W) /\ \A w \in W : w.by = c
                  /\ W # {} => GateOpen(done, connected, granted)
<1>1. doc[c] \in Document BY DEF IInv, TypeOK, SessionOK
<1>2. CASE GateOpen(done, connected, granted) /\ ~HasText(doc[c])
  <2> DEFINE W == {Write(doc[c], c, "text", c)}
  <2>1. doc' = [doc EXCEPT ![c] = doc[c] \cup W] /\ Forward(c, W)
    BY <1>2 DEF MaybeSeed
  <2>2. W \in Document BY <1>1, SeedFacts
  <2>3. \A w \in W : w.by = c BY DEF Write
  <2> HIDE DEF W
  <2>4. Adds(c, W) BY <2>1, <2>2 DEF Adds
  <2> QED BY <1>2, <2>3, <2>4, Zenon
<1>3. CASE ~(GateOpen(done, connected, granted) /\ ~HasText(doc[c]))
  <2>1. UNCHANGED <<doc, up>> BY <1>3 DEF MaybeSeed
  <2>2. Adds(c, {}) BY <2>1, AddsNothing DEF IInv
  <2> QED BY <2>2, Zenon
<1> QED BY <1>2, <1>3

-----------------------------------------------------------------------------
(* A tab and the room.                                                     *)

(* Nothing of the tab changes but what is on its way to it, while the room *)
(* grows.                                                                  *)
LEMMA TabKept ==
    ASSUME NEW d \in Client, ConnectionOK(d), InFlight(d),
           stopped'[d] = stopped[d], timer'[d] = timer[d], sock'[d] = sock[d],
           up'[d] = up[d], doc'[d] = doc[d],
           Member(d)' = Member(d), CanWrite(d)' = CanWrite(d),
           room \subseteq room', Carried(down'[d]) \subseteq room',
           ~Member(d) => down'[d] = << >>,
           Member(d) => room' \subseteq doc[d] \cup Carried(down'[d])
    PROVE  ConnectionOK(d)' /\ InFlight(d)'
<1>1. ConnectionOK(d)' BY DEF ConnectionOK
<1>2. InFlight(d)'
  <2>1. /\ Carried(up'[d]) \subseteq doc'[d]
        /\ sock'[d] = "open" /\ (CanWrite(d)' \/ ~Member(d)') =>
              doc'[d] \subseteq room' \cup Carried(up'[d])
    BY DEF InFlight
  <2> QED BY <2>1 DEF InFlight, Carried
<1> QED BY <1>1, <1>2

(* The tab writes W, while the room rests.                                 *)
LEMMA TabAdds ==
    ASSUME IInv, NEW c \in Client, ConnectionOK(c), InFlight(c), NEW W, Adds(c, W),
           stopped'[c] = stopped[c], timer'[c] = timer[c], sock'[c] = sock[c],
           Member(c)' = Member(c), CanWrite(c)' = CanWrite(c), room' = room,
           Carried(down'[c]) = Carried(down[c]), ~Member(c) => down'[c] = << >>
    PROVE  ConnectionOK(c)' /\ InFlight(c)'
<1>1. doc \in [Client -> Document] /\ up \in [Client -> Seq(Frame)]
  BY DEF IInv, TypeOK, SessionOK, WireOK
<1>2. doc'[c] = doc[c] \cup W /\ W \in Document BY <1>1 DEF Adds
<1>3. CASE sock[c] = "open"
  <2>1. up'[c] = up[c] \o DocFrame(W) /\ up[c] \in Seq(Frame) BY <1>1, <1>3 DEF Adds, Forward
  <2>2. Carried(up'[c]) = Carried(up[c]) \cup W BY <1>2, <2>1, SendFacts
  <2>3. \A i \in DOMAIN up'[c] : up'[c][i].tag = "auth" => i \in DOMAIN up[c] /\ up'[c][i] = up[c][i]
    BY <1>2, <2>1, SendFacts
  <2>a. \A i \in DOMAIN up[c] : i \in DOMAIN up'[c] /\ up'[c][i] = up[c][i]
    BY <1>2, <2>1, SendFacts
  <2>4. ConnectionOK(c)' BY <1>3, <2>3, <2>a DEF ConnectionOK
  <2>5. /\ Carried(up'[c]) \subseteq doc'[c] /\ Carried(down'[c]) \subseteq room'
        /\ CanWrite(c)' \/ ~Member(c)' => doc'[c] \subseteq room' \cup Carried(up'[c])
        /\ Member(c)' => room' \subseteq doc'[c] \cup Carried(down'[c])
    BY <1>2, <1>3, <2>2 DEF InFlight
  <2>6. InFlight(c)' BY <2>5 DEF InFlight, Carried
  <2> QED BY <2>4, <2>6
<1>4. CASE sock[c] # "open"
  <2>1. up' = up BY <1>4 DEF Adds, Forward
  <2>2. ConnectionOK(c)' BY <1>4, <2>1 DEF ConnectionOK
  <2>3. /\ Carried(up'[c]) \subseteq doc'[c] /\ Carried(down'[c]) \subseteq room'
        /\ sock'[c] # "open" /\ ~Member(c)'
    BY <1>2, <1>4, <2>1 DEF InFlight, ConnectionOK
  <2>4. InFlight(c)' BY <2>3 DEF InFlight, Carried
  <2> QED BY <2>2, <2>4
<1> QED BY <1>3, <1>4

(* A tab with nothing in flight and no connection.                         *)
LEMMA TabApart ==
    ASSUME NEW c \in Client, up'[c] = << >>, down'[c] = << >>, ~Member(c)', sock'[c] # "open",
           stopped'[c] \/ timer'[c] => sock'[c] = "closed"
    PROVE  ConnectionOK(c)' /\ InFlight(c)'
<1>1. ConnectionOK(c)' BY DEF ConnectionOK
<1>2. Carried(up'[c]) = {} /\ Carried(down'[c]) = {} BY CarriedNone
<1>3. InFlight(c)' BY <1>2 DEF InFlight, Carried
<1> QED BY <1>1, <1>3
-----------------------------------------------------------------------------
(* A tab has what the room has, or it is on its way.                       *)

LEMMA MembersRest ==
    ASSUME members' = members
    PROVE  \A c \in Client : Member(c)' = Member(c) /\ CanWrite(c)' = CanWrite(c)
BY DEF Member, CanWrite

(* Everything but one tab, and what is on its way to it, rests.            *)
LEMMA AddsConverges ==
    ASSUME IInv, ConvergeInv, NEW c \in Client, NEW W, Adds(c, W),
           UNCHANGED <<transport, room, members>>,
           \A d \in Client : /\ Carried(down'[d]) = Carried(down[d])
                             /\ ~Member(d) => down'[d] = << >>
    PROVE  ConvergeInv'
<1>1. doc \in [Client -> Document] /\ up \in [Client -> Seq(Frame)]
  BY DEF IInv, TypeOK, SessionOK, WireOK
<1>2. stopped' = stopped /\ timer' = timer /\ sock' = sock BY DEF transport
<1>3. \A d \in Client : Member(d)' = Member(d) /\ CanWrite(d)' = CanWrite(d) BY MembersRest
<1>4. ConnectionOK(c)' /\ InFlight(c)' BY <1>2, <1>3, TabAdds DEF ConvergeInv
<1>5. ASSUME NEW d \in Client \ {c} PROVE ConnectionOK(d)' /\ InFlight(d)'
  <2>1. doc'[d] = doc[d] /\ up'[d] = up[d] BY <1>1 DEF Adds, Forward
  <2>2. ConnectionOK(d) /\ InFlight(d) BY DEF ConvergeInv
  <2>3. Carried(down[d]) \subseteq room /\ (Member(d) => room \subseteq doc[d] \cup Carried(down[d]))
    BY <2>2 DEF InFlight
  <2> QED BY <1>2, <1>3, <2>1, <2>2, <2>3, TabKept
<1> QED BY <1>4, <1>5 DEF ConvergeInv

LEMMA EditConverges ==
    ASSUME IInv, ConvergeInv, NEW c \in Client, Edit(c)
    PROVE  ConvergeInv'
<1>1. PICK W : Adds(c, W) BY EditWrites
<1>2. UNCHANGED <<transport, down, relay>> BY EditWrites
<1>3. \A d \in Client : ~Member(d) => down[d] = << >> BY DEF ConvergeInv, ConnectionOK
<1> QED BY <1>1, <1>2, <1>3, AddsConverges DEF relay

LEMMA SeedTimerConverges ==
    ASSUME IInv, ConvergeInv, NEW c \in Client, SeedTimer(c)
    PROVE  ConvergeInv'
<1>1. PICK W : Adds(c, W) BY SeedWrites DEF SeedTimer
<1>2. UNCHANGED <<transport, down, relay>> BY DEF SeedTimer
<1>3. \A d \in Client : ~Member(d) => down[d] = << >> BY DEF ConvergeInv, ConnectionOK
<1> QED BY <1>1, <1>2, <1>3, AddsConverges DEF relay

LEMMA ReceiveConverges ==
    ASSUME IInv, ConvergeInv, NEW c \in Client, Receive(c)
    PROVE  ConvergeInv'
<1> DEFINE frame == Head(down[c])
<1>1. /\ down \in [Client -> Seq(Frame)] /\ doc \in [Client -> Document]
      /\ down[c] # << >> /\ down[c] \in Seq(Frame)
  BY DEF Receive, IInv, TypeOK, WireOK, SessionOK
<1>2. /\ Carried(down[c]) = (IF frame.tag = "doc" THEN frame.writes ELSE {})
                            \cup Carried(Tail(down[c]))
      /\ frame \in Frame
  BY <1>1, ReadFacts
<1>3. /\ down' = [down EXCEPT ![c] = Tail(@)] /\ UNCHANGED <<transport, room, members>>
  BY DEF Receive, relay
<1>4. down'[c] = Tail(down[c]) /\ \A d \in Client \ {c} : down'[d] = down[d] BY <1>1, <1>3
<1>5. Member(c) /\ \A d \in Client : ~Member(d) => down'[d] = << >>
  BY <1>1, <1>4 DEF ConvergeInv, ConnectionOK
<1> HIDE DEF frame
<1>6. ASSUME frame.tag # "doc", NEW W, Adds(c, W) PROVE ConvergeInv'
  <2>1. \A d \in Client : Carried(down'[d]) = Carried(down[d]) BY <1>2, <1>4, <1>6
  <2> QED BY <1>3, <1>5, <1>6, <2>1, AddsConverges
<1>7. CASE frame.tag = "doc" /\ Integrate(c, frame.writes) /\ UNCHANGED up
  <2>1. doc'[c] = doc[c] \cup frame.writes BY <1>1, <1>7 DEF Integrate
  <2>2. \A d \in Client \ {c} : doc'[d] = doc[d] BY <1>1, <1>7 DEF Integrate
  <2>3. stopped' = stopped /\ timer' = timer /\ sock' = sock /\ up' = up /\ room' = room
    BY <1>3, <1>7 DEF transport
  <2>4. \A d \in Client : Member(d)' = Member(d) /\ CanWrite(d)' = CanWrite(d)
    BY <1>3, MembersRest
  <2>5. \A d \in Client : ConnectionOK(d) /\ InFlight(d) BY DEF ConvergeInv
  <2>6. ASSUME NEW d \in Client \ {c} PROVE ConnectionOK(d)' /\ InFlight(d)'
    <3>1. Carried(down[d]) \subseteq room /\ (Member(d) => room \subseteq doc[d] \cup Carried(down[d]))
      BY <2>5 DEF InFlight
    <3> QED BY <1>4, <1>5, <2>2, <2>3, <2>4, <2>5, <3>1, TabKept
  <2>7. ConnectionOK(c)' BY <1>5, <2>3, <2>4, <2>5 DEF ConnectionOK
  <2>8. Carried(down[c]) = frame.writes \cup Carried(down'[c]) BY <1>2, <1>4, <1>7
  <2>9. /\ Carried(up'[c]) \subseteq doc'[c] /\ Carried(down'[c]) \subseteq room'
        /\ sock'[c] = "open" /\ (CanWrite(c)' \/ ~Member(c)') =>
              doc'[c] \subseteq room' \cup Carried(up'[c])
        /\ Member(c)' => room' \subseteq doc'[c] \cup Carried(down'[c])
    BY <2>1, <2>3, <2>4, <2>5, <2>8 DEF InFlight
  <2>10. InFlight(c)' BY <2>9 DEF InFlight, Carried
  <2> QED BY <2>6, <2>7, <2>10 DEF ConvergeInv
<1>8. CASE frame.tag = "seed" /\ MaybeSeed(c, seedTimerDone[c], transportConnected[c], TRUE)
  <2>1. PICK W : Adds(c, W) BY <1>8, SeedWrites
  <2> QED BY <1>6, <1>8, <2>1
<1>9. CASE frame.tag = "role" /\ UNCHANGED <<session, up>>
  <2>1. Adds(c, {}) BY <1>9, AddsNothing DEF IInv, session
  <2> QED BY <1>6, <1>9, <2>1
<1> QED BY <1>7, <1>8, <1>9 DEF Receive, frame

(* Whoever loses a connection, the others keep theirs; at most one of them *)
(* is told to seed.                                                        *)
LEMMA LostMoves ==
    ASSUME IInv, NEW c \in Client, Lost(c)
    PROVE  /\ up'[c] = << >> /\ down'[c] = << >> /\ ~Member(c)' /\ room' = room
           /\ \A d \in Client \ {c} :
                 /\ up'[d] = up[d] /\ Member(d)' = Member(d) /\ CanWrite(d)' = CanWrite(d)
                 /\ \/ down'[d] = down[d]
                    \/ /\ Member(d) /\ seeder = c /\ seeder' = d
                       /\ down'[d] = Append(down[d], [tag |-> "seed"])
<1>1. /\ up \in [Client -> Seq(Frame)] /\ down \in [Client -> Seq(Frame)]
      /\ members \subseteq [client : Client, role : Role]
  BY DEF IInv, TypeOK, WireOK, RelayOK
<1>2. up' = [up EXCEPT ![c] = << >>] /\ members' = Without(c) /\ room' = room BY DEF Lost
<1>3. ~Member(c)' BY <1>2 DEF Member, Without
<1>4. \A d \in Client \ {c} : Member(d)' = Member(d) /\ CanWrite(d)' = CanWrite(d)
  BY <1>2 DEF Member, CanWrite, Without
<1>5. /\ down'[c] = << >>
      /\ \A d \in Client \ {c} : \/ down'[d] = down[d]
                                \/ /\ Member(d) /\ seeder = c /\ seeder' = d
                                   /\ down'[d] = Append(down[d], [tag |-> "seed"])
  <2>1. CASE down' = [down EXCEPT ![c] = << >>] BY <1>1, <2>1
  <2>2. ASSUME NEW m \in Without(c), seeder = c, seeder' = m.client,
               down' = [down EXCEPT ![c] = << >>, ![m.client] = Append(@, [tag |-> "seed"])]
        PROVE  /\ down'[c] = << >>
               /\ \A d \in Client \ {c} : \/ down'[d] = down[d]
                                         \/ /\ Member(d) /\ seeder = c /\ seeder' = d
                                            /\ down'[d] = Append(down[d], [tag |-> "seed"])
    <3>1. m.client \in Client /\ m.client # c /\ m \in members BY <1>1, <2>2 DEF Without
    <3>2. Member(m.client) BY <3>1 DEF Member
    <3> QED BY <1>1, <2>2, <3>1, <3>2
  <2> QED BY <2>1, <2>2 DEF Lost
<1> QED BY <1>1, <1>2, <1>3, <1>4, <1>5

LEMMA LostConverges ==
    ASSUME IInv, ConvergeInv, NEW c \in Client, Lost(c), sock' = [sock EXCEPT ![c] = "closed"],
           \A d \in Client \ {c} : /\ stopped'[d] = stopped[d] /\ timer'[d] = timer[d]
                                   /\ doc'[d] = doc[d]
    PROVE  ConvergeInv'
<1>1. sock \in [Client -> {"connecting", "open", "closed"}] BY DEF IInv, TypeOK, TransportOK
<1>2. ConnectionOK(c)' /\ InFlight(c)' BY <1>1, LostMoves, TabApart
<1>3. ASSUME NEW d \in Client \ {c} PROVE ConnectionOK(d)' /\ InFlight(d)'
  <2>1. ConnectionOK(d) /\ InFlight(d) BY DEF ConvergeInv
  <2>2. down[d] \in Seq(Frame) /\ [tag |-> "seed"] \in Frame
    BY DEF IInv, TypeOK, WireOK, Frame
  <2>3. Carried(Append(down[d], [tag |-> "seed"])) = Carried(down[d]) BY <2>2, CarriedFrame
  <2>4. Carried(down'[d]) = Carried(down[d]) /\ (~Member(d) => down'[d] = down[d])
    BY <2>3, LostMoves
  <2>5. /\ Carried(down[d]) \subseteq room /\ (Member(d) => room \subseteq doc[d] \cup Carried(down[d]))
        /\ ~Member(d) => down[d] = << >>
    BY <2>1 DEF InFlight, ConnectionOK
  <2>6. /\ up'[d] = up[d] /\ Member(d)' = Member(d) /\ CanWrite(d)' = CanWrite(d)
        /\ room' = room /\ sock'[d] = sock[d]
    BY <1>1, LostMoves
  <2> QED BY <2>1, <2>4, <2>5, <2>6, TabKept
<1> QED BY <1>2, <1>3 DEF ConvergeInv
(* One tab does something without the relay noticing.                      *)
LEMMA OthersRest ==
    ASSUME ConvergeInv, NEW d \in Client, UNCHANGED <<room, members>>,
           up'[d] = up[d], down'[d] = down[d], doc'[d] = doc[d],
           stopped'[d] = stopped[d], timer'[d] = timer[d], sock'[d] = sock[d]
    PROVE  ConnectionOK(d)' /\ InFlight(d)'
<1>1. ConnectionOK(d) /\ InFlight(d) BY DEF ConvergeInv
<1>2. Member(d)' = Member(d) /\ CanWrite(d)' = CanWrite(d) BY MembersRest
<1>3. /\ Carried(down[d]) \subseteq room /\ (Member(d) => room \subseteq doc[d] \cup Carried(down[d]))
      /\ ~Member(d) => down[d] = << >>
  BY <1>1 DEF InFlight, ConnectionOK
<1> QED BY <1>1, <1>2, <1>3, TabKept

LEMMA ReconnectMoves ==
    ASSUME IInv, NEW c \in Client,
           Reconnect(c) \/ (Stop(c) /\ Surface(c) /\ UNCHANGED timer)
    PROVE  \A d \in Client \ {c} : /\ stopped'[d] = stopped[d] /\ timer'[d] = timer[d]
                                   /\ doc'[d] = doc[d]
<1>1. /\ stopped \in [Client -> BOOLEAN] /\ timer \in [Client -> BOOLEAN]
      /\ doc \in [Client -> Document]
  BY DEF IInv, TypeOK, TransportOK, SessionOK
<1>2. /\ stopped' = stopped \/ stopped' = [stopped EXCEPT ![c] = TRUE]
      /\ timer' = timer \/ timer' = [timer EXCEPT ![c] = TRUE]
      /\ \/ doc' = doc
         \/ doc' = [doc EXCEPT ![c] = @ \cup {Write(doc[c], c, "text", c)}]
  BY Zenon DEF Reconnect, Stop, Surface
<1> QED BY <1>1, <1>2

LEMMA SocketOpensConverges ==
    ASSUME IInv, ConvergeInv, NEW c \in Client, SocketOpens(c)
    PROVE  ConvergeInv'
<1>1. /\ sock \in [Client -> {"connecting", "open", "closed"}] /\ up \in [Client -> Seq(Frame)]
      /\ doc[c] \in Document
  BY DEF IInv, TypeOK, TransportOK, WireOK, SessionOK
<1>2. /\ sock[c] = "connecting" /\ sock'[c] = "open" /\ up'[c] = StateFrames(c)
      /\ \A d \in Client \ {c} : sock'[d] = sock[d] /\ up'[d] = up[d]
      /\ UNCHANGED <<stopped, timer, doc, down, room, members>>
  BY <1>1 DEF SocketOpens, session, relay
<1>3. \A d \in Client \ {c} : ConnectionOK(d)' /\ InFlight(d)' BY <1>2, OthersRest
<1>4. ~stopped[c] /\ ~timer[c] /\ ~Member(c) /\ down[c] = << >>
  BY <1>2 DEF ConvergeInv, ConnectionOK
<1>5. Member(c)' = Member(c) /\ CanWrite(c)' = CanWrite(c) BY <1>2, MembersRest
<1> DEFINE hi == << [tag |-> "auth"] >>
<1>6. hi \in Seq(Frame) /\ Carried(hi) = {} /\ DOMAIN hi = {1} /\ hi[1].tag = "auth"
  <2>1. [tag |-> "auth"] \in Frame /\ << >> \in Seq(Frame) BY DEF Frame
  <2>2. Carried(Append(<< >>, [tag |-> "auth"])) = {} BY <2>1, CarriedFrame, CarriedNone
  <2> QED BY <2>1, <2>2
<1>7. up'[c] = hi \o DocFrame(doc[c]) BY <1>2 DEF StateFrames
<1> HIDE DEF hi
<1>8. /\ Carried(up'[c]) = doc[c]
      /\ \A i \in DOMAIN up'[c] : up'[c][i].tag = "auth" => i = 1
      /\ 1 \in DOMAIN up'[c] /\ up'[c][1].tag = "auth"
  <2>1. hi \in Seq(Frame) /\ doc[c] \in Document BY <1>1, <1>6
  <2>2. /\ Carried(hi \o DocFrame(doc[c])) = Carried(hi) \cup doc[c]
        /\ DOMAIN hi \subseteq DOMAIN (hi \o DocFrame(doc[c]))
        /\ \A i \in DOMAIN hi : (hi \o DocFrame(doc[c]))[i] = hi[i]
        /\ \A i \in DOMAIN (hi \o DocFrame(doc[c])) :
              i \in DOMAIN hi \/ (hi \o DocFrame(doc[c]))[i].tag = "doc"
    <3> DEFINE D == doc[c]
    <3>1. D \in Document BY <2>1
    <3> HIDE DEF D
    <3>2. Carried(hi \o DocFrame(D)) = Carried(hi) \cup D BY <2>1, <3>1, SendFacts
    <3>3. /\ DOMAIN hi \subseteq DOMAIN (hi \o DocFrame(D))
          /\ \A i \in DOMAIN hi : (hi \o DocFrame(D))[i] = hi[i]
      BY <2>1, <3>1, SendFacts
    <3>4. \A i \in DOMAIN (hi \o DocFrame(D)) :
             i \in DOMAIN hi \/ (hi \o DocFrame(D))[i].tag = "doc"
      BY <2>1, <3>1, SendFacts
    <3> QED BY <3>2, <3>3, <3>4 DEF D
  <2>3. Carried(up'[c]) = doc[c] BY <1>6, <1>7, <2>2
  <2>4. \A i \in DOMAIN up'[c] : i \in DOMAIN hi \/ up'[c][i].tag = "doc" BY <1>7, <2>2
  <2>5. 1 \in DOMAIN up'[c] /\ up'[c][1] = hi[1] BY <1>6, <1>7, <2>2
  <2> QED BY <1>6, <2>3, <2>4, <2>5
<1>9. ConnectionOK(c)' BY <1>2, <1>4, <1>5, <1>8 DEF ConnectionOK
<1>10. Carried(down'[c]) = {} BY <1>2, <1>4, CarriedNone
<1>11. InFlight(c)' BY <1>2, <1>4, <1>5, <1>8, <1>10 DEF InFlight, Carried
<1> QED BY <1>3, <1>9, <1>11 DEF ConvergeInv

LEMMA NetworkConverges ==
    ASSUME IInv, ConvergeInv, NEW c \in Client, Network(c)
    PROVE  ConvergeInv'
<1>1. /\ sock \in [Client -> {"connecting", "open", "closed"}]
      /\ stopped \in [Client -> BOOLEAN] /\ timer \in [Client -> BOOLEAN]
  BY DEF IInv, TypeOK, TransportOK
<1>2. ConnectionOK(c) BY DEF ConvergeInv
<1>3. CASE Drop(c)
  <2>1. Lost(c) /\ Reconnect(c) /\ sock' = [sock EXCEPT ![c] = "closed"] BY <1>3 DEF Drop
  <2> QED BY <2>1, ReconnectMoves, LostConverges
<1>4. CASE Rejected(c)
  <2>1. /\ Lost(c) /\ Stop(c) /\ Surface(c) /\ UNCHANGED timer
        /\ sock' = [sock EXCEPT ![c] = "closed"]
    BY <1>4 DEF Rejected
  <2> QED BY <2>1, ReconnectMoves, LostConverges
<1>5. CASE Disconnect(c)
  <2>1. /\ Lost(c) /\ sock' = [sock EXCEPT ![c] = "closed"] /\ UNCHANGED <<doc, timer>>
        /\ \A d \in Client \ {c} : stopped'[d] = stopped[d]
    BY <1>1, <1>5 DEF Disconnect, Stop, session
  <2> QED BY <2>1, LostConverges
<1>6. CASE ConnectFails(c)
  <2>1. /\ UNCHANGED <<up, down, room, members>> /\ Reconnect(c)
        /\ sock[c] = "connecting" /\ sock' = [sock EXCEPT ![c] = "closed"]
    BY <1>6 DEF ConnectFails, relay
  <2>2. \A d \in Client \ {c} : ConnectionOK(d)' /\ InFlight(d)'
    BY <1>1, <2>1, ReconnectMoves, OthersRest
  <2>3. /\ up'[c] = << >> /\ down'[c] = << >> /\ ~Member(c)' /\ sock'[c] = "closed"
    BY <1>1, <1>2, <2>1, MembersRest DEF ConnectionOK
  <2>4. ConnectionOK(c)' /\ InFlight(c)' BY <2>3, TabApart
  <2> QED BY <2>2, <2>4 DEF ConvergeInv
<1>7. CASE RetryFires(c)
  <2>1. /\ UNCHANGED <<up, down, room, members, doc, stopped>> /\ timer[c]
        /\ timer' = [timer EXCEPT ![c] = FALSE] /\ sock' = Retried(c)
    BY <1>7 DEF RetryFires, relay, session
  <2>2. sock[c] = "closed" BY <1>2, <2>1 DEF ConnectionOK
  <2>3. \A d \in Client \ {c} : ConnectionOK(d)' /\ InFlight(d)'
    BY <1>1, <2>1, OthersRest DEF Retried
  <2>4. sock'[c] # "open" /\ (stopped'[c] \/ timer'[c] => sock'[c] = "closed")
    BY <1>1, <2>1, <2>2 DEF Retried
  <2>5. up'[c] = << >> /\ down'[c] = << >> /\ ~Member(c)'
    BY <1>2, <2>1, <2>2, MembersRest DEF ConnectionOK
  <2>6. ConnectionOK(c)' /\ InFlight(c)' BY <2>4, <2>5, TabApart
  <2> QED BY <2>3, <2>6 DEF ConvergeInv
<1> QED BY <1>3, <1>4, <1>5, <1>6, <1>7, SocketOpensConverges DEF Network

(* The relay reads an AUTH frame: the state it answers with is all of the  *)
(* room, and what the tab has besides is behind the AUTH frame.            *)
LEMMA AdmitConverges ==
    ASSUME IInv, ConvergeInv, NEW c \in Client, Admit(c)
    PROVE  ConvergeInv'
<1> DEFINE grants == room = {} /\ seeder = None
           grant == IF grants THEN << [tag |-> "seed"] >> ELSE << >>
           head(r) == << [tag |-> "role", role |-> r] >>
<1>1. PICK r \in Role : /\ members' = members \cup {[client |-> c, role |-> r]}
                        /\ down' = [down EXCEPT ![c] = head(r) \o grant \o DocFrame(room)]
  BY DEF Admit
<1>2. /\ up \in [Client -> Seq(Frame)] /\ down \in [Client -> Seq(Frame)] /\ room \in Document
      /\ up[c] # << >> /\ Head(up[c]).tag = "auth"
      /\ up' = [up EXCEPT ![c] = Tail(@)] /\ room' = room
      /\ UNCHANGED <<transport, doc>>
  BY DEF Admit, IInv, TypeOK, WireOK, RelayOK, session
<1>3. ConnectionOK(c) /\ InFlight(c) BY DEF ConvergeInv
<1>4. /\ Carried(up[c]) = Carried(Tail(up[c])) /\ up[c][1].tag = "auth" /\ 1 \in DOMAIN up[c]
      /\ \A i \in DOMAIN Tail(up[c]) : Tail(up[c])[i].tag # "auth"
  <2>1. up[c] \in Seq(Frame) BY <1>2
  <2>2. \A i \in DOMAIN up[c] : up[c][i].tag = "auth" => i = 1 BY <1>3 DEF ConnectionOK
  <2> QED BY <1>2, <2>1, <2>2, ReadFacts
<1>5. ~Member(c) /\ sock[c] = "open" BY <1>2, <1>3, <1>4 DEF ConnectionOK
<1>6. Member(c)'
  <2>1. [client |-> c, role |-> r] \in members' BY <1>1
  <2> QED BY <2>1 DEF Member
<1>7. head(r) \o grant \in Seq(Frame) /\ Carried(head(r) \o grant) = {}
  <2> DEFINE f == [tag |-> "role", role |-> r]
             g == [tag |-> "seed"]
  <2>1. f \in Frame /\ g \in Frame /\ f.tag # "doc" /\ g.tag # "doc" /\ << >> \in Seq(Frame)
    BY DEF Frame
  <2> HIDE DEF f, g
  <2>2. /\ Append(<< >>, f) \in Seq(Frame) /\ Append(<< >>, f) = << f >>
        /\ Append(<< f >>, g) = << f >> \o << g >> /\ << f >> \o << >> = << f >>
    BY <2>1
  <2>3. Carried(<< f >>) = {} BY <2>1, <2>2, CarriedFrame, CarriedNone
  <2>4. Carried(<< f >> \o << g >>) = {} BY <2>1, <2>2, <2>3, CarriedFrame
  <2>5. << f >> \o << g >> \in Seq(Frame) BY <2>1
  <2> QED BY <2>2, <2>3, <2>4, <2>5 DEF f, g
<1>8. Carried(down'[c]) = room
  <2> DEFINE h == head(r) \o grant
  <2>1. down'[c] = h \o DocFrame(room) /\ h \in Seq(Frame) /\ Carried(h) = {}
    BY <1>1, <1>2, <1>7
  <2> HIDE DEF h
  <2>2. Carried(h \o DocFrame(room)) = Carried(h) \cup room BY <1>2, <2>1, SendFacts
  <2> QED BY <2>1, <2>2
<1> HIDE DEF head, grant
<1>9. ConnectionOK(c)' BY <1>2, <1>3, <1>4, <1>5, <1>6 DEF ConnectionOK, transport
<1>10. /\ Carried(up'[c]) \subseteq doc'[c] /\ Carried(down'[c]) \subseteq room'
       /\ doc'[c] \subseteq room' \cup Carried(up'[c])
       /\ room' \subseteq doc'[c] \cup Carried(down'[c])
  BY <1>2, <1>3, <1>4, <1>5, <1>8 DEF InFlight
<1>11. InFlight(c)' BY <1>10 DEF InFlight, Carried
<1>12. ASSUME NEW d \in Client \ {c} PROVE ConnectionOK(d)' /\ InFlight(d)'
  <2>1. ConnectionOK(d) /\ InFlight(d) BY DEF ConvergeInv
  <2>2. up'[d] = up[d] /\ down'[d] = down[d] /\ doc' = doc BY <1>1, <1>2
  <2>3. stopped' = stopped /\ timer' = timer /\ sock' = sock BY <1>2 DEF transport
  <2>4. Member(d)' = Member(d) /\ CanWrite(d)' = CanWrite(d)
    BY <1>1 DEF Member, CanWrite
  <2>5. /\ Carried(down[d]) \subseteq room /\ (Member(d) => room \subseteq doc[d] \cup Carried(down[d]))
        /\ ~Member(d) => down[d] = << >>
    BY <2>1 DEF InFlight, ConnectionOK
  <2> QED BY <1>2, <2>1, <2>2, <2>3, <2>4, <2>5, TabKept
<1> QED BY <1>9, <1>11, <1>12 DEF ConvergeInv

(* The room and every member but the sender get the writes W.              *)
LEMMA BroadcastKeeps ==
    ASSUME IInv, ConvergeInv, NEW W \in Document, NEW from, Broadcast(W, from),
           room' = room \cup W, UNCHANGED <<transport, doc, members>>,
           NEW d \in Client, d # from, up'[d] = up[d]
    PROVE  ConnectionOK(d)' /\ InFlight(d)'
<1>1. ConnectionOK(d) /\ InFlight(d) BY DEF ConvergeInv
<1>2. down'[d] = IF Member(d) THEN down[d] \o DocFrame(W) ELSE down[d] BY DEF Broadcast
<1>3. down[d] \in Seq(Frame) BY DEF IInv, TypeOK, WireOK
<1>4. Carried(down[d] \o DocFrame(W)) = Carried(down[d]) \cup W BY <1>3, SendFacts
<1>5. /\ ~Member(d) => down[d] = << >>
      /\ Carried(down[d]) \subseteq room /\ (Member(d) => room \subseteq doc[d] \cup Carried(down[d]))
  BY <1>1 DEF ConnectionOK, InFlight
<1>6. /\ Carried(down'[d]) \subseteq room'
      /\ ~Member(d) => down'[d] = << >>
      /\ Member(d) => room' \subseteq doc[d] \cup Carried(down'[d])
  BY <1>2, <1>4, <1>5
<1>7. Member(d)' = Member(d) /\ CanWrite(d)' = CanWrite(d) BY MembersRest
<1>8. stopped' = stopped /\ timer' = timer /\ sock' = sock BY DEF transport
<1> QED BY <1>1, <1>6, <1>7, <1>8, TabKept

LEMMA HandleConverges ==
    ASSUME IInv, ConvergeInv, NEW c \in Client, Handle(c)
    PROVE  ConvergeInv'
<1> DEFINE W == Head(up[c]).writes
<1>1. /\ up \in [Client -> Seq(Frame)] /\ up[c] # << >> /\ up[c] \in Seq(Frame)
      /\ Head(up[c]).tag = "doc" /\ up' = [up EXCEPT ![c] = Tail(@)]
      /\ down \in [Client -> Seq(Frame)]
  BY DEF Handle, IInv, TypeOK, WireOK
<1>2. /\ Carried(up[c]) = W \cup Carried(Tail(up[c])) /\ Head(up[c]) \in Frame
      /\ \A i \in DOMAIN Tail(up[c]) : i + 1 \in DOMAIN up[c] /\ Tail(up[c])[i] = up[c][i + 1]
                                       /\ i + 1 # 1
  BY <1>1, ReadFacts
<1>3. W \in Document BY <1>1, <1>2 DEF Frame
<1>4. ConnectionOK(c) /\ InFlight(c) BY DEF ConvergeInv
<1>5. sock[c] = "open" BY <1>1, <1>4 DEF ConnectionOK
<1>6. Member(c)
  <2>1. up[c][1].tag = "doc" BY <1>1, ReadFacts
  <2> QED BY <1>4, <1>5, <2>1 DEF ConnectionOK
<1>7. UNCHANGED <<transport, doc, members>> BY DEF Handle, session
<1>8. Member(c)' = Member(c) /\ CanWrite(c)' = CanWrite(c) BY <1>7, MembersRest
<1>9. /\ CanWrite(c) => room' = room \cup W /\ Broadcast(W, c)
      /\ ~CanWrite(c) => room' = room /\ down' = down
  BY DEF Handle
<1> HIDE DEF W
<1>10. ConnectionOK(c)'
  <2>1. \A i \in DOMAIN up'[c] : up'[c][i].tag # "auth" BY <1>1, <1>2, <1>4 DEF ConnectionOK
  <2> QED BY <1>4, <1>5, <1>6, <1>7, <1>8, <2>1 DEF ConnectionOK, transport
<1>11. down'[c] = down[c] BY <1>9 DEF Broadcast
<1>12. up'[c] = Tail(up[c]) BY <1>1
<1>13. Carried(up[c]) = W \cup Carried(up'[c]) BY <1>2, <1>12
<1>14. /\ Carried(up'[c]) \subseteq doc'[c] /\ Carried(down'[c]) \subseteq room'
       /\ CanWrite(c)' => doc'[c] \subseteq room' \cup Carried(up'[c])
       /\ Member(c)' => room' \subseteq doc'[c] \cup Carried(down'[c])
  BY <1>4, <1>5, <1>6, <1>7, <1>8, <1>9, <1>11, <1>13 DEF InFlight
<1>15. InFlight(c)' BY <1>6, <1>8, <1>14 DEF InFlight, Carried
<1>16. ASSUME NEW d \in Client \ {c} PROVE ConnectionOK(d)' /\ InFlight(d)'
  <2>1. up'[d] = up[d] BY <1>1
  <2>2. CASE CanWrite(c) BY <1>3, <1>7, <1>9, <2>1, <2>2, BroadcastKeeps
  <2>3. CASE ~CanWrite(c)
    <3>1. stopped' = stopped /\ timer' = timer /\ sock' = sock BY <1>7 DEF transport
    <3> QED BY <1>7, <1>9, <2>1, <2>3, <3>1, OthersRest
  <2> QED BY <2>2, <2>3
<1> QED BY <1>10, <1>15, <1>16 DEF ConvergeInv

LEMMA ForeignConverges ==
    ASSUME IInv, ConvergeInv, NEW k \in Key, NEW v \in Val \cup {Corrupt}, ForeignWrite(k, v)
    PROVE  ConvergeInv'
<1> DEFINE W == {Write(room, 0, k, v)}
<1>1. room' = room \cup W /\ Broadcast(W, 0) /\ UNCHANGED <<transport, doc, members, up>>
  BY DEF ForeignWrite, session
<1>2. room \in Document BY DEF IInv, TypeOK, RelayOK
<1>3. W \in Document
  <2> DEFINE w == Write(room, 0, k, v)
  <2>1. w \in Stamped /\ w.at = Clock(room) + 1 BY <1>2, WriteFacts DEF Entries
  <2> HIDE DEF w
  <2>2. Local(room, {w}) BY <2>1 DEF Local
  <2> QED BY <1>2, <2>2, LocalDocument DEF w
<1> HIDE DEF W
<1>4. \A d \in Client : d # 0 BY ClientAssumption
<1>5. \A d \in Client : ConnectionOK(d)' /\ InFlight(d)' BY <1>1, <1>3, <1>4, BroadcastKeeps
<1> QED BY <1>5 DEF ConvergeInv

LEMMA InitConverges == Init => ConvergeInv
<1> SUFFICES ASSUME Init, NEW c \in Client PROVE ConnectionOK(c) /\ InFlight(c)
  BY DEF ConvergeInv
<1>1. ~Member(c) /\ sock[c] # "open" BY DEF Init, Member
<1>2. Carried(up[c]) = {} /\ Carried(down[c]) = {} BY CarriedNone DEF Init
<1> QED BY <1>1, <1>2 DEF Init, ConnectionOK, InFlight

LEMMA NextConverges == IInv /\ ConvergeInv /\ [Next]_vars => ConvergeInv'
<1> SUFFICES ASSUME IInv, ConvergeInv, [Next]_vars PROVE ConvergeInv' OBVIOUS
<1>1. ASSUME NEW c \in Client, Edit(c) PROVE ConvergeInv' BY <1>1, EditConverges
<1>2. ASSUME NEW c \in Client, Network(c) PROVE ConvergeInv' BY <1>2, NetworkConverges
<1>3. ASSUME NEW c \in Client, Receive(c) PROVE ConvergeInv' BY <1>3, ReceiveConverges
<1>4. ASSUME NEW c \in Client, SeedTimer(c) PROVE ConvergeInv' BY <1>4, SeedTimerConverges
<1>5. ASSUME NEW c \in Client, Admit(c) PROVE ConvergeInv' BY <1>5, AdmitConverges
<1>6. ASSUME NEW c \in Client, Handle(c) PROVE ConvergeInv' BY <1>6, HandleConverges
<1>7. ASSUME NEW k \in Key, NEW v \in Val \cup {Corrupt}, ForeignWrite(k, v) PROVE ConvergeInv'
  BY <1>7, ForeignConverges
<1>8. CASE UNCHANGED vars
  <2>1. \A d \in Client : ConnectionOK(d)' /\ InFlight(d)'
    BY <1>8, OthersRest DEF vars, transport, session, relay
  <2> QED BY <2>1 DEF ConvergeInv
<1> QED BY <1>1, <1>2, <1>3, <1>4, <1>5, <1>6, <1>7, <1>8 DEF Next

(* Whatever a tab and the room lack of each other is in flight, through    *)
(* drops, retries, rejections and edits made while the connection was down *)
(* (transport.ts, sendState and onUpdate).                                 *)
THEOREM ConvergeInvariant == Spec => []ConvergeInv
BY InitConverges, NextConverges, Invariance, PTL DEF Spec

(* An admitted writer with nothing in flight has the room's document.      *)
THEOREM QuietIsConvergedHolds == Spec => []QuietIsConverged
<1>1. ConvergeInv => QuietIsConverged
  <2> SUFFICES ASSUME ConvergeInv, NEW c \in Client, sock[c] = "open", CanWrite(c),
                      up[c] = << >>, down[c] = << >>
               PROVE  doc[c] = room
    BY DEF QuietIsConverged
  <2>1. Member(c) BY DEF CanWrite, Member
  <2>2. Carried(up[c]) = {} /\ Carried(down[c]) = {} BY CarriedNone
  <2> QED BY <2>1, <2>2 DEF ConvergeInv, InFlight
<1> QED BY <1>1, ConvergeInvariant, PTL
-----------------------------------------------------------------------------
(* The seed.                                                               *)

LEMMA SeededFacts ==
    ASSUME NEW T, NEW U, T \subseteq U, NEW D, NEW E, SeededBy(D, T)
    PROVE  /\ SeededBy(D, U)
           /\ E \subseteq D => SeededBy(E, T)
           /\ SeededBy(E, U) => SeededBy(D \cup E, U)
           /\ (\A w \in E : w.key # "text" \/ w.by \in U) => SeededBy(D \cup E, U)
BY DEF SeededBy, Writes

(* The room was seeded by those it granted the seed to, and so were the    *)
(* documents of the tabs that have not left it for good.                   *)
LEMMA GrantKept ==
    ASSUME NEW d \in Client, GrantOK(d), Granted \subseteq Granted', stale \subseteq stale',
           stopped'[d] = stopped[d], transportConnected'[d] = transportConnected[d],
           seedGranted'[d] = seedGranted[d], doc'[d] = doc[d],
           seedGranted[d] /\ d \notin stale => seeder' = d /\ sock'[d] = "open",
           \A i \in DOMAIN down'[d] : down'[d][i].tag = "seed" => seeder' = d
    PROVE  GrantOK(d)'
<1>1. stopped'[d] \/ SeededBy(doc'[d], Granted') BY SeededFacts DEF GrantOK
<1> QED BY <1>1 DEF GrantOK, SeededBy, Writes

(* Frames other than a grant arrive or are read.                           *)
LEMMA GrantRests ==
    ASSUME NEW d \in Client, GrantOK(d), Granted \subseteq Granted', stale \subseteq stale',
           stopped'[d] = stopped[d], transportConnected'[d] = transportConnected[d],
           seedGranted'[d] = seedGranted[d], doc'[d] = doc[d], seeder' = seeder,
           sock'[d] = sock[d],
           \A i \in DOMAIN down'[d] : down'[d][i].tag = "seed" =>
              \E j \in DOMAIN down[d] : down[d][j].tag = "seed"
    PROVE  GrantOK(d)'
BY GrantKept DEF GrantOK

LEMMA GrantedRests ==
    ASSUME UNCHANGED <<stale, seedGranted>>
    PROVE  Granted' = Granted
BY DEF Granted

(* One tab adds writes that are no seed, or are one of its own.            *)
LEMMA AddsSeeded ==
    ASSUME IInv, SeedInv, NEW c \in Client, NEW W, Adds(c, W),
           \A w \in W : stopped[c] \/ w.key # "text" \/ w.by \in Granted',
           UNCHANGED <<transport, transportConnected, room, seeder, stale>>,
           \A d \in Client \ {c} : seedGranted'[d] = seedGranted[d],
           seedGranted'[c] = seedGranted[c]
              \/ (seedGranted'[c] = TRUE /\ seeder = c /\ sock[c] = "open"),
           \A d \in Client : \A i \in DOMAIN down'[d] : down'[d][i].tag = "seed" =>
              \E j \in DOMAIN down[d] : down[d][j].tag = "seed"
    PROVE  SeedInv'
<1>1. doc \in [Client -> Document] BY DEF IInv, TypeOK, SessionOK
<1>2. doc'[c] = doc[c] \cup W /\ \A d \in Client \ {c} : doc'[d] = doc[d] BY <1>1 DEF Adds
<1>3. stopped' = stopped /\ sock' = sock BY DEF transport
<1>4. \A d \in Client : seedGranted[d] => seedGranted'[d] OBVIOUS
<1>5. Granted \subseteq Granted' BY <1>4 DEF Granted
<1>6. SeededBy(room', Granted') BY <1>5, SeededFacts DEF SeedInv
<1>7. \A d \in Client : GrantOK(d) BY DEF SeedInv
<1>8. ASSUME NEW d \in Client \ {c} PROVE GrantOK(d)'
  BY <1>2, <1>3, <1>5, <1>7, GrantRests
<1>9. GrantOK(c)'
  <2>1. stopped[c] \/ SeededBy(doc[c] \cup W, Granted')
    <3>1. CASE ~stopped[c]
      <4>1. SeededBy(doc[c], Granted) BY <1>7, <3>1 DEF GrantOK
      <4>2. \A w \in W : w.key # "text" \/ w.by \in Granted' BY <3>1
      <4> QED BY <1>5, <4>1, <4>2, SeededFacts
    <3> QED BY <3>1
  <2>2. /\ stopped'[c] \/ transportConnected'[c]
        /\ stopped'[c] \/ SeededBy(doc'[c], Granted')
        /\ seedGranted'[c] /\ c \notin stale' => seeder' = c /\ sock'[c] = "open"
        /\ \A i \in DOMAIN down'[c] : down'[c][i].tag = "seed" => seeder' = c
    BY <1>2, <1>3, <1>7, <2>1 DEF GrantOK
  <2> QED BY <2>2 DEF GrantOK, SeededBy, Writes
<1>10. SeededBy(room, Granted)' BY <1>6 DEF SeededBy, Writes
<1> QED BY <1>8, <1>9, <1>10 DEF SeedInv

LEMMA EditSeeded ==
    ASSUME IInv, SeedInv, NEW c \in Client, Edit(c)
    PROVE  SeedInv'
<1>1. PICK W : Adds(c, W) /\ \A w \in W : w.key \in Key BY EditWrites
<1>2. /\ UNCHANGED <<transport, transportConnected, room, seeder, stale>>
      /\ seedGranted' = seedGranted /\ down' = down
  BY EditWrites DEF gate, relay
<1>3. \A w \in W : w.key # "text" BY <1>1, ClientAssumption
<1>4. \A w \in W : stopped[c] \/ w.key # "text" \/ w.by \in Granted' BY <1>3
<1>5. \A d \in Client : \A i \in DOMAIN down'[d] : down'[d][i].tag = "seed" =>
         \E j \in DOMAIN down[d] : down[d][j].tag = "seed"
  BY <1>2
<1> QED BY <1>1, <1>2, <1>4, <1>5, AddsSeeded

LEMMA SeedTimerSeeded ==
    ASSUME IInv, SeedInv, NEW c \in Client, SeedTimer(c)
    PROVE  SeedInv'
<1>0. MaybeSeed(c, TRUE, transportConnected[c], seedGranted[c]) BY DEF SeedTimer
<1>1. PICK W : /\ Adds(c, W) /\ \A w \in W : w.by = c
               /\ W # {} => GateOpen(TRUE, transportConnected[c], seedGranted[c])
  BY <1>0, SeedWrites, Zenon
<1>2. /\ UNCHANGED <<transport, transportConnected, room, seeder, stale>>
      /\ seedGranted' = seedGranted /\ down' = down
  BY DEF SeedTimer, relay
<1>3. Granted' = Granted BY <1>2, GrantedRests
<1>4. stopped[c] \/ transportConnected[c] BY DEF SeedInv, GrantOK
<1>5. \A w \in W : stopped[c] \/ w.by \in Granted' BY <1>1, <1>3, <1>4 DEF Granted, GateOpen
<1> QED BY <1>1, <1>2, <1>5, AddsSeeded

LEMMA ReceiveSeeded ==
    ASSUME IInv, ConvergeInv, SeedInv, NEW c \in Client, Receive(c)
    PROVE  SeedInv'
<1> DEFINE frame == Head(down[c])
<1>1. /\ down \in [Client -> Seq(Frame)] /\ doc \in [Client -> Document]
      /\ seedGranted \in [Client -> BOOLEAN]
      /\ down[c] # << >> /\ down[c] \in Seq(Frame)
  BY DEF Receive, IInv, TypeOK, WireOK, SessionOK, GateOK
<1>2. /\ Carried(down[c]) = (IF frame.tag = "doc" THEN frame.writes ELSE {})
                            \cup Carried(Tail(down[c]))
      /\ frame = down[c][1] /\ 1 \in DOMAIN down[c]
      /\ \A i \in DOMAIN Tail(down[c]) : \E j \in DOMAIN down[c] : Tail(down[c])[i] = down[c][j]
  <2>1. \A i \in DOMAIN Tail(down[c]) : i + 1 \in DOMAIN down[c] /\ Tail(down[c])[i] = down[c][i + 1]
    BY <1>1, ReadFacts
  <2> QED BY <1>1, <2>1, ReadFacts
<1>3. down' = [down EXCEPT ![c] = Tail(@)] /\ UNCHANGED <<transport, room, seeder>>
  BY DEF Receive, relay
<1>4. \A d \in Client : \A i \in DOMAIN down'[d] : down'[d][i].tag = "seed" =>
         \E j \in DOMAIN down[d] : down[d][j].tag = "seed"
  BY <1>1, <1>2, <1>3
<1>5. ConnectionOK(c) /\ InFlight(c) /\ GrantOK(c) BY DEF ConvergeInv, SeedInv
<1>6. sock[c] = "open" BY <1>1, <1>5 DEF ConnectionOK
<1> HIDE DEF frame
<1>7. CASE frame.tag = "doc" /\ Integrate(c, frame.writes) /\ UNCHANGED <<gate, stale>>
  <2>1. doc'[c] = doc[c] \cup frame.writes /\ \A d \in Client \ {c} : doc'[d] = doc[d]
    BY <1>1, <1>7 DEF Integrate
  <2>2. Granted' = Granted /\ transportConnected' = transportConnected /\ seedGranted' = seedGranted
    BY <1>7, GrantedRests DEF gate
  <2>3. stopped' = stopped /\ sock' = sock BY <1>3 DEF transport
  <2>4. \A d \in Client \ {c} : GrantOK(d)'
    BY <1>3, <1>4, <1>7, <2>1, <2>2, <2>3, GrantRests DEF SeedInv
  <2>5. SeededBy(frame.writes, Granted)
    <3>1. frame.writes \subseteq room BY <1>2, <1>5, <1>7 DEF InFlight
    <3> QED BY <3>1, SeededFacts DEF SeedInv
  <2>6. stopped'[c] \/ SeededBy(doc'[c], Granted')
    BY <1>5, <2>1, <2>2, <2>3, <2>5, SeededFacts DEF GrantOK
  <2>7. /\ stopped'[c] \/ transportConnected'[c]
        /\ seedGranted'[c] /\ c \notin stale' => seeder' = c /\ sock'[c] = "open"
        /\ \A i \in DOMAIN down'[c] : down'[c][i].tag = "seed" => seeder' = c
    BY <1>3, <1>4, <1>5, <1>7, <2>2, <2>3 DEF GrantOK
  <2>8. GrantOK(c)' BY <2>6, <2>7 DEF GrantOK, SeededBy, Writes
  <2>9. SeededBy(room, Granted)' BY <1>3, <2>2 DEF SeedInv, SeededBy, Writes
  <2> QED BY <2>4, <2>8, <2>9 DEF SeedInv
<1>8. CASE /\ frame.tag = "seed" /\ seedGranted' = [seedGranted EXCEPT ![c] = TRUE]
           /\ MaybeSeed(c, seedTimerDone[c], transportConnected[c], TRUE)
           /\ UNCHANGED <<transportConnected, stale>>
  <2>1. PICK W : /\ Adds(c, W) /\ \A w \in W : w.by = c
                 /\ W # {} => GateOpen(seedTimerDone[c], transportConnected[c], TRUE)
    BY <1>8, SeedWrites, Zenon
  <2>2. seeder = c BY <1>2, <1>5, <1>8 DEF GrantOK
  <2>3. seedGranted'[c] = TRUE /\ \A d \in Client \ {c} : seedGranted'[d] = seedGranted[d]
    BY <1>1, <1>8
  <2>4. c \in Granted' BY <2>3 DEF Granted
  <2>5. \A w \in W : w.by \in Granted' BY <2>1, <2>4
  <2> QED BY <1>3, <1>4, <1>6, <1>8, <2>1, <2>2, <2>3, <2>5, AddsSeeded
<1>9. CASE frame.tag = "role" /\ UNCHANGED <<session, gate, up, stale>>
  <2>1. Adds(c, {}) BY <1>9, AddsNothing DEF IInv, session
  <2>2. transportConnected' = transportConnected /\ seedGranted' = seedGranted
    BY <1>9 DEF gate
  <2> QED BY <1>3, <1>4, <1>9, <2>1, <2>2, AddsSeeded
<1> QED BY <1>7, <1>8, <1>9 DEF Receive, frame

(* The tabs without a connection, or with one that opens.                  *)
LEMMA LocalNetworkSeeded ==
    ASSUME IInv, ConvergeInv, SeedInv, NEW c \in Client,
           SocketOpens(c) \/ RetryFires(c) \/ ConnectFails(c)
    PROVE  SeedInv'
<1>1. /\ sock \in [Client -> {"connecting", "open", "closed"}]
      /\ stopped \in [Client -> BOOLEAN] /\ doc \in [Client -> Document]
      /\ transportConnected \in [Client -> BOOLEAN] /\ seedGranted \in [Client -> BOOLEAN]
  BY DEF IInv, TypeOK, TransportOK, SessionOK, GateOK
<1>2. /\ UNCHANGED <<down, room, seeder, stale>>
      /\ sock' = [sock EXCEPT ![c] = "open"] \/ sock' = [sock EXCEPT ![c] = "closed"]
         \/ sock' = Retried(c)
  BY DEF SocketOpens, RetryFires, ConnectFails, relay
<1>3. ConnectionOK(c) /\ GrantOK(c) BY DEF ConvergeInv, SeedInv
<1>4. sock[c] # "open"
  BY <1>3 DEF SocketOpens, RetryFires, ConnectFails, ConnectionOK
<1>5. seedGranted[c] => c \in stale BY <1>3, <1>4 DEF GrantOK
<1>6. /\ \A d \in Client \ {c} : /\ sock'[d] = sock[d] /\ stopped'[d] = stopped[d]
                                /\ doc'[d] = doc[d] /\ seedGranted'[d] = seedGranted[d]
                                /\ transportConnected'[d] = transportConnected[d]
      /\ \/ /\ stopped'[c] = stopped[c] /\ doc'[c] = doc[c]
            /\ seedGranted'[c] = seedGranted[c]
            /\ transportConnected'[c] = transportConnected[c]
         \/ stopped'[c] /\ ~seedGranted'[c]
  <2>1. CASE SocketOpens(c) \/ RetryFires(c)
    <3>1. UNCHANGED <<stopped, doc, seedGranted, transportConnected>>
      BY <2>1 DEF SocketOpens, RetryFires, session, gate
    <3> QED BY <1>1, <1>2, <3>1 DEF Retried
  <2>2. CASE ConnectFails(c)
    <3>1. sock' = [sock EXCEPT ![c] = "closed"] BY <2>2 DEF ConnectFails
    <3>2. CASE UNCHANGED <<stopped, doc, seedGranted, transportConnected>> BY <1>1, <3>1, <3>2
    <3>3. CASE Stop(c) /\ Surface(c) BY <1>1, <3>1, <3>3 DEF Stop, Surface
    <3>4. Reconnect(c) BY <2>2 DEF ConnectFails
    <3> QED BY <3>2, <3>3, <3>4 DEF Reconnect
  <2> QED BY <2>1, <2>2
<1>7. Granted \subseteq Granted' BY <1>2, <1>5, <1>6 DEF Granted
<1>8. \A d \in Client : \A i \in DOMAIN down'[d] : down'[d][i].tag = "seed" => seeder' = d
  BY <1>2 DEF SeedInv, GrantOK
<1>9. ASSUME NEW d \in Client \ {c} PROVE GrantOK(d)'
  <2>1. GrantOK(d) BY DEF SeedInv
  <2>2. seedGranted[d] /\ d \notin stale => seeder' = d /\ sock'[d] = "open"
    BY <1>2, <1>6, <2>1 DEF GrantOK
  <2> QED BY <1>2, <1>6, <1>7, <1>8, <2>1, <2>2, GrantKept
<1>10. GrantOK(c)'
  <2>1. CASE stopped'[c] /\ ~seedGranted'[c] BY <1>8, <2>1 DEF GrantOK
  <2>2. CASE /\ stopped'[c] = stopped[c] /\ doc'[c] = doc[c]
             /\ seedGranted'[c] = seedGranted[c]
             /\ transportConnected'[c] = transportConnected[c]
    BY <1>2, <1>3, <1>5, <1>7, <1>8, <2>2, GrantKept
  <2> QED BY <1>6, <2>1, <2>2
<1>11. SeededBy(room', Granted') BY <1>2, <1>7, SeededFacts DEF SeedInv
<1>12. SeededBy(room, Granted)' BY <1>11 DEF SeededBy, Writes
<1> QED BY <1>9, <1>10, <1>12 DEF SeedInv

(* A connection is lost: a grant used on it is stale, one on its way is    *)
(* lost, and the seed may be granted anew.                                 *)
LEMMA LostSeeded ==
    ASSUME IInv, ConvergeInv, SeedInv, NEW c \in Client, Lost(c),
           sock' = [sock EXCEPT ![c] = "closed"],
           \A d \in Client \ {c} : /\ stopped'[d] = stopped[d] /\ doc'[d] = doc[d]
                                   /\ seedGranted'[d] = seedGranted[d]
                                   /\ transportConnected'[d] = transportConnected[d],
           seedGranted'[c] => seedGranted[c],
           \/ stopped'[c]
           \/ /\ stopped'[c] = stopped[c] /\ doc'[c] = doc[c]
              /\ transportConnected'[c] = transportConnected[c]
    PROVE  SeedInv'
<1>1. /\ sock \in [Client -> {"connecting", "open", "closed"}]
      /\ down \in [Client -> Seq(Frame)]
  BY DEF IInv, TypeOK, TransportOK, WireOK
<1>2. stale' = stale \cup (IF seedGranted[c] THEN {c} ELSE {}) /\ (seeder # c => seeder' = seeder)
  BY DEF Lost
<1>3. Granted \subseteq Granted' BY <1>2 DEF Granted
<1>4. room' = room /\ down'[c] = << >> BY LostMoves
<1>5. SeededBy(room', Granted') BY <1>3, <1>4, SeededFacts DEF SeedInv
<1>6. SeededBy(room, Granted)' BY <1>5 DEF SeededBy, Writes
<1>7. GrantOK(c)'
  <2>1. GrantOK(c) BY DEF SeedInv
  <2>2. stopped'[c] \/ (transportConnected'[c] /\ SeededBy(doc'[c], Granted'))
    BY <1>3, <2>1, SeededFacts DEF GrantOK
  <2>3. seedGranted'[c] => c \in stale' BY <1>2
  <2> QED BY <1>4, <2>2, <2>3 DEF GrantOK, SeededBy, Writes
<1>8. ASSUME NEW d \in Client \ {c} PROVE GrantOK(d)'
  <2>1. GrantOK(d) BY DEF SeedInv
  <2>2. seedGranted[d] /\ d \notin stale => seeder' = d /\ sock'[d] = "open"
    BY <1>1, <1>2, <2>1 DEF GrantOK
  <2>3. \A i \in DOMAIN down'[d] : down'[d][i].tag = "seed" => seeder' = d
    BY <1>2, <2>1, LostMoves DEF GrantOK
  <2> QED BY <1>2, <1>3, <2>1, <2>2, <2>3, GrantKept
<1> QED BY <1>6, <1>7, <1>8 DEF SeedInv

LEMMA NetworkSeeded ==
    ASSUME IInv, ConvergeInv, SeedInv, NEW c \in Client, Network(c)
    PROVE  SeedInv'
<1>1. /\ stopped \in [Client -> BOOLEAN] /\ doc \in [Client -> Document]
      /\ transportConnected \in [Client -> BOOLEAN] /\ seedGranted \in [Client -> BOOLEAN]
  BY DEF IInv, TypeOK, TransportOK, SessionOK, GateOK
<1>2. CASE Drop(c) \/ Rejected(c)
  <2>1. /\ Lost(c) /\ sock' = [sock EXCEPT ![c] = "closed"]
        /\ \/ Stop(c) /\ Surface(c)
           \/ UNCHANGED <<stopped, doc, transportConnected, seedGranted>>
    BY <1>2 DEF Drop, Rejected, Reconnect
  <2>2. CASE Stop(c) /\ Surface(c)
    <3>1. /\ stopped'[c] /\ ~seedGranted'[c]
          /\ \A d \in Client \ {c} : /\ stopped'[d] = stopped[d] /\ doc'[d] = doc[d]
                                     /\ seedGranted'[d] = seedGranted[d]
                                     /\ transportConnected'[d] = transportConnected[d]
      BY <1>1, <2>2 DEF Stop, Surface
    <3> QED BY <2>1, <3>1, LostSeeded
  <2>3. CASE UNCHANGED <<stopped, doc, transportConnected, seedGranted>>
    BY <2>1, <2>3, LostSeeded
  <2> QED BY <2>1, <2>2, <2>3
<1>3. CASE Disconnect(c)
  <2>1. /\ Lost(c) /\ sock' = [sock EXCEPT ![c] = "closed"] /\ Stop(c)
        /\ UNCHANGED <<doc, transportConnected, seedGranted>>
    BY <1>3 DEF Disconnect, session, gate
  <2>2. stopped'[c] /\ \A d \in Client \ {c} : stopped'[d] = stopped[d] BY <1>1, <2>1 DEF Stop
  <2> QED BY <2>1, <2>2, LostSeeded
<1> QED BY <1>2, <1>3, LocalNetworkSeeded DEF Network

(* The relay grants the seed of an empty room that nobody holds.           *)
LEMMA AdmitSeeded ==
    ASSUME IInv, ConvergeInv, SeedInv, NEW c \in Client, Admit(c)
    PROVE  SeedInv'
<1> DEFINE grants == room = {} /\ seeder = None
           grant == IF grants THEN << [tag |-> "seed"] >> ELSE << >>
           head(r) == << [tag |-> "role", role |-> r] >>
<1>1. PICK r \in Role : /\ seeder' = IF grants THEN c ELSE seeder
                        /\ down' = [down EXCEPT ![c] = head(r) \o grant \o DocFrame(room)]
  BY DEF Admit
<1>2. /\ down \in [Client -> Seq(Frame)] /\ room' = room /\ room \in Document
      /\ UNCHANGED <<transport, doc, gate, stale>>
  BY DEF Admit, IInv, TypeOK, WireOK, RelayOK, session
<1>3. /\ stopped' = stopped /\ sock' = sock /\ seedGranted' = seedGranted
      /\ transportConnected' = transportConnected /\ Granted' = Granted
  BY <1>2, GrantedRests DEF transport, gate
<1>4. ASSUME NEW i \in DOMAIN down'[c], down'[c][i].tag = "seed" PROVE seeder' = c
  <2> DEFINE h == head(r) \o grant
  <2>1. h \in Seq(Frame) /\ (~grants => \A j \in DOMAIN h : h[j].tag # "seed")
    <3> DEFINE f == [tag |-> "role", role |-> r]
               g == [tag |-> "seed"]
    <3>1. f \in Frame /\ g \in Frame /\ f.tag # "seed" BY DEF Frame
    <3> HIDE DEF f, g
    <3>2. << f >> \o << g >> \in Seq(Frame) /\ << f >> \o << >> \in Seq(Frame)
          /\ << f >> \o << >> = << f >> /\ DOMAIN << f >> = {1} /\ << f >>[1] = f
      BY <3>1
    <3> HIDE DEF grants
    <3> QED BY <3>1, <3>2 DEF f, g
  <2>2. down'[c] = h \o DocFrame(room) BY <1>1, <1>2
  <2> HIDE DEF h, grants
  <2>3. i \in DOMAIN h /\ down'[c][i] = h[i] BY <1>2, <1>4, <2>1, <2>2, SendFacts
  <2>4. grants BY <1>4, <2>1, <2>3
  <2> QED BY <1>1, <2>4
<1>5. ASSUME NEW d \in Client PROVE GrantOK(d)'
  <2>1. GrantOK(d) BY DEF SeedInv
  <2>2. seeder = d => seeder' = d BY <1>1, ClientAssumption
  <2>3. seedGranted[d] /\ d \notin stale => seeder' = d /\ sock'[d] = "open"
    BY <1>3, <2>1, <2>2 DEF GrantOK
  <2>4. \A i \in DOMAIN down'[d] : down'[d][i].tag = "seed" => seeder' = d
    <3>1. CASE d = c BY <1>4, <3>1
    <3>2. CASE d # c
      <4>1. down'[d] = down[d] BY <1>1, <1>2, <3>2
      <4> QED BY <2>1, <2>2, <4>1 DEF GrantOK
    <3> QED BY <3>1, <3>2
  <2> QED BY <1>2, <1>3, <2>1, <2>3, <2>4, GrantKept
<1>6. SeededBy(room, Granted)' BY <1>2, <1>3 DEF SeedInv, SeededBy, Writes
<1> QED BY <1>5, <1>6 DEF SeedInv

(* A broadcast grants nothing.                                             *)
LEMMA BroadcastSeeded ==
    ASSUME IInv, SeedInv, NEW W \in Document, NEW from, Broadcast(W, from),
           room' = room \cup W, SeededBy(W, Granted),
           UNCHANGED <<transport, doc, gate, seeder, stale>>
    PROVE  SeedInv'
<1>1. /\ stopped' = stopped /\ sock' = sock /\ seedGranted' = seedGranted
      /\ transportConnected' = transportConnected /\ Granted' = Granted
  BY GrantedRests DEF transport, gate
<1>2. ASSUME NEW d \in Client PROVE GrantOK(d)'
  <2>1. GrantOK(d) BY DEF SeedInv
  <2>2. down[d] \in Seq(Frame) BY DEF IInv, TypeOK, WireOK
  <2>3. down'[d] = down[d] \o DocFrame(W) \/ down'[d] = down[d] BY DEF Broadcast
  <2>4. \A i \in DOMAIN (down[d] \o DocFrame(W)) :
           (down[d] \o DocFrame(W))[i].tag = "seed" =>
              \E j \in DOMAIN down[d] : down[d][j].tag = "seed"
    BY <2>2, SendFacts
  <2>5. \A i \in DOMAIN down'[d] : down'[d][i].tag = "seed" =>
           \E j \in DOMAIN down[d] : down[d][j].tag = "seed"
    BY <2>3, <2>4
  <2> QED BY <1>1, <2>1, <2>5, GrantRests
<1>3. SeededBy(room', Granted') BY <1>1, SeededFacts DEF SeedInv
<1>4. SeededBy(room, Granted)' BY <1>3 DEF SeededBy, Writes
<1> QED BY <1>2, <1>4 DEF SeedInv

LEMMA HandleSeeded ==
    ASSUME IInv, ConvergeInv, SeedInv, NEW c \in Client, Handle(c)
    PROVE  SeedInv'
<1> DEFINE W == Head(up[c]).writes
<1>1. /\ up[c] \in Seq(Frame) /\ up[c] # << >> /\ Head(up[c]).tag = "doc"
      /\ UNCHANGED <<transport, doc, gate, seeder, stale>>
      /\ (room' = room \cup W /\ Broadcast(W, c)) \/ (room' = room /\ down' = down)
  BY DEF Handle, IInv, TypeOK, WireOK, session
<1>2. W \subseteq Carried(up[c]) /\ Head(up[c]) \in Frame BY <1>1, ReadFacts
<1>3. W \in Document BY <1>1, <1>2 DEF Frame
<1> HIDE DEF W
<1>4. ConnectionOK(c) /\ InFlight(c) /\ GrantOK(c) BY DEF ConvergeInv, SeedInv
<1>5. ~stopped[c] BY <1>1, <1>4 DEF ConnectionOK
<1>6. W \subseteq doc[c] BY <1>2, <1>4 DEF InFlight
<1>7. SeededBy(W, Granted) BY <1>4, <1>5, <1>6, SeededFacts DEF GrantOK
<1>8. CASE room' = room \cup W /\ Broadcast(W, c) BY <1>1, <1>3, <1>7, <1>8, BroadcastSeeded
<1>9. CASE room' = room /\ down' = down
  <2>1. /\ stopped' = stopped /\ sock' = sock /\ seedGranted' = seedGranted
        /\ transportConnected' = transportConnected /\ Granted' = Granted
    BY <1>1, GrantedRests DEF transport, gate
  <2>2. \A d \in Client : GrantOK(d)' BY <1>1, <1>9, <2>1, GrantRests DEF SeedInv
  <2>3. SeededBy(room, Granted)' BY <1>9, <2>1 DEF SeedInv, SeededBy, Writes
  <2> QED BY <2>2, <2>3 DEF SeedInv
<1> QED BY <1>1, <1>8, <1>9

LEMMA ForeignSeeded ==
    ASSUME IInv, SeedInv, NEW k \in Key, NEW v \in Val \cup {Corrupt}, ForeignWrite(k, v)
    PROVE  SeedInv'
<1> DEFINE w == Write(room, 0, k, v)
<1>1. /\ room' = room \cup {w} /\ Broadcast({w}, 0)
      /\ UNCHANGED <<transport, doc, gate, seeder, stale>>
  BY DEF ForeignWrite, session
<1>2. room \in Document BY DEF IInv, TypeOK, RelayOK
<1>3. w \in Stamped /\ w.at = Clock(room) + 1 /\ w.key = k BY <1>2, WriteFacts DEF Entries
<1> HIDE DEF w
<1>4. Local(room, {w}) BY <1>3 DEF Local
<1>5. {w} \in Document BY <1>2, <1>4, LocalDocument
<1>6. SeededBy({w}, Granted) BY <1>3, ClientAssumption DEF SeededBy, Writes
<1> QED BY <1>1, <1>5, <1>6, BroadcastSeeded

LEMMA InitSeeded == Init => SeedInv
BY DEF Init, SeedInv, GrantOK, SeededBy, Writes

LEMMA NextSeeded == IInv /\ ConvergeInv /\ SeedInv /\ [Next]_vars => SeedInv'
<1> SUFFICES ASSUME IInv, ConvergeInv, SeedInv, [Next]_vars PROVE SeedInv' OBVIOUS
<1>1. ASSUME NEW c \in Client, Edit(c) PROVE SeedInv' BY <1>1, EditSeeded
<1>2. ASSUME NEW c \in Client, Network(c) PROVE SeedInv' BY <1>2, NetworkSeeded
<1>3. ASSUME NEW c \in Client, Receive(c) PROVE SeedInv' BY <1>3, ReceiveSeeded
<1>4. ASSUME NEW c \in Client, SeedTimer(c) PROVE SeedInv' BY <1>4, SeedTimerSeeded
<1>5. ASSUME NEW c \in Client, Admit(c) PROVE SeedInv' BY <1>5, AdmitSeeded
<1>6. ASSUME NEW c \in Client, Handle(c) PROVE SeedInv' BY <1>6, HandleSeeded
<1>7. ASSUME NEW k \in Key, NEW v \in Val \cup {Corrupt}, ForeignWrite(k, v) PROVE SeedInv'
  BY <1>7, ForeignSeeded
<1>8. CASE UNCHANGED vars
  BY <1>8 DEF vars, transport, session, gate, relay, SeedInv, GrantOK, SeededBy, Writes, Granted
<1> QED BY <1>1, <1>2, <1>3, <1>4, <1>5, <1>6, <1>7, <1>8 DEF Next

(* Whoever seeded the room was granted the seed by it (main.ts, maybeSeed; *)
(* core.go, seedGrant).                                                    *)
THEOREM SeedInvariant == Spec => []SeedInv
BY InitSeeded, NextSeeded, ConvergeInvariant, Invariance, PTL DEF Spec

(* Two seeds meet only if one of the tabs lost the connection its grant    *)
(* came on.                                                                *)
THEOREM OneSeedUnlessStaleHolds == Spec => []OneSeedUnlessStale
<1>1. SeedInv => OneSeedUnlessStale
  <2> SUFFICES ASSUME SeedInv, Seeders \cap stale = {}
               PROVE  ~(Cardinality(Seeders) > 1)
    BY DEF OneSeedUnlessStale
  <2>1. ASSUME NEW s \in Seeders PROVE s = seeder
    <3>1. s \in Granted BY <2>1 DEF SeedInv, SeededBy, Seeders
    <3>2. s \in Client /\ seedGranted[s] /\ s \notin stale BY <2>1, <3>1 DEF Granted
    <3> QED BY <3>2 DEF SeedInv, GrantOK
  <2>2. Seeders = {} \/ Seeders = {seeder} BY <2>1
  <2>3. Cardinality({}) = 0 /\ Cardinality({seeder}) = 1 BY FS_EmptySet, FS_Singleton
  <2> QED BY <2>2, <2>3
<1> QED BY <1>1, SeedInvariant, PTL
=============================================================================
