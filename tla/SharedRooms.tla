----------------------------- MODULE SharedRooms -----------------------------
(***************************************************************************)
(* What the relay promises to those who connect to it: under each name at  *)
(* most one document is open, it belongs to its members, it only grows, by *)
(* what writers connected under that name have sent, and members are sent  *)
(* nothing else. RelayCore implements it.                                  *)
(***************************************************************************)
EXTENDS Naturals, FiniteSets

CONSTANTS Name, Conn, Edit,
          MaxOpen   \* how many documents may be open
VARIABLES open,     \* the names whose document is open
          text,     \* the edits in each open document
          members,  \* the connections in each open document
          sent,     \* the edits that writers have sent under each name
          seen,     \* the edits each connection has been sent
          kept      \* the edits of each name that were handed to the store
docs == <<open, text, members, sent, seen, kept>>

Init ==
    /\ open = {}
    /\ text = [n \in Name |-> {}] /\ members = [n \in Name |-> {}]
    /\ sent = [n \in Name |-> {}] /\ kept = [n \in Name |-> {}]
    /\ seen = [c \in Conn |-> {}]

\* An edit is sent under one name, once.
Send ==
    /\ sent' \in [Name -> SUBSET Edit]
    /\ \A n \in Name : sent[n] \subseteq sent'[n]
    /\ \A n, m \in Name : n # m => sent'[n] \cap sent'[m] = {}
    /\ UNCHANGED <<open, text, members, seen, kept>>

\* A document opens as what was kept of it, or a part of that.
Open(n) ==
    /\ n \notin open /\ Cardinality(open) < MaxOpen
    /\ open' = open \cup {n}
    /\ \E D \in SUBSET kept[n] : text' = [text EXCEPT ![n] = D]
    /\ UNCHANGED <<members, sent, seen, kept>>

\* It closes when nobody is left in it.
Close(n) ==
    /\ n \in open /\ members[n] = {}
    /\ open' = open \ {n}
    /\ text' = [text EXCEPT ![n] = {}]
    /\ UNCHANGED <<members, sent, seen, kept>>

Join(n, c) ==
    /\ n \in open /\ \A m \in Name : c \notin members[m]
    /\ members' = [members EXCEPT ![n] = @ \cup {c}]
    /\ UNCHANGED <<open, text, sent, seen, kept>>

Leave(n, c) ==
    /\ members' = [members EXCEPT ![n] = @ \ {c}]
    /\ UNCHANGED <<open, text, sent, seen, kept>>

Merge(n, e) ==
    /\ n \in open /\ e \in sent[n]
    /\ text' = [text EXCEPT ![n] = @ \cup {e}]
    /\ UNCHANGED <<open, members, sent, seen, kept>>

\* A member is sent what is in its document.
Deliver(n, c) ==
    /\ n \in open /\ c \in members[n]
    /\ \E D \in SUBSET text[n] : seen' = [seen EXCEPT ![c] = @ \cup D]
    /\ UNCHANGED <<open, text, members, sent, kept>>

Keep(n) ==
    /\ \E D \in SUBSET sent[n] : kept' = [kept EXCEPT ![n] = @ \cup D]
    /\ UNCHANGED <<open, text, members, sent, seen>>

Next ==
    \/ Send
    \/ \E n \in Name : \/ Open(n) \/ Close(n) \/ Keep(n)
                       \/ \E c \in Conn : Join(n, c) \/ Leave(n, c) \/ Deliver(n, c)
                       \/ \E e \in Edit : Merge(n, e)

Spec == Init /\ [][Next]_docs
==============================================================================
