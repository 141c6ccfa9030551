------------------------------ MODULE LisProofs ------------------------------
(***************************************************************************)
(* Proofs about the transmission of grades, for any number of outcomes,    *)
(* grades, restarts and attempts.  What the database and the memory queue  *)
(* say of an outcome is related by the ids of its documents and by their   *)
(* attempts.                                                               *)
(***************************************************************************)
EXTENDS LisOutcome, FiniteSetTheorems, SequenceTheorems, TLAPS

\* A set of one element at most
Single(S) == \A x, y \in S : x = y

\* The types of the variables, with what the worker has in hand in each state
Types ==
    /\ grade \in [Outcomes -> Nat] /\ consumer \in [Outcomes -> Nat] /\ created \in [Outcomes -> Nat]
    /\ entry \in [Outcomes -> SUBSET Document] /\ \A o \in Outcomes : Single(entry[o])
    /\ ids \in [Outcomes -> Nat]
    /\ adding \in [Outcomes -> {"no", "update", "queue"}]
    /\ queue \in Seq(Element)
    /\ worker \in {"start", "loading", "idle", "post", "posted", "failed", "dead"}
    /\ cursor \subseteq Element /\ (worker # "loading" => cursor = {})
    /\ item \subseteq Element /\ Single(item)
    /\ item # {} <=> worker \in {"post", "posted", "failed"}
    /\ toPost \in Nat
    /\ givenUp \subseteq Outcomes /\ dropped \subseteq Outcomes
    /\ overlap \in BOOLEAN
    /\ posts \in [Outcomes -> Nat]
    /\ restarts \in 0..MaxRestarts

\* Grades only get more recent on their way to the consumer.
Recent ==
    /\ \A o \in Outcomes : grade[o] <= MaxGrade[o] /\ consumer[o] <= grade[o] /\ created[o] <= grade[o]
    /\ worker = "post" => \A e \in item : consumer[e.outcome] <= toPost /\ toPost <= grade[e.outcome]

\* The elements the worker has in memory
InHand(e) == e \in Range(queue) \/ e \in cursor \/ e \in item

\* Ids are given in order: a new document has an id no element has.
OldIds ==
    /\ \A o \in Outcomes : \A d \in entry[o] : d.id <= ids[o]
    /\ \A e \in Element : InHand(e) => e.id <= ids[e.outcome]

\* The grade that is posted for a document is as recent as the document.
PostedAsCreated ==
    \A e \in item : (\E d \in entry[e.outcome] : d.id = e.id) =>
        /\ worker = "post" => created[e.outcome] <= toPost
        /\ worker = "posted" => created[e.outcome] <= consumer[e.outcome]

\* InMemory, for the elements themselves
Covered ==
    \A o \in Outcomes : \A d \in entry[o] :
            \/ \E e \in Element : InHand(e) /\ e.outcome = o /\ e.id = d.id
            \/ adding[o] = "queue"
            \/ worker = "start"
            \/ o \in dropped

-----------------------------------------------------------------------------
(* When no grade is added while the worker loads the documents: the         *)
(* elements in memory are of different outcomes, each with a document.      *)

Apart(s) == \A i, k \in DOMAIN s : s[i].outcome = s[k].outcome => i = k

\* One element for each outcome, and none while add is about to queue one
OneElement ==
    /\ Apart(queue)
    /\ \A e, f \in cursor \cup item : e.outcome = f.outcome => e = f
    /\ \A e \in cursor \cup item, f \in Range(queue) : e.outcome # f.outcome
    /\ \A e \in Element : InHand(e) => adding[e.outcome] # "queue"

\* Its document is there, and counts one attempt more at most.
Documented ==
    /\ \A e \in Element : InHand(e) =>
            \E d \in entry[e.outcome] : d.id = e.id /\ d.attempt <= e.attempt + 1
    /\ \A o \in Outcomes : adding[o] = "queue" => entry[o] # {}

\* The worker loads the documents before anything is queued, and lives.
Started ==
    /\ worker # "dead"
    /\ worker = "start" => queue = <<>>
    /\ worker \in {"start", "loading"} => \A o \in Outcomes : adding[o] # "queue"

\* A post that the document does not count yet
Uncounted(o) == IF worker \in {"posted", "failed"} /\ \E e \in item : e.outcome = o THEN 1 ELSE 0

\* The posts of an outcome are those its document counts, and one a restart.
Counted ==
    \A o \in Outcomes :
        /\ entry[o] = {} => posts[o] <= MaxAttempt + 2 + restarts
        /\ \A d \in entry[o] : /\ d.attempt <= MaxAttempt + 1
                               /\ posts[o] <= d.attempt + restarts + Uncounted(o)

\* The rest holds as long as no grade is added while the worker loads.
AloneInv == ~overlap => OneElement /\ Documented /\ Started /\ Counted

\* The inductive invariant
LisInv ==
    Types /\ Recent /\ OldIds /\ PostedAsCreated /\ Covered /\ CreatedIsSent /\ AloneInv

-----------------------------------------------------------------------------
(* Queues and sets.                                                         *)

\* A set of one element at most, in terms of its element
LEMMA SingleCases ==
    ASSUME NEW S, Single(S)
    PROVE  S = {} \/ \E x \in S : S = {x}
BY DEF Single

\* TypeOK states Single with Cardinality.
LEMMA SingleCardinality ==
    ASSUME NEW S, Single(S)
    PROVE  Cardinality(S) <= 1
<1>1. CASE S = {}
  BY <1>1, FS_EmptySet
<1>2. CASE \E x \in S : S = {x}
  <2>1. PICK x : S = {x}
    BY <1>2
  <2>2. Cardinality({x}) = 1
    BY FS_Singleton
  <2> QED
    BY <2>1, <2>2
<1> QED
  BY <1>1, <1>2, SingleCases

\* What add appends to the queue: the document of the outcome, if there is one
LEMMA EmptyToSeq == SetToSeq({}) = <<>>
<1> DEFINE T == {}
           F == {f \in [1..Cardinality(T) -> T] : IsInjective(f)}
<1>1. Cardinality(T) = 0 /\ 1..0 = {}
  BY FS_EmptySet
<1>2. <<>> \in [1..Cardinality(T) -> T] /\ \A f \in [1..Cardinality(T) -> T] : f = <<>>
  BY <1>1
<1>3. IsInjective(<<>>)
  BY DEF IsInjective
<1> QED
  BY <1>2, <1>3 DEF SetToSeq

\* The worker loads the one document of a cursor as a sequence of one element.
LEMMA SingletonToSeq ==
    ASSUME NEW x
    PROVE  SetToSeq({x}) = <<x>>
<1>1. Cardinality({x}) = 1 /\ 1..1 = {1}
  BY FS_Singleton
<1>2. <<x>> \in [1..1 -> {x}] /\ \A f \in [1..1 -> {x}] : f = <<x>>
  BY <1>1
<1>3. IsInjective(<<x>>)
  BY DEF IsInjective
<1> QED
  BY <1>1, <1>2, <1>3 DEF SetToSeq

\* An element is queued.
LEMMA Queueing ==
    ASSUME NEW s \in Seq(Element), NEW e \in Element
    PROVE  /\ Append(s, e) \in Seq(Element)
           /\ Range(Append(s, e)) = Range(s) \cup {e}
           /\ Apart(s) /\ (\A f \in Range(s) : f.outcome # e.outcome) => Apart(Append(s, e))
<1> DEFINE r == Append(s, e)
<1>1. /\ r \in Seq(Element) /\ Len(r) = Len(s) + 1
      /\ \A k \in 1..Len(s) : r[k] = s[k]
      /\ r[Len(s) + 1] = e
  OBVIOUS
<1> HIDE DEF r
<1>2. DOMAIN r = 1..(Len(s) + 1) /\ DOMAIN s = 1..Len(s) /\ Len(s) \in Nat
  BY <1>1
<1>3. \A k \in DOMAIN r : (k \in DOMAIN s /\ r[k] = s[k]) \/ (k = Len(s) + 1 /\ r[k] = e)
  BY <1>1, <1>2
<1>4. Range(r) = Range(s) \cup {e}
  BY <1>1, <1>2, <1>3 DEF Range
<1>5. ASSUME Apart(s), \A f \in Range(s) : f.outcome # e.outcome PROVE Apart(r)
  BY <1>3, <1>5 DEF Apart, Range
<1> QED
  BY <1>1, <1>4, <1>5 DEF r

\* An element is taken.
LEMMA Taking ==
    ASSUME NEW s \in Seq(Element), s # <<>>
    PROVE  /\ Tail(s) \in Seq(Element) /\ Head(s) \in Element
           /\ Range(s) = Range(Tail(s)) \cup {Head(s)}
           /\ Apart(s) => Apart(Tail(s)) /\ \A f \in Range(Tail(s)) : f.outcome # Head(s).outcome
<1> DEFINE r == Tail(s)
<1>1. /\ Head(s) \in Element /\ r \in Seq(Element) /\ Len(r) = Len(s) - 1 /\ Len(s) \in Nat /\ Len(s) > 0
      /\ \A k \in 1..Len(r) : r[k] = s[k + 1]
      /\ Head(s) = s[1]
  OBVIOUS
<1> HIDE DEF r
<1>2. DOMAIN r = 1..(Len(s) - 1) /\ DOMAIN s = 1..Len(s) /\ 1 \in DOMAIN s
  BY <1>1
<1>3. \A k \in DOMAIN r : k \in Nat /\ k > 0 /\ k + 1 \in DOMAIN s /\ r[k] = s[k + 1]
  BY <1>1, <1>2
<1>4. \A k \in DOMAIN s : k = 1 \/ (k - 1 \in DOMAIN r /\ r[k - 1] = s[k])
  BY <1>1, <1>2
<1>5. Range(s) = Range(r) \cup {Head(s)}
  <2>1. Range(s) \subseteq Range(r) \cup {Head(s)}
    BY <1>1, <1>4 DEF Range
  <2>2. Range(r) \cup {Head(s)} \subseteq Range(s)
    BY <1>1, <1>2, <1>3 DEF Range
  <2> QED
    BY <2>1, <2>2
<1>6. ASSUME Apart(s) PROVE Apart(r)
  BY <1>3, <1>6 DEF Apart
<1>7. ASSUME Apart(s) PROVE \A f \in Range(r) : f.outcome # Head(s).outcome
  <2> SUFFICES ASSUME NEW k \in DOMAIN r PROVE r[k].outcome # Head(s).outcome
    BY DEF Range
  <2>1. k + 1 \in DOMAIN s /\ k + 1 # 1 /\ r[k] = s[k + 1] /\ Head(s) = s[1] /\ 1 \in DOMAIN s
    BY <1>1, <1>2, <1>3
  <2> QED
    BY <1>7, <2>1 DEF Apart
<1> QED
  BY <1>1, <1>5, <1>6, <1>7 DEF r

\* The element a step of the worker is about
LEMMA InHandOfWorker ==
    ASSUME Types, worker \in {"post", "posted", "failed"}
    PROVE  \E e \in Element : item = {e}
BY SingleCases DEF Types

\* What the worker has in memory are elements.
LEMMA HandElements ==
    ASSUME Types
    PROVE  \A e : InHand(e) => e \in Element
BY DEF Types, InHand, Range

\* The worker has the only element of its outcome, and there is a document.
LEMMA InHandAlone ==
    ASSUME Types, OneElement, Documented, NEW f \in Element, item = {f}, cursor = {}
    PROVE  /\ \A e \in Range(queue) : e \in Element /\ e.outcome # f.outcome
           /\ adding[f.outcome] # "queue"
           /\ \E d \in Document : entry[f.outcome] = {d} /\ d.id = f.id /\ d.attempt <= f.attempt + 1
<1>1. InHand(f) /\ f.outcome \in Outcomes
  BY DEF InHand, Element
<1>2. \A e \in Range(queue) : e \in Element /\ e.outcome # f.outcome
  BY HandElements DEF OneElement, InHand
<1>3. PICK d \in entry[f.outcome] : d.id = f.id /\ d.attempt <= f.attempt + 1
  BY <1>1 DEF Documented
<1>4. entry[f.outcome] = {d} /\ d \in Document
  BY <1>1, <1>3 DEF Types, Single
<1> QED
  BY <1>1, <1>2, <1>3, <1>4 DEF OneElement

\* The queue of a process that starts
LEMMA EmptyQueue == Range(<<>>) = {} /\ Apart(<<>>) /\ <<>> \in Seq(Element)
BY DEF Range, Apart

-----------------------------------------------------------------------------
(* Every action keeps the invariant.                                        *)

\* What the constants are, for the steps below
LEMMA Constants == MaxAttempt \in Nat /\ MaxRestarts \in Nat /\ \A o \in Outcomes : MaxGrade[o] \in Nat
BY LisAssumption

\* The fields of a document and of an element
LEMMA Fields ==
    /\ \A d \in Document : d.id \in Nat /\ d.attempt \in Nat
    /\ \A e \in Element : e.outcome \in Outcomes /\ e.id \in Nat /\ e.attempt \in Nat
BY DEF Document, Element

\* A document is created, reset, or given one attempt more; an element is made
\* of a document.
LEMMA Conversions ==
    /\ \A n \in Nat : \E d \in Document : /\ d = [id |-> n, attempt |-> 0]
                                         /\ d.id = n /\ d.attempt = 0
    /\ \A c \in Document : \E d \in Document : /\ d = [c EXCEPT !.attempt = 0]
                                              /\ d.id = c.id /\ d.attempt = 0
    /\ \A c \in Document : \E d \in Document : /\ d = [c EXCEPT !.attempt = @ + 1]
                                              /\ d.id = c.id /\ d.attempt = c.attempt + 1
    /\ \A o \in Outcomes, c \in Document :
          /\ AsElement(o, c) \in Element /\ AsElement(o, c).outcome = o
          /\ AsElement(o, c).id = c.id /\ AsElement(o, c).attempt = c.attempt
<1>1. \A n \in Nat : [id |-> n, attempt |-> 0] \in Document
  BY DEF Document
<1>2. \A c \in Document : [c EXCEPT !.attempt = 0] \in Document /\ [c EXCEPT !.attempt = @ + 1] \in Document
  BY DEF Document
<1>3. \A o \in Outcomes, c \in Document : AsElement(o, c) \in Element
  BY DEF AsElement, Element, Document
<1> QED
  BY <1>1, <1>2, <1>3 DEF AsElement, Document

\* A job is done: a grade is stored.
LEMMA JobDoneKeeps ==
    ASSUME LisInv, NEW o \in Outcomes, JobDone(o)
    PROVE  LisInv'
<1> USE Constants, Fields DEF LisInv, database, memory, history
<1>1. \A e : InHand(e)' <=> InHand(e)
  BY DEF JobDone, InHand
<1>2. Types'
  BY <1>1 DEF JobDone, Types, Single
<1>3. Recent'
  <2>1. grade[o] < MaxGrade[o] /\ \A p \in Outcomes : grade'[p] = IF p = o THEN grade[p] + 1 ELSE grade[p]
    BY DEF JobDone, Types
  <2>2. \A e \in item : e.outcome \in Outcomes
    BY Fields DEF Types
  <2>3. UNCHANGED <<worker, item, toPost, consumer, created>> /\ toPost \in Nat
        /\ \A p \in Outcomes : grade[p] \in Nat /\ MaxGrade[p] \in Nat /\ consumer[p] \in Nat /\ created[p] \in Nat
    BY Constants DEF JobDone, Types
  <2>4. \A p \in Outcomes : grade[p] <= grade'[p] /\ grade'[p] <= MaxGrade[p] /\ grade'[p] \in Nat
    BY <2>1, <2>3 DEF Recent
  <2>5. \A p \in Outcomes : grade'[p] <= MaxGrade[p] /\ consumer'[p] <= grade'[p] /\ created'[p] <= grade'[p]
    BY <2>3, <2>4 DEF Recent
  <2>6. ASSUME worker = "post", NEW e \in item PROVE consumer[e.outcome] <= toPost /\ toPost <= grade'[e.outcome]
    BY <2>2, <2>3, <2>4, <2>6 DEF Recent
  <2> QED
    BY <2>3, <2>5, <2>6 DEF Recent
<1>4. OldIds'
  BY <1>1 DEF JobDone, Types, OldIds
<1>5. PostedAsCreated'
  BY <1>1 DEF JobDone, Types, PostedAsCreated, Recent, OldIds, InHand
<1>6. Covered'
  BY <1>1 DEF JobDone, Types, Covered
<1>7. CreatedIsSent'
  BY <1>1 DEF JobDone, Types, CreatedIsSent, PostedAsCreated
<1>8. ASSUME ~overlap' PROVE OneElement' /\ Documented' /\ Started' /\ Counted'
  <2>1. ~overlap
    BY <1>8 DEF JobDone
  <2>2. OneElement'
    BY <1>1, <2>1, <1>8 DEF JobDone, Types, AloneInv, OneElement, Documented, Started, InHand
  <2>3. Documented'
    BY <1>1, <2>1, <1>8 DEF JobDone, Types, AloneInv, OneElement, Documented, Started
  <2>4. Started'
    BY <1>1, <2>1, <1>8 DEF JobDone, Types, AloneInv, Documented, Started, InHand
  <2>5. Counted'
    BY <1>1, <2>1, <1>8 DEF JobDone, Types, AloneInv, Documented, Counted, Uncounted, InHand
  <2> QED
    BY <2>2, <2>3, <2>4, <2>5
<1> QED
  BY <1>2, <1>3, <1>4, <1>5, <1>6, <1>7, <1>8 DEF AloneInv

\* add creates the document of an outcome that has none.
LEMMA AddCreatesKeeps ==
    ASSUME LisInv, NEW o \in Outcomes, AddUpsert(o), entry[o] = {}
    PROVE  LisInv'
<1> USE Constants, Fields DEF LisInv, database, memory, history
<1>1. \A e : InHand(e)' <=> InHand(e)
  BY DEF AddUpsert, InHand
<1>2. PICK d \in Document : d = [id |-> ids[o] + 1, attempt |-> 0] /\ d.id = ids[o] + 1 /\ d.attempt = 0
  <2>1. ids[o] + 1 \in Nat
    BY DEF Types
  <2> QED
    BY <2>1, Conversions
<1>3. /\ entry' = [entry EXCEPT ![o] = {d}] /\ ids' = [ids EXCEPT ![o] = @ + 1]
      /\ created' = [created EXCEPT ![o] = grade[o]] /\ adding' = [adding EXCEPT ![o] = "queue"]
      /\ givenUp' = givenUp \ {o} /\ posts' = [posts EXCEPT ![o] = 0]
      /\ overlap' = (overlap \/ worker \in {"start", "loading"})
      /\ adding[o] = "update" /\ d.id = ids[o] + 1 /\ d.attempt = 0
      /\ UNCHANGED <<grade, queue, worker, cursor, item, toPost, consumer, dropped, restarts>>
  BY <1>2 DEF AddUpsert
<1>4. Types'
  BY <1>1, <1>2, <1>3 DEF Types, Single
<1>5. Recent'
  BY <1>1, <1>2, <1>3 DEF Types, Recent
<1>6. OldIds'
  BY <1>1, <1>2, <1>3 DEF Types, OldIds
<1>7. PostedAsCreated'
  BY <1>1, <1>2, <1>3 DEF Types, PostedAsCreated, Recent, OldIds, InHand
<1>8. Covered'
  BY <1>1, <1>2, <1>3 DEF Types, Covered
<1>9. CreatedIsSent'
  BY <1>1, <1>2, <1>3 DEF Types, CreatedIsSent, PostedAsCreated
<1>10. ASSUME ~overlap' PROVE OneElement' /\ Documented' /\ Started' /\ Counted'
  <2>1. ~overlap
    BY <1>10, <1>1, <1>2, <1>3
  <2>2. OneElement'
    BY <1>1, <1>2, <1>3, <2>1, <1>10 DEF Types, AloneInv, OneElement, Documented, Started, InHand
  <2>3. Documented'
    BY <1>1, <1>2, <1>3, <2>1, <1>10 DEF Types, AloneInv, OneElement, Documented, Started
  <2>4. Started'
    BY <1>1, <1>2, <1>3, <2>1, <1>10 DEF Types, AloneInv, Documented, Started, InHand
  <2>5. Counted'
    BY <1>1, <1>2, <1>3, <2>1, <1>10 DEF Types, AloneInv, Documented, Counted, Uncounted, InHand
  <2> QED
    BY <2>2, <2>3, <2>4, <2>5
<1> QED
  BY <1>4, <1>5, <1>6, <1>7, <1>8, <1>9, <1>10 DEF AloneInv

\* add resets the attempts of the document.
LEMMA AddResetsKeeps ==
    ASSUME LisInv, NEW o \in Outcomes, AddUpsert(o), entry[o] # {}
    PROVE  LisInv'
<1> USE Constants, Fields DEF LisInv, database, memory, history
<1>1. \A e : InHand(e)' <=> InHand(e)
  BY DEF AddUpsert, InHand
<1>2. PICK c \in Document, d \in Document :
        entry[o] = {c} /\ d = [c EXCEPT !.attempt = 0] /\ d.id = c.id /\ d.attempt = 0
  <2>1. PICK c \in Document : entry[o] = {c}
    BY SingleCases DEF Types
  <2> QED
    BY <2>1, Conversions
<1>3. /\ entry' = [entry EXCEPT ![o] = {d}] /\ UNCHANGED <<ids, created>>
      /\ adding' = [adding EXCEPT ![o] = "no"]
      /\ givenUp' = givenUp \ {o} /\ posts' = [posts EXCEPT ![o] = 0]
      /\ overlap' = (overlap \/ worker \in {"start", "loading"})
      /\ adding[o] = "update" /\ d.id = c.id /\ d.attempt = 0 /\ entry[o] = {c}
      /\ \A p \in Outcomes : entry'[p] = IF p = o THEN {d} ELSE entry[p]
      /\ UNCHANGED <<grade, queue, worker, cursor, item, toPost, consumer, dropped, restarts>>
  <2>1. entry' = [entry EXCEPT ![o] = {[b EXCEPT !.attempt = 0] : b \in @}]
    BY DEF AddUpsert
  <2>2. {[b EXCEPT !.attempt = 0] : b \in entry[o]} = {d}
    BY <1>2
  <2>3. entry' = [entry EXCEPT ![o] = {d}]
    BY <2>1, <2>2
  <2>4. \A p \in Outcomes : entry'[p] = IF p = o THEN {d} ELSE entry[p]
    BY <2>3 DEF Types
  <2> QED
    BY <1>2, <2>3, <2>4 DEF AddUpsert
<1>4. Types'
  BY <1>1, <1>3 DEF Types, Single
<1>5. Recent'
  BY <1>1, <1>3 DEF Types, Recent
<1>6. OldIds'
  BY <1>1, <1>3 DEF Types, OldIds
<1>7. PostedAsCreated'
  BY <1>1, <1>3 DEF Types, PostedAsCreated, Recent, OldIds, InHand
<1>8. Covered'
  <2>1. \A p \in Outcomes : adding[p] = "queue" => adding'[p] = "queue"
    BY <1>3 DEF Types
  <2>2. \A p \in Outcomes : \A b \in entry'[p] : \E a \in entry[p] : a.id = b.id
    BY <1>3
  <2> QED
    BY <1>1, <1>3, <2>1, <2>2 DEF Covered
<1>9. CreatedIsSent'
  BY <1>1, <1>3 DEF Types, CreatedIsSent, PostedAsCreated
<1>10. ASSUME ~overlap' PROVE OneElement' /\ Documented' /\ Started' /\ Counted'
  <2>1. ~overlap
    BY <1>10, <1>1, <1>2, <1>3
  <2>2. OneElement'
    BY <1>1, <1>3, <2>1, <1>10 DEF Types, AloneInv, OneElement, Documented, Started, InHand
  <2>3. Documented'
    <3>1. Documented /\ \A p \in Outcomes : adding'[p] = "queue" => adding[p] = "queue"
      BY <1>3, <2>1 DEF AloneInv, Types
    <3>2. ASSUME NEW e \in Element, InHand(e)
          PROVE  \E b \in entry'[e.outcome] : b.id = e.id /\ b.attempt <= e.attempt + 1
      <4>1. PICK a \in entry[e.outcome] : a.id = e.id /\ a.attempt <= e.attempt + 1
        BY <3>1, <3>2 DEF Documented
      <4>2. CASE e.outcome = o
        <5>1. d \in entry'[e.outcome] /\ d.id = e.id
          BY <1>3, <4>1, <4>2
        <5>2. d.attempt <= e.attempt + 1
          BY <1>3
        <5> QED
          BY <5>1, <5>2
      <4>3. CASE e.outcome # o
        BY <1>3, <4>1, <4>3
      <4> QED
        BY <4>2, <4>3
    <3>3. \A p \in Outcomes : entry[p] # {} => entry'[p] # {}
      BY <1>3
    <3> QED
      BY <1>1, <3>1, <3>2, <3>3 DEF Documented
  <2>4. Started'
    BY <1>1, <1>3, <2>1, <1>10 DEF Types, AloneInv, Documented, Started, InHand
  <2>5. Counted'
    BY <1>1, <1>3, <2>1, <1>10 DEF Types, AloneInv, Documented, Counted, Uncounted, InHand
  <2> QED
    BY <2>2, <2>3, <2>4, <2>5
<1> QED
  BY <1>4, <1>5, <1>6, <1>7, <1>8, <1>9, <1>10 DEF AloneInv

\* add queues the document it has created, if it is still there.
LEMMA AddQueuesKeeps ==
    ASSUME LisInv, NEW o \in Outcomes, AddQueue(o), NEW d \in Document, entry[o] = {d}
    PROVE  LisInv'
<1> USE Constants, Fields DEF LisInv, database, memory, history
<1>1. PICK f \in Element : f = AsElement(o, d) /\ f.outcome = o /\ f.id = d.id /\ f.attempt = d.attempt
  BY Conversions
<1>2. queue' = Append(queue, f)
  <2>1. {AsElement(o, c) : c \in {d}} = {f}
    BY <1>1
  <2>2. queue' = queue \o <<f>>
    BY <2>1, SingletonToSeq DEF AddQueue
  <2> QED
    BY <2>2 DEF Types
<1>3. /\ queue' \in Seq(Element) /\ Range(queue') = Range(queue) \cup {f}
      /\ Apart(queue) /\ (\A g \in Range(queue) : g.outcome # f.outcome) => Apart(queue')
  BY <1>2, Queueing DEF Types
<1>4. /\ adding[o] = "queue" /\ adding' = [adding EXCEPT ![o] = "no"]
      /\ UNCHANGED <<database, worker, cursor, item, toPost, consumer, history, restarts>>
  BY DEF AddQueue
<1>5. \A e : InHand(e)' <=> InHand(e) \/ e = f
  BY <1>3, <1>4 DEF InHand
<1>6. Types'
  BY <1>1, <1>2, <1>3, <1>4, <1>5 DEF Types, Single
<1>7. Recent'
  BY <1>1, <1>2, <1>3, <1>4, <1>5 DEF Types, Recent
<1>8. OldIds'
  BY <1>1, <1>2, <1>3, <1>4, <1>5 DEF Types, OldIds
<1>9. PostedAsCreated'
  BY <1>1, <1>2, <1>3, <1>4, <1>5 DEF Types, PostedAsCreated, Recent, OldIds, InHand
<1>10. Covered'
  BY <1>1, <1>2, <1>3, <1>4, <1>5 DEF Types, Covered
<1>11. CreatedIsSent'
  BY <1>1, <1>2, <1>3, <1>4, <1>5 DEF Types, CreatedIsSent, PostedAsCreated
<1>12. ASSUME ~overlap' PROVE OneElement' /\ Documented' /\ Started' /\ Counted'
  <2>1. ~overlap
    BY <1>12, <1>1, <1>2, <1>3, <1>4, <1>5
  <2>2. OneElement'
    <3>1. OneElement /\ Started
      BY <2>1 DEF AloneInv
    <3>2. \A g : InHand(g) => g \in Element /\ g.outcome # o
      BY <1>4, <3>1, HandElements DEF OneElement
    <3>3. Apart(queue')
      BY <1>1, <1>3, <3>1, <3>2 DEF OneElement, InHand
    <3>4. \A e \in cursor \cup item, g \in Range(queue') : e.outcome # g.outcome
      BY <1>1, <1>3, <3>1, <3>2 DEF OneElement, InHand
    <3>5. \A p \in Outcomes : adding'[p] = IF p = o THEN "no" ELSE adding[p]
      BY <1>4 DEF Types
    <3>6. \A e \in Element : InHand(e)' => adding'[e.outcome] # "queue"
      BY <1>1, <1>5, <3>1, <3>5 DEF OneElement
    <3> QED
      BY <1>4, <3>1, <3>3, <3>4, <3>6 DEF OneElement
  <2>3. Documented'
    <3>1. Documented
      BY <2>1 DEF AloneInv
    <3>2. \A p \in Outcomes : adding'[p] = IF p = o THEN "no" ELSE adding[p]
      BY <1>4 DEF Types
    <3>3. d.id = f.id /\ d.attempt <= f.attempt + 1 /\ d \in entry[f.outcome]
      BY <1>1
    <3>4. UNCHANGED entry
      BY <1>4
    <3> QED
      BY <1>5, <3>1, <3>2, <3>3, <3>4 DEF Documented
  <2>4. Started'
    BY <1>1, <1>2, <1>3, <1>4, <1>5, <2>1, <1>12 DEF Types, AloneInv, Documented, Started, InHand
  <2>5. Counted'
    BY <1>1, <1>2, <1>3, <1>4, <1>5, <2>1, <1>12 DEF Types, AloneInv, Documented, Counted, Uncounted, InHand
  <2> QED
    BY <2>2, <2>3, <2>4, <2>5
<1> QED
  BY <1>6, <1>7, <1>8, <1>9, <1>10, <1>11, <1>12 DEF AloneInv

\* add does not find the document again.
LEMMA AddRaisesKeeps ==
    ASSUME LisInv, NEW o \in Outcomes, AddQueue(o), entry[o] = {}
    PROVE  LisInv'
<1> USE Constants, Fields DEF LisInv, database, memory, history
<1>1. queue' = queue /\ adding[o] = "queue"
  <2>1. {AsElement(o, c) : c \in {}} = {}
    OBVIOUS
  <2>2. queue' = queue \o <<>>
    BY <2>1, EmptyToSeq DEF AddQueue
  <2> QED
    BY <2>2 DEF AddQueue, Types
<1>2. /\ adding' = [adding EXCEPT ![o] = "no"]
      /\ UNCHANGED <<database, worker, cursor, item, toPost, consumer, history, restarts>>
  BY DEF AddQueue
<1>3. \A e : InHand(e)' <=> InHand(e)
  BY <1>1, <1>2 DEF InHand
<1>4. Types'
  BY <1>1, <1>2, <1>3 DEF Types, Single
<1>5. Recent'
  BY <1>1, <1>2, <1>3 DEF Types, Recent
<1>6. OldIds'
  BY <1>1, <1>2, <1>3 DEF Types, OldIds
<1>7. PostedAsCreated'
  BY <1>1, <1>2, <1>3 DEF Types, PostedAsCreated, Recent, OldIds, InHand
<1>8. Covered'
  BY <1>1, <1>2, <1>3 DEF Types, Covered
<1>9. CreatedIsSent'
  BY <1>1, <1>2, <1>3 DEF Types, CreatedIsSent, PostedAsCreated
<1>10. ASSUME ~overlap' PROVE OneElement' /\ Documented' /\ Started' /\ Counted'
  <2>1. ~overlap
    BY <1>10, <1>1, <1>2, <1>3
  <2>2. OneElement'
    BY <1>1, <1>2, <1>3, <2>1, <1>10 DEF Types, AloneInv, OneElement, Documented, Started, InHand
  <2>3. Documented'
    BY <1>1, <1>2, <1>3, <2>1, <1>10 DEF Types, AloneInv, OneElement, Documented, Started
  <2>4. Started'
    BY <1>1, <1>2, <1>3, <2>1, <1>10 DEF Types, AloneInv, Documented, Started, InHand
  <2>5. Counted'
    BY <1>1, <1>2, <1>3, <2>1, <1>10 DEF Types, AloneInv, Documented, Counted, Uncounted, InHand
  <2> QED
    BY <2>2, <2>3, <2>4, <2>5
<1> QED
  BY <1>4, <1>5, <1>6, <1>7, <1>8, <1>9, <1>10 DEF AloneInv

\* The worker finds the documents.
LEMMA StartKeeps ==
    ASSUME LisInv, StartLoading
    PROVE  LisInv'
<1> USE Constants, Fields DEF LisInv, database, memory, history
<1>1. /\ worker = "start" /\ worker' = "loading" /\ cursor = {} /\ item = {}
      /\ UNCHANGED <<database, adding, queue, item, toPost, consumer, history, restarts>>
  BY DEF StartLoading, Types
<1>2. /\ cursor' \subseteq Element
      /\ \A e \in cursor' : \E d \in entry[e.outcome] : d.id = e.id /\ d.attempt = e.attempt
      /\ \A e, f \in cursor' : e.outcome = f.outcome => e = f
      /\ \A o \in Outcomes : \A d \in entry[o] : \E e \in cursor' : e.outcome = o /\ e.id = d.id
  <2>1. cursor' = UNION {{AsElement(o, d) : d \in entry[o]} : o \in Outcomes}
    BY DEF StartLoading
  <2>2. \A e \in cursor' : \E o \in Outcomes : \E d \in entry[o] : e = AsElement(o, d)
    BY <2>1
  <2>3. \A o \in Outcomes : \A d \in entry[o] : AsElement(o, d) \in cursor'
    BY <2>1
  <2>4. \A o \in Outcomes : \A d \in entry[o] : d \in Document
    BY DEF Types
  <2> HIDE DEF LisInv
  <2>5. \A e \in cursor' : /\ e \in Element
                          /\ \E d \in entry[e.outcome] : /\ e = AsElement(e.outcome, d)
                                                         /\ d.id = e.id /\ d.attempt = e.attempt
    <3> SUFFICES ASSUME NEW e \in cursor'
                 PROVE  /\ e \in Element
                        /\ \E d \in entry[e.outcome] : /\ e = AsElement(e.outcome, d)
                                                       /\ d.id = e.id /\ d.attempt = e.attempt
      OBVIOUS
    <3>1. PICK o \in Outcomes : \E d \in entry[o] : e = AsElement(o, d)
      BY <2>2
    <3>2. PICK d \in entry[o] : e = AsElement(o, d)
      BY <3>1
    <3>3. d \in Document
      BY <2>4
    <3>4. e \in Element /\ e.outcome = o /\ e.id = d.id /\ e.attempt = d.attempt
      BY <3>2, <3>3, Conversions
    <3> QED
      BY <3>2, <3>4
  <2>6. \A o \in Outcomes : \A d, c \in entry[o] : d = c
    BY DEF LisInv, Types, Single
  <2>7. \A e, f \in cursor' : e.outcome = f.outcome => e = f
    BY <2>5, <2>6, Fields
  <2> QED
    BY <2>3, <2>4, <2>5, <2>7, Conversions
<1>3. \A e : InHand(e)' <=> InHand(e) \/ e \in cursor'
  BY <1>1 DEF InHand
<1>4. Types'
  BY <1>1, <1>2, <1>3 DEF Types, Single
<1>5. Recent'
  BY <1>1, <1>2, <1>3 DEF Types, Recent
<1>6. OldIds'
  BY <1>1, <1>2, <1>3 DEF Types, OldIds
<1>7. PostedAsCreated'
  BY <1>1, <1>2, <1>3 DEF Types, PostedAsCreated, Recent, OldIds, InHand
<1>8. Covered'
  BY <1>1, <1>2, <1>3 DEF Types, Covered
<1>9. CreatedIsSent'
  BY <1>1, <1>2, <1>3 DEF Types, CreatedIsSent, PostedAsCreated
<1>10. ASSUME ~overlap' PROVE OneElement' /\ Documented' /\ Started' /\ Counted'
  <2>1. ~overlap
    BY <1>10, <1>1, <1>2, <1>3
  <2>2. OneElement'
    <3>1. /\ Range(queue) = {} /\ Apart(queue) /\ queue' = queue /\ item' = {}
          /\ \A p \in Outcomes : adding'[p] # "queue"
      BY <1>1, <2>1, EmptyQueue DEF AloneInv, Started
    <3> QED
      BY <1>2, <3>1 DEF OneElement
  <2>3. Documented'
    <3>1. Documented /\ UNCHANGED <<entry, adding>>
      BY <1>1, <2>1 DEF AloneInv
    <3>2. \A e \in Element : e \in cursor' => \E d \in entry[e.outcome] : d.id = e.id /\ d.attempt <= e.attempt + 1
      <4> SUFFICES ASSUME NEW e \in cursor', e \in Element
                   PROVE  \E d \in entry[e.outcome] : d.id = e.id /\ d.attempt <= e.attempt + 1
        OBVIOUS
      <4>1. PICK d \in entry[e.outcome] : d.id = e.id /\ d.attempt = e.attempt
        BY <1>2
      <4>2. e.attempt <= e.attempt + 1
        OBVIOUS
      <4> QED
        BY <4>1, <4>2
    <3> QED
      BY <1>3, <3>1, <3>2 DEF Documented
  <2>4. Started'
    BY <1>1, <1>2, <1>3, <2>1, <1>10 DEF Types, AloneInv, Documented, Started, InHand
  <2>5. Counted'
    BY <1>1, <1>2, <1>3, <2>1, <1>10 DEF Types, AloneInv, Documented, Counted, Uncounted, InHand
  <2> QED
    BY <2>2, <2>3, <2>4, <2>5
<1> QED
  BY <1>4, <1>5, <1>6, <1>7, <1>8, <1>9, <1>10 DEF AloneInv

\* The worker queues a document it has found.
LEMMA LoadOneKeeps ==
    ASSUME LisInv, LoadOne
    PROVE  LisInv'
<1> USE Constants, Fields DEF LisInv, database, memory, history
<1>1. PICK f \in cursor : queue' = Append(queue, f) /\ cursor' = cursor \ {f}
  BY DEF LoadOne
<1>2. /\ queue' \in Seq(Element) /\ Range(queue') = Range(queue) \cup {f} /\ f \in Element
      /\ Apart(queue) /\ (\A g \in Range(queue) : g.outcome # f.outcome) => Apart(queue')
  BY <1>1, Queueing DEF Types
<1>3. /\ worker = "loading" /\ item = {}
      /\ UNCHANGED <<database, adding, worker, item, toPost, consumer, history, restarts>>
  BY DEF LoadOne, Types
<1>4. \A e : InHand(e)' <=> InHand(e)
  BY <1>1, <1>2, <1>3 DEF InHand
<1>5. Types'
  BY <1>1, <1>2, <1>3, <1>4 DEF Types, Single
<1>6. Recent'
  BY <1>1, <1>2, <1>3, <1>4 DEF Types, Recent
<1>7. OldIds'
  BY <1>1, <1>2, <1>3, <1>4 DEF Types, OldIds
<1>8. PostedAsCreated'
  BY <1>1, <1>2, <1>3, <1>4 DEF Types, PostedAsCreated, Recent, OldIds, InHand
<1>9. Covered'
  BY <1>1, <1>2, <1>3, <1>4 DEF Types, Covered
<1>10. CreatedIsSent'
  BY <1>1, <1>2, <1>3, <1>4 DEF Types, CreatedIsSent, PostedAsCreated
<1>11. ASSUME ~overlap' PROVE OneElement' /\ Documented' /\ Started' /\ Counted'
  <2>1. ~overlap
    BY <1>11, <1>1, <1>2, <1>3, <1>4
  <2>2. OneElement'
    BY <1>1, <1>2, <1>3, <1>4, <2>1, <1>11 DEF Types, AloneInv, OneElement, Documented, Started, InHand
  <2>3. Documented'
    BY <1>1, <1>2, <1>3, <1>4, <2>1, <1>11 DEF Types, AloneInv, OneElement, Documented, Started
  <2>4. Started'
    BY <1>1, <1>2, <1>3, <1>4, <2>1, <1>11 DEF Types, AloneInv, Documented, Started, InHand
  <2>5. Counted'
    BY <1>1, <1>2, <1>3, <1>4, <2>1, <1>11 DEF Types, AloneInv, Documented, Counted, Uncounted, InHand
  <2> QED
    BY <2>2, <2>3, <2>4, <2>5
<1> QED
  BY <1>5, <1>6, <1>7, <1>8, <1>9, <1>10, <1>11 DEF AloneInv

\* All documents are loaded.
LEMMA LoadedKeeps ==
    ASSUME LisInv, Loaded
    PROVE  LisInv'
<1> USE Constants, Fields DEF LisInv, database, memory, history
<1>1. \A e : InHand(e)' <=> InHand(e)
  BY DEF Loaded, InHand
<1>2. Types'
  BY <1>1 DEF Loaded, Types, Single
<1>3. Recent'
  BY <1>1 DEF Loaded, Types, Recent
<1>4. OldIds'
  BY <1>1 DEF Loaded, Types, OldIds
<1>5. PostedAsCreated'
  BY <1>1 DEF Loaded, Types, PostedAsCreated, Recent, OldIds, InHand
<1>6. Covered'
  BY <1>1 DEF Loaded, Types, Covered
<1>7. CreatedIsSent'
  BY <1>1 DEF Loaded, Types, CreatedIsSent, PostedAsCreated
<1>8. ASSUME ~overlap' PROVE OneElement' /\ Documented' /\ Started' /\ Counted'
  <2>1. ~overlap
    BY <1>8 DEF Loaded
  <2>2. OneElement'
    BY <1>1, <2>1, <1>8 DEF Loaded, Types, AloneInv, OneElement, Documented, Started, InHand
  <2>3. Documented'
    BY <1>1, <2>1, <1>8 DEF Loaded, Types, AloneInv, OneElement, Documented, Started
  <2>4. Started'
    BY <1>1, <2>1, <1>8 DEF Loaded, Types, AloneInv, Documented, Started, InHand
  <2>5. Counted'
    BY <1>1, <2>1, <1>8 DEF Loaded, Types, AloneInv, Documented, Counted, Uncounted, InHand
  <2> QED
    BY <2>2, <2>3, <2>4, <2>5
<1> QED
  BY <1>2, <1>3, <1>4, <1>5, <1>6, <1>7, <1>8 DEF AloneInv

\* The worker takes an element.
LEMMA TakeKeeps ==
    ASSUME LisInv, Take
    PROVE  LisInv'
<1> USE Constants, Fields DEF LisInv, database, memory, history
<1>1. PICK f \in Element : f = Head(queue) /\ item' = {f}
  BY Taking DEF Take, Types
<1>2. /\ queue' \in Seq(Element) /\ Range(queue) = Range(queue') \cup {f}
      /\ Apart(queue) => Apart(queue') /\ \A g \in Range(queue') : g.outcome # f.outcome
  BY <1>1, Taking DEF Take, Types
<1>3. /\ worker = "idle" /\ worker' = "post" /\ item = {} /\ cursor = {} /\ toPost' = grade[f.outcome] /\ f.outcome \in Outcomes
      /\ UNCHANGED <<database, adding, cursor, consumer, history, restarts>>
  BY <1>1 DEF Take, Types
<1>4. \A e : InHand(e)' <=> InHand(e)
  BY <1>1, <1>2, <1>3 DEF InHand
<1>5. Types'
  BY <1>1, <1>2, <1>3, <1>4 DEF Types, Single
<1>6. Recent'
  BY <1>1, <1>2, <1>3, <1>4 DEF Types, Recent
<1>7. OldIds'
  BY <1>1, <1>2, <1>3, <1>4 DEF Types, OldIds
<1>8. PostedAsCreated'
  BY <1>1, <1>2, <1>3, <1>4 DEF Types, PostedAsCreated, Recent, OldIds, InHand
<1>9. Covered'
  BY <1>1, <1>2, <1>3, <1>4 DEF Types, Covered
<1>10. CreatedIsSent'
  BY <1>1, <1>2, <1>3, <1>4 DEF Types, CreatedIsSent, PostedAsCreated
<1>11. ASSUME ~overlap' PROVE OneElement' /\ Documented' /\ Started' /\ Counted'
  <2>1. ~overlap
    BY <1>11, <1>1, <1>2, <1>3, <1>4
  <2>2. OneElement'
    BY <1>1, <1>2, <1>3, <1>4, <2>1, <1>11 DEF Types, AloneInv, OneElement, Documented, Started, InHand
  <2>3. Documented'
    BY <1>1, <1>2, <1>3, <1>4, <2>1, <1>11 DEF Types, AloneInv, OneElement, Documented, Started
  <2>4. Started'
    BY <1>1, <1>2, <1>3, <1>4, <2>1, <1>11 DEF Types, AloneInv, Documented, Started, InHand
  <2>5. Counted'
    BY <1>1, <1>2, <1>3, <1>4, <2>1, <1>11 DEF Types, AloneInv, Documented, Counted, Uncounted, InHand
  <2> QED
    BY <2>2, <2>3, <2>4, <2>5
<1> QED
  BY <1>5, <1>6, <1>7, <1>8, <1>9, <1>10, <1>11 DEF AloneInv

\* The worker drops an element.
LEMMA DropKeeps ==
    ASSUME LisInv, Drop
    PROVE  LisInv'
<1> USE Constants, Fields DEF LisInv, database, memory, history
<1>1. PICK f \in Element : f = Head(queue)
  BY Taking DEF Drop, Types
<1>2. /\ queue' \in Seq(Element) /\ Range(queue) = Range(queue') \cup {f}
      /\ Apart(queue) => Apart(queue') /\ \A g \in Range(queue') : g.outcome # f.outcome
  BY <1>1, Taking DEF Drop, Types
<1>3. /\ worker = "idle" /\ dropped' = dropped \cup {f.outcome} /\ f.outcome \in Outcomes
      /\ UNCHANGED <<database, adding, worker, cursor, item, toPost, consumer, created, givenUp, overlap, posts, restarts>>
  BY <1>1 DEF Drop
<1>4. \A e : InHand(e) <=> InHand(e)' \/ e = f
  BY <1>2, <1>3 DEF InHand
<1>5. Types'
  BY <1>1, <1>2, <1>3, <1>4 DEF Types, Single
<1>6. Recent'
  BY <1>1, <1>2, <1>3, <1>4 DEF Types, Recent
<1>7. OldIds'
  BY <1>1, <1>2, <1>3, <1>4 DEF Types, OldIds
<1>8. PostedAsCreated'
  BY <1>1, <1>2, <1>3, <1>4 DEF Types, PostedAsCreated, Recent, OldIds, InHand
<1>9. Covered'
  BY <1>1, <1>2, <1>3, <1>4 DEF Types, Covered
<1>10. CreatedIsSent'
  BY <1>1, <1>2, <1>3, <1>4 DEF Types, CreatedIsSent, PostedAsCreated
<1>11. ASSUME ~overlap' PROVE OneElement' /\ Documented' /\ Started' /\ Counted'
  <2>1. ~overlap
    BY <1>11, <1>1, <1>2, <1>3, <1>4
  <2>2. OneElement'
    BY <1>1, <1>2, <1>3, <1>4, <2>1, <1>11 DEF Types, AloneInv, OneElement, Documented, Started, InHand
  <2>3. Documented'
    BY <1>1, <1>2, <1>3, <1>4, <2>1, <1>11 DEF Types, AloneInv, OneElement, Documented, Started
  <2>4. Started'
    BY <1>1, <1>2, <1>3, <1>4, <2>1, <1>11 DEF Types, AloneInv, Documented, Started, InHand
  <2>5. Counted'
    BY <1>1, <1>2, <1>3, <1>4, <2>1, <1>11 DEF Types, AloneInv, Documented, Counted, Uncounted, InHand
  <2> QED
    BY <2>2, <2>3, <2>4, <2>5
<1> QED
  BY <1>5, <1>6, <1>7, <1>8, <1>9, <1>10, <1>11 DEF AloneInv

\* The grade is posted.
LEMMA PostKeeps ==
    ASSUME LisInv, NEW arrives \in BOOLEAN, NEW succeeds \in BOOLEAN, Post(arrives, succeeds)
    PROVE  LisInv'
<1> USE Constants, Fields DEF LisInv, database, memory, history
<1>1. PICK f \in Element : item = {f} /\ f.outcome \in Outcomes
  BY InHandOfWorker DEF Post
<1>2. /\ worker = "post" /\ worker' \in {"posted", "failed"} /\ (worker' = "posted" => arrives) /\ toPost' = 0
      /\ consumer' = IF arrives THEN [consumer EXCEPT ![f.outcome] = toPost] ELSE consumer
      /\ posts' = [posts EXCEPT ![f.outcome] = @ + 1]
      /\ UNCHANGED <<database, adding, queue, cursor, item, created, givenUp, dropped, overlap, restarts>>
  BY <1>1 DEF Post
<1>3. \A e : InHand(e)' <=> InHand(e)
  BY <1>2 DEF InHand
<1>4. Types'
  BY <1>1, <1>2, <1>3 DEF Types, Single
<1>5. Recent'
  BY <1>1, <1>2, <1>3 DEF Types, Recent
<1>6. OldIds'
  BY <1>1, <1>2, <1>3 DEF Types, OldIds
<1>7. PostedAsCreated'
  BY <1>1, <1>2, <1>3 DEF Types, PostedAsCreated, Recent, OldIds, InHand
<1>8. Covered'
  BY <1>1, <1>2, <1>3 DEF Types, Covered
<1>9. CreatedIsSent'
  BY <1>1, <1>2, <1>3 DEF Types, CreatedIsSent, PostedAsCreated, Recent
<1>10. ASSUME ~overlap' PROVE OneElement' /\ Documented' /\ Started' /\ Counted'
  <2>1. ~overlap
    BY <1>10, <1>1, <1>2, <1>3
  <2>2. OneElement'
    BY <1>1, <1>2, <1>3, <2>1, <1>10 DEF Types, AloneInv, OneElement, Documented, Started, InHand
  <2>3. Documented'
    BY <1>1, <1>2, <1>3, <2>1, <1>10 DEF Types, AloneInv, OneElement, Documented, Started
  <2>4. Started'
    BY <1>1, <1>2, <1>3, <2>1, <1>10 DEF Types, AloneInv, Documented, Started, InHand
  <2>5. Counted'
    <3>1. ASSUME NEW p \in Outcomes, p # f.outcome PROVE posts'[p] = posts[p] /\ Uncounted(p) = 0 /\ Uncounted(p)' = 0
      BY <1>1, <1>2, <3>1 DEF Types, Uncounted
    <3>2. posts'[f.outcome] = posts[f.outcome] + 1 /\ posts[f.outcome] \in Nat
      BY <1>1, <1>2 DEF Types
    <3>3. Uncounted(f.outcome) = 0 /\ Uncounted(f.outcome)' = 1 /\ entry[f.outcome] # {}
      BY <1>1, <1>2, <2>1 DEF AloneInv, Documented, Uncounted, InHand
    <3>4. UNCHANGED <<entry, restarts>> /\ restarts \in Nat /\ \A p \in Outcomes : entry[p] \subseteq Document
      BY <1>2 DEF Types
    <3> QED
      BY <1>1, <2>1, <3>1, <3>2, <3>3, <3>4 DEF AloneInv, Counted
  <2> QED
    BY <2>2, <2>3, <2>4, <2>5
<1> QED
  BY <1>4, <1>5, <1>6, <1>7, <1>8, <1>9, <1>10 DEF AloneInv

\* The document of a posted grade is deleted.
LEMMA DeletePostedKeeps ==
    ASSUME LisInv, DeletePosted
    PROVE  LisInv'
<1> USE Constants, Fields DEF LisInv, database, memory, history
<1>1. PICK f \in Element : item = {f} /\ f.outcome \in Outcomes
  BY InHandOfWorker DEF DeletePosted
<1>2. /\ worker = "posted" /\ worker' = "idle" /\ item' = {} /\ cursor = {}
      /\ entry' = [entry EXCEPT ![f.outcome] = {d \in @ : d.id # f.id}]
      /\ UNCHANGED <<grade, ids, adding, queue, cursor, toPost, consumer, history, restarts>>
  BY <1>1 DEF DeletePosted, Delete, Types
<1>3. \A e : InHand(e) <=> InHand(e)' \/ e = f
  BY <1>1, <1>2 DEF InHand
<1>4. Types'
  BY <1>1, <1>2, <1>3 DEF Types, Single
<1>5. Recent'
  BY <1>1, <1>2, <1>3 DEF Types, Recent
<1>6. OldIds'
  BY <1>1, <1>2, <1>3 DEF Types, OldIds
<1>7. PostedAsCreated'
  BY <1>1, <1>2, <1>3 DEF Types, PostedAsCreated, Recent, OldIds, InHand
<1>8. Covered'
  BY <1>1, <1>2, <1>3 DEF Types, Covered
<1>9. CreatedIsSent'
  BY <1>1, <1>2, <1>3 DEF Types, CreatedIsSent, PostedAsCreated
<1>10. ASSUME ~overlap' PROVE OneElement' /\ Documented' /\ Started' /\ Counted'
  <2>1. ~overlap
    BY <1>10, <1>1, <1>2, <1>3
  <2>2. OneElement'
    BY <1>1, <1>2, <1>3, <2>1, <1>10 DEF Types, AloneInv, OneElement, Documented, Started, InHand
  <2>3. Documented'
    <3>1. Documented /\ OneElement /\ UNCHANGED adding
      BY <1>2, <2>1 DEF AloneInv
    <3>2. \A p \in Outcomes : p # f.outcome => entry'[p] = entry[p]
      BY <1>2 DEF Types
    <3>3. adding[f.outcome] # "queue" /\ \A e : InHand(e)' => InHand(e) /\ e.outcome # f.outcome
      BY <1>1, <1>2, <3>1, InHandAlone DEF InHand
    <3> QED
      BY <3>1, <3>2, <3>3 DEF Documented
  <2>4. Started'
    BY <1>1, <1>2, <1>3, <2>1, <1>10 DEF Types, AloneInv, Documented, Started, InHand
  <2>5. Counted'
    <3>1. Documented /\ OneElement /\ Counted /\ UNCHANGED <<posts, restarts>>
      BY <1>2, <2>1 DEF AloneInv
    <3>2. PICK d \in Document : entry[f.outcome] = {d} /\ d.id = f.id
      BY <1>1, <1>2, <3>1, InHandAlone
    <3>3. entry'[f.outcome] = {} /\ \A p \in Outcomes : p # f.outcome => entry'[p] = entry[p]
      BY <1>1, <1>2, <3>2 DEF Types
    <3>4. posts[f.outcome] <= MaxAttempt + 2 + restarts
      <4>1. d.attempt <= MaxAttempt + 1 /\ posts[f.outcome] <= d.attempt + restarts + Uncounted(f.outcome)
        BY <1>1, <3>1, <3>2 DEF Counted
      <4>2. Uncounted(f.outcome) \in 0..1 /\ restarts \in Nat /\ posts[f.outcome] \in Nat /\ d.attempt \in Nat
        BY <1>1 DEF Uncounted, Types
      <4> QED
        BY <4>1, <4>2
    <3>5. \A p \in Outcomes : p # f.outcome => Uncounted(p)' = 0 /\ Uncounted(p) = 0
      BY <1>1, <1>2 DEF Uncounted
    <3> QED
      BY <3>1, <3>3, <3>4, <3>5 DEF Counted
  <2> QED
    BY <2>2, <2>3, <2>4, <2>5
<1> QED
  BY <1>4, <1>5, <1>6, <1>7, <1>8, <1>9, <1>10 DEF AloneInv

\* A grade is given up.
LEMMA GiveUpKeeps ==
    ASSUME LisInv, GiveUp
    PROVE  LisInv'
<1> USE Constants, Fields DEF LisInv, database, memory, history
<1>1. PICK f \in Element : item = {f} /\ f.outcome \in Outcomes
  BY InHandOfWorker DEF GiveUp
<1>2. /\ worker = "failed" /\ worker' = "idle" /\ item' = {} /\ cursor = {}
      /\ entry' = [entry EXCEPT ![f.outcome] = {d \in @ : d.id # f.id}]
      /\ givenUp' = givenUp \cup {f.outcome} /\ f.attempt >= MaxAttempt
      /\ UNCHANGED <<grade, ids, adding, queue, cursor, toPost, consumer, created, dropped, overlap, posts, restarts>>
  BY <1>1 DEF GiveUp, Delete, Types
<1>3. \A e : InHand(e) <=> InHand(e)' \/ e = f
  BY <1>1, <1>2 DEF InHand
<1>4. Types'
  BY <1>1, <1>2, <1>3 DEF Types, Single
<1>5. Recent'
  BY <1>1, <1>2, <1>3 DEF Types, Recent
<1>6. OldIds'
  BY <1>1, <1>2, <1>3 DEF Types, OldIds
<1>7. PostedAsCreated'
  BY <1>1, <1>2, <1>3 DEF Types, PostedAsCreated, Recent, OldIds, InHand
<1>8. Covered'
  BY <1>1, <1>2, <1>3 DEF Types, Covered
<1>9. CreatedIsSent'
  BY <1>1, <1>2, <1>3 DEF Types, CreatedIsSent, PostedAsCreated
<1>10. ASSUME ~overlap' PROVE OneElement' /\ Documented' /\ Started' /\ Counted'
  <2>1. ~overlap
    BY <1>10, <1>1, <1>2, <1>3
  <2>2. OneElement'
    BY <1>1, <1>2, <1>3, <2>1, <1>10 DEF Types, AloneInv, OneElement, Documented, Started, InHand
  <2>3. Documented'
    <3>1. Documented /\ OneElement /\ UNCHANGED adding
      BY <1>2, <2>1 DEF AloneInv
    <3>2. \A p \in Outcomes : p # f.outcome => entry'[p] = entry[p]
      BY <1>2 DEF Types
    <3>3. adding[f.outcome] # "queue" /\ \A e : InHand(e)' => InHand(e) /\ e.outcome # f.outcome
      BY <1>1, <1>2, <3>1, InHandAlone DEF InHand
    <3> QED
      BY <3>1, <3>2, <3>3 DEF Documented
  <2>4. Started'
    BY <1>1, <1>2, <1>3, <2>1, <1>10 DEF Types, AloneInv, Documented, Started, InHand
  <2>5. Counted'
    <3>1. Documented /\ OneElement /\ Counted /\ UNCHANGED <<posts, restarts>>
      BY <1>2, <2>1 DEF AloneInv
    <3>2. PICK d \in Document : entry[f.outcome] = {d} /\ d.id = f.id
      BY <1>1, <1>2, <3>1, InHandAlone
    <3>3. entry'[f.outcome] = {} /\ \A p \in Outcomes : p # f.outcome => entry'[p] = entry[p]
      BY <1>1, <1>2, <3>2 DEF Types
    <3>4. posts[f.outcome] <= MaxAttempt + 2 + restarts
      <4>1. d.attempt <= MaxAttempt + 1 /\ posts[f.outcome] <= d.attempt + restarts + Uncounted(f.outcome)
        BY <1>1, <3>1, <3>2 DEF Counted
      <4>2. Uncounted(f.outcome) \in 0..1 /\ restarts \in Nat /\ posts[f.outcome] \in Nat /\ d.attempt \in Nat
        BY <1>1 DEF Uncounted, Types
      <4> QED
        BY <4>1, <4>2
    <3>5. \A p \in Outcomes : p # f.outcome => Uncounted(p)' = 0 /\ Uncounted(p) = 0
      BY <1>1, <1>2 DEF Uncounted
    <3> QED
      BY <3>1, <3>3, <3>4, <3>5 DEF Counted
  <2> QED
    BY <2>2, <2>3, <2>4, <2>5
<1> QED
  BY <1>4, <1>5, <1>6, <1>7, <1>8, <1>9, <1>10 DEF AloneInv

\* The document is gone.
LEMMA RetryGoneKeeps ==
    ASSUME LisInv, RetryGone
    PROVE  LisInv'
<1> USE Constants, Fields DEF LisInv, database, memory, history
<1>1. PICK f \in Element : item = {f} /\ f.outcome \in Outcomes
  BY InHandOfWorker DEF RetryGone
<1>2. /\ worker = "failed" /\ worker' = "dead" /\ item' = {} /\ cursor = {}
      /\ \A d \in entry[f.outcome] : d.id # f.id
      /\ UNCHANGED <<database, adding, queue, cursor, toPost, consumer, history, restarts>>
  BY <1>1 DEF RetryGone, Delete, Types
<1>3. \A e : InHand(e) <=> InHand(e)' \/ e = f
  BY <1>1, <1>2 DEF InHand
<1>4. Types'
  BY <1>1, <1>2, <1>3 DEF Types, Single
<1>5. Recent'
  BY <1>1, <1>2, <1>3 DEF Types, Recent
<1>6. OldIds'
  BY <1>1, <1>2, <1>3 DEF Types, OldIds
<1>7. PostedAsCreated'
  BY <1>1, <1>2, <1>3 DEF Types, PostedAsCreated, Recent, OldIds, InHand
<1>8. Covered'
  BY <1>1, <1>2, <1>3 DEF Types, Covered
<1>9. CreatedIsSent'
  BY <1>1, <1>2, <1>3 DEF Types, CreatedIsSent, PostedAsCreated
<1>10. ASSUME ~overlap' PROVE OneElement' /\ Documented' /\ Started' /\ Counted'
  <2>1. ~overlap
    BY <1>10, <1>1, <1>2, <1>3
  <2>2. OneElement'
    BY <1>1, <1>2, <1>3, <2>1, <1>10 DEF Types, AloneInv, OneElement, Documented, Started, InHand
  <2>3. Documented'
    BY <1>1, <1>2, <1>3, <2>1, <1>10 DEF Types, AloneInv, OneElement, Documented, Started
  <2>4. Started'
    BY <1>1, <1>2, <1>3, <2>1, <1>10 DEF Types, AloneInv, Documented, Started, InHand
  <2>5. Counted'
    BY <1>1, <1>2, <1>3, <2>1, <1>10 DEF Types, AloneInv, Documented, Counted, Uncounted, InHand
  <2> QED
    BY <2>2, <2>3, <2>4, <2>5
<1> QED
  BY <1>4, <1>5, <1>6, <1>7, <1>8, <1>9, <1>10 DEF AloneInv

\* A grade is tried again.
LEMMA RetryKeeps ==
    ASSUME LisInv, Retry
    PROVE  LisInv'
<1> USE Constants, Fields DEF LisInv, database, memory, history
<1>1. PICK f \in Element : item = {f} /\ f.outcome \in Outcomes
  BY InHandOfWorker DEF Retry
<1>2. PICK c \in Document : /\ entry[f.outcome] = {c} /\ c.id = f.id /\ f.attempt < MaxAttempt
                          /\ queue' = Append(queue, AsElement(f.outcome, c))
  <2>1. PICK c \in entry[f.outcome] : c.id = f.id /\ f.attempt < MaxAttempt /\ queue' = Append(queue, AsElement(f.outcome, c))
    BY <1>1 DEF Retry
  <2>2. entry[f.outcome] = {c} /\ c \in Document
    BY <1>1, <2>1 DEF Types, Single
  <2> QED
    BY <2>1, <2>2
<1>3. PICK d \in Document, g \in Element :
        /\ d = [c EXCEPT !.attempt = @ + 1] /\ d.id = c.id /\ d.attempt = c.attempt + 1
        /\ g = AsElement(f.outcome, c) /\ g.outcome = f.outcome /\ g.id = c.id /\ g.attempt = c.attempt
  <2>1. PICK d \in Document : d = [c EXCEPT !.attempt = @ + 1] /\ d.id = c.id /\ d.attempt = c.attempt + 1
    BY Conversions
  <2>2. PICK g \in Element :
          g = AsElement(f.outcome, c) /\ g.outcome = f.outcome /\ g.id = c.id /\ g.attempt = c.attempt
    <3> DEFINE n == AsElement(f.outcome, c)
    <3>1. n \in Element /\ n.outcome = f.outcome /\ n.id = c.id /\ n.attempt = c.attempt
      BY <1>1, Conversions
    <3> HIDE DEF n
    <3>2. \E g \in Element : g = n /\ g.outcome = f.outcome /\ g.id = c.id /\ g.attempt = c.attempt
      BY <3>1
    <3> QED
      BY <3>2 DEF n
  <2> QED
    BY <2>1, <2>2
<1>4. /\ worker = "failed" /\ worker' = "idle" /\ item' = {} /\ cursor = {}
      /\ c.id = f.id /\ f.attempt < MaxAttempt /\ entry[f.outcome] = {c}
      /\ d.id = c.id /\ d.attempt = c.attempt + 1
      /\ g.outcome = f.outcome /\ g.id = c.id /\ g.attempt = c.attempt
      /\ \A p \in Outcomes : entry'[p] = IF p = f.outcome THEN {d} ELSE entry[p]
      /\ entry' = [entry EXCEPT ![f.outcome] = {d}]
      /\ UNCHANGED <<grade, ids, adding, cursor, toPost, consumer, history, restarts>>
  <2>1. entry' = [entry EXCEPT ![f.outcome] = {[b EXCEPT !.attempt = @ + 1] : b \in @}]
    BY <1>1 DEF Retry
  <2>2. {[b EXCEPT !.attempt = @ + 1] : b \in entry[f.outcome]} = {d}
    BY <1>2, <1>3
  <2>3. entry' = [entry EXCEPT ![f.outcome] = {d}]
    BY <2>1, <2>2
  <2>4. \A p \in Outcomes : entry'[p] = IF p = f.outcome THEN {d} ELSE entry[p]
    BY <2>3 DEF Types
  <2> QED
    BY <1>2, <1>3, <2>3, <2>4 DEF Retry, Types
<1>5. /\ queue' \in Seq(Element) /\ Range(queue') = Range(queue) \cup {g}
      /\ Apart(queue) /\ (\A e \in Range(queue) : e.outcome # g.outcome) => Apart(queue')
  BY <1>2, <1>3, Queueing DEF Types
<1>6. \A e : (InHand(e) \/ e = g <=> InHand(e)' \/ e = f) /\ (InHand(e)' <=> e \in Range(queue) \/ e = g)
  BY <1>1, <1>4, <1>5 DEF InHand
<1>7. Types'
  <2>1. entry' \in [Outcomes -> SUBSET Document] /\ \A p \in Outcomes : Single(entry'[p])
    <3>1. {d} \in SUBSET Document /\ Single({d})
      BY DEF Single
    <3>2. entry' \in [Outcomes -> SUBSET Document]
      BY <1>1, <1>4, <3>1 DEF Types
    <3> QED
      BY <1>1, <1>4, <3>1, <3>2 DEF Types
  <2> QED
    BY <1>1, <1>4, <1>5, <2>1 DEF Types, Single
<1>8. Recent'
  BY <1>1, <1>4, <1>5, <1>6 DEF Types, Recent
<1>9. OldIds'
  <2>1. \A p \in Outcomes : \A b \in entry'[p] : b.id <= ids'[p]
    <3> SUFFICES ASSUME NEW p \in Outcomes, NEW b \in entry'[p] PROVE b.id <= ids'[p]
      OBVIOUS
    <3>1. ids' = ids /\ c \in entry[f.outcome]
      BY <1>4
    <3>2. CASE p = f.outcome
      BY <1>4, <3>1, <3>2 DEF OldIds
    <3>3. CASE p # f.outcome
      BY <1>4, <3>1, <3>3 DEF OldIds
    <3> QED
      BY <3>2, <3>3
  <2>2. c.id <= ids[f.outcome]
    BY <1>1, <1>4 DEF OldIds
  <2>3. \A e \in Element : InHand(e)' => e.id <= ids'[e.outcome]
    <3> SUFFICES ASSUME NEW e \in Element, InHand(e)' PROVE e.id <= ids'[e.outcome]
      OBVIOUS
    <3>1. CASE e = g
      BY <1>4, <2>2, <3>1
    <3>2. CASE InHand(e)
      BY <1>4, <3>2 DEF OldIds
    <3> QED
      BY <1>6, <3>1, <3>2 DEF InHand
  <2> QED
    BY <2>1, <2>3 DEF OldIds
<1>10. PostedAsCreated'
  BY <1>1, <1>4, <1>5, <1>6 DEF Types, PostedAsCreated, Recent, OldIds, InHand
<1>11. Covered'
  BY <1>1, <1>4, <1>5, <1>6 DEF Types, Covered
<1>12. CreatedIsSent'
  BY <1>1, <1>4, <1>5, <1>6 DEF Types, CreatedIsSent, PostedAsCreated
<1>13. ASSUME ~overlap' PROVE OneElement' /\ Documented' /\ Started' /\ Counted'
  <2>1. ~overlap
    BY <1>13, <1>1, <1>2, <1>3, <1>4, <1>5, <1>6
  <2>2. OneElement'
    BY <1>1, <1>4, <1>5, <1>6, <2>1, <1>13 DEF Types, AloneInv, OneElement, Documented, Started, InHand
  <2>3. Documented'
    <3>1. Documented /\ OneElement /\ UNCHANGED adding
      BY <1>4, <2>1 DEF AloneInv
    <3>2. /\ \A e \in Range(queue) : e \in Element /\ e.outcome # f.outcome
          /\ adding[f.outcome] # "queue"
      BY <1>1, <1>4, <3>1, InHandAlone
    <3>3. ASSUME NEW e \in Element, InHand(e)'
          PROVE  \E b \in entry'[e.outcome] : b.id = e.id /\ b.attempt <= e.attempt + 1
      <4>1. CASE e = g
        BY <1>1, <1>4, <4>1
      <4>2. CASE e \in Range(queue)
        BY <1>4, <3>1, <3>2, <4>2 DEF Documented, InHand
      <4> QED
        BY <1>6, <3>3, <4>1, <4>2
    <3> QED
      BY <1>4, <3>1, <3>2, <3>3 DEF Documented
  <2>4. Started'
    BY <1>1, <1>4, <1>5, <1>6, <2>1, <1>13 DEF Types, AloneInv, Documented, Started, InHand
  <2>5. Counted'
    <3>1. Documented /\ OneElement /\ Counted /\ UNCHANGED <<posts, restarts>>
      BY <1>4, <2>1 DEF AloneInv
    <3>2. c.attempt <= f.attempt + 1
      BY <1>1, <1>4, <3>1, InHandAlone
    <3>3. d.attempt <= MaxAttempt + 1 /\ d.attempt \in Nat
      BY <1>4, <3>2
    <3>4. posts[f.outcome] <= d.attempt + restarts
      <4>1. posts[f.outcome] <= c.attempt + restarts + Uncounted(f.outcome)
        BY <1>1, <1>4, <3>1 DEF Counted
      <4>2. Uncounted(f.outcome) \in 0..1 /\ restarts \in Nat /\ posts[f.outcome] \in Nat
        BY <1>1 DEF Uncounted, Types
      <4> QED
        BY <1>4, <4>1, <4>2
    <3>5. \A p \in Outcomes : Uncounted(p)' = 0 /\ (p # f.outcome => Uncounted(p) = 0)
      BY <1>1, <1>4 DEF Uncounted
    <3>6. restarts \in Nat
      BY DEF Types
    <3> QED
      BY <1>4, <3>1, <3>3, <3>4, <3>5, <3>6 DEF Counted
  <2> QED
    BY <2>2, <2>3, <2>4, <2>5
<1> QED
  BY <1>7, <1>8, <1>9, <1>10, <1>11, <1>12, <1>13 DEF AloneInv

\* The frontend restarts.
LEMMA RestartKeeps ==
    ASSUME LisInv, Restart
    PROVE  LisInv'
<1> USE Constants, Fields DEF LisInv, database, memory, history
<1>1. \A e : ~InHand(e)'
  BY DEF Restart, InHand, Range
<1>2. Types'
  BY <1>1 DEF Restart, Types, Single
<1>3. Recent'
  BY <1>1 DEF Restart, Types, Recent
<1>4. OldIds'
  BY <1>1 DEF Restart, Types, OldIds
<1>5. PostedAsCreated'
  BY <1>1 DEF Restart, Types, PostedAsCreated, Recent, OldIds, InHand
<1>6. Covered'
  BY <1>1 DEF Restart, Types, Covered
<1>7. CreatedIsSent'
  BY <1>1 DEF Restart, Types, CreatedIsSent, PostedAsCreated
<1>8. ASSUME ~overlap' PROVE OneElement' /\ Documented' /\ Started' /\ Counted'
  <2>1. ~overlap
    BY <1>8 DEF Restart
  <2>2. OneElement'
    BY <1>1, EmptyQueue DEF Restart, OneElement
  <2>3. Documented'
    BY <1>1, <2>1, <1>8 DEF Restart, Types, AloneInv, OneElement, Documented, Started
  <2>4. Started'
    BY <1>1, <2>1, <1>8 DEF Restart, Types, AloneInv, Documented, Started, InHand
  <2>5. Counted'
    <3>1. Counted /\ UNCHANGED <<posts, entry>> /\ restarts' = restarts + 1 /\ restarts \in Nat
      BY <2>1 DEF Restart, AloneInv, Types
    <3>2. \A p \in Outcomes : Uncounted(p)' = 0 /\ Uncounted(p) \in 0..1 /\ posts[p] \in Nat
      BY DEF Uncounted, Restart, Types
    <3>3. \A p \in Outcomes : \A d \in entry[p] : d.attempt \in Nat
      BY DEF Types
    <3> QED
      BY <3>1, <3>2, <3>3 DEF Counted
  <2> QED
    BY <2>2, <2>3, <2>4, <2>5
<1> QED
  BY <1>2, <1>3, <1>4, <1>5, <1>6, <1>7, <1>8 DEF AloneInv

-----------------------------------------------------------------------------
\* Stuttering keeps it too.
LEMMA StutterKeeps ==
    ASSUME LisInv, UNCHANGED vars
    PROVE  LisInv'
<1> USE DEF vars, database, memory, history
<1>1. \A e : InHand(e)' <=> InHand(e)
  BY DEF InHand
<1>2. \A o : Uncounted(o)' = Uncounted(o)
  BY DEF Uncounted
<1>3. AloneInv'
  BY <1>1, <1>2 DEF LisInv, AloneInv, OneElement, Documented, Started, Counted
<1>4. CreatedIsSent' /\ PostedAsCreated' /\ OldIds'
  BY <1>1 DEF LisInv, CreatedIsSent, PostedAsCreated, OldIds
<1>5. Types' /\ Recent'
  BY DEF LisInv, Types, Recent
<1>6. Covered'
  BY <1>1 DEF LisInv, Covered
<1> QED
  BY <1>3, <1>4, <1>5, <1>6 DEF LisInv

\* _add_to_database: a new document, or an update of the one there is
LEMMA AddKeeps ==
    ASSUME LisInv, NEW o \in Outcomes, Add(o)
    PROVE  LisInv'
<1>1. entry[o] = {} \/ \E d \in Document : entry[o] = {d}
  BY SingleCases DEF LisInv, Types
<1>2. CASE AddUpsert(o)
  BY <1>2, AddCreatesKeeps, AddResetsKeeps
<1>3. CASE AddQueue(o)
  BY <1>1, <1>3, AddQueuesKeeps, AddRaisesKeeps
<1> QED
  BY <1>2, <1>3 DEF Add

\* The inductive invariant: grades get more recent on their way to the
\* consumer, each document is in memory, and, as long as no grade is added
\* while the worker loads the documents, it is there once and with a count
\* of attempts that bounds the posts.
THEOREM LisInvariant == Spec => []LisInv
<1>1. Init => LisInv
  <2> SUFFICES ASSUME Init PROVE LisInv
    OBVIOUS
  <2> USE Constants, EmptyQueue DEF Init
  <2>1. Types
    <3>1. /\ grade \in [Outcomes -> Nat] /\ consumer \in [Outcomes -> Nat] /\ created \in [Outcomes -> Nat]
          /\ ids \in [Outcomes -> Nat] /\ posts \in [Outcomes -> Nat]
          /\ adding \in [Outcomes -> {"no", "update", "queue"}]
      OBVIOUS
    <3>2. entry \in [Outcomes -> SUBSET Document] /\ \A o \in Outcomes : Single(entry[o])
      BY DEF Single
    <3>3. Single(item) /\ restarts \in 0..MaxRestarts
      BY DEF Single
    <3> QED
      BY <3>1, <3>2, <3>3 DEF Types
  <2>2. \A e : ~InHand(e)
    BY DEF InHand
  <2>3. Recent /\ OldIds /\ PostedAsCreated /\ Covered /\ CreatedIsSent
    BY <2>1, <2>2 DEF Recent, OldIds, PostedAsCreated, Covered, CreatedIsSent
  <2>4. OneElement /\ Documented /\ Started
    BY <2>2 DEF OneElement, Documented, Started
  <2>5. Counted
    BY DEF Counted
  <2> QED
    BY <2>1, <2>3, <2>4, <2>5 DEF LisInv, AloneInv
<1>2. LisInv /\ [Next]_vars => LisInv'
  <2> SUFFICES ASSUME LisInv, [Next]_vars PROVE LisInv'
    OBVIOUS
  <2>1. ASSUME NEW o \in Outcomes, JobDone(o) \/ Add(o) PROVE LisInv'
    BY <2>1, JobDoneKeeps, AddKeeps
  <2>2. CASE StartLoading \/ LoadOne \/ Loaded
    BY <2>2, StartKeeps, LoadOneKeeps, LoadedKeeps
  <2>3. CASE Take \/ Drop
    BY <2>3, TakeKeeps, DropKeeps
  <2>4. ASSUME NEW arrives \in BOOLEAN, NEW succeeds \in BOOLEAN, Post(arrives, succeeds) PROVE LisInv'
    BY <2>4, PostKeeps
  <2>5. CASE DeletePosted \/ Retry \/ RetryGone \/ GiveUp
    BY <2>5, DeletePostedKeeps, RetryKeeps, RetryGoneKeeps, GiveUpKeeps
  <2>6. CASE Restart
    BY <2>6, RestartKeeps
  <2>7. CASE UNCHANGED vars
    BY <2>7, StutterKeeps
  <2> QED
    BY <2>1, <2>2, <2>3, <2>4, <2>5, <2>6, <2>7 DEF Next, Work
<1> QED
  BY <1>1, <1>2, PTL DEF Spec

\* The variables of the transmission stay in their types, grades within
\* those stored, and an outcome has one document at most.
THEOREM TypeCorrect == Spec => []TypeOK
<1>1. LisInv => TypeOK
  <2> SUFFICES ASSUME LisInv PROVE TypeOK
    OBVIOUS
  <2> USE DEF LisInv
  <2>1. \A o \in Outcomes : {grade[o], consumer[o], created[o]} \subseteq 0..MaxGrade[o]
    BY Constants DEF Types, Recent
  <2>2. \A o \in Outcomes : entry[o] \subseteq Document /\ Cardinality(entry[o]) <= 1
    BY SingleCardinality DEF Types
  <2> QED
    BY <2>1, <2>2 DEF Types, TypeOK
<1> QED
  BY <1>1, LisInvariant, PTL

\* The worker thread dies only if a grade was added before it had loaded the
\* documents.
THEOREM WorkerSurvives == Spec => []ThreadSurvives
<1>1. LisInv => ThreadSurvives
  BY DEF LisInv, AloneInv, Started, ThreadSurvives
<1> QED
  BY <1>1, LisInvariant, PTL

\* What the database holds is in memory too, or will be loaded, or was dropped.
THEOREM NothingForgotten == Spec => []InMemory
<1>1. LisInv => InMemory
  <2> SUFFICES ASSUME LisInv, NEW o \in Outcomes, NEW d \in entry[o]
               PROVE  \/ \E k \in Queued(o) : queue[k].id = d.id
                      \/ \E e \in Elsewhere(o) : e.id = d.id
                      \/ adding[o] = "queue"
                      \/ worker = "start"
                      \/ o \in dropped
    BY DEF InMemory
  <2>1. CASE \E e \in Element : InHand(e) /\ e.outcome = o /\ e.id = d.id
    BY <2>1 DEF InHand, Range, Queued, Elsewhere
  <2> QED
    BY <2>1 DEF LisInv, Covered
<1> QED
  BY <1>1, LisInvariant, PTL

\* An entry is deleted only once the consumer has a grade as recent as the
\* one it was created for, or after too many attempts.
THEOREM DeletedOnceSent == Spec => []CreatedIsSent
<1>1. LisInv => CreatedIsSent
  BY DEF LisInv
<1> QED
  BY <1>1, LisInvariant, PTL

\* The posts of an outcome since its last add are bounded.
THEOREM PostsBounded == Spec => []AttemptsBounded
<1>1. LisInv => AttemptsBounded
  <2> SUFFICES ASSUME LisInv, ~overlap, NEW o \in Outcomes
               PROVE  posts[o] <= MaxAttempt + 2 + restarts
    BY DEF AttemptsBounded
  <2>1. /\ entry[o] = {} => posts[o] <= MaxAttempt + 2 + restarts
        /\ \A d \in entry[o] : d.attempt <= MaxAttempt + 1 /\ posts[o] <= d.attempt + restarts + Uncounted(o)
    BY DEF LisInv, AloneInv, Counted
  <2>2. /\ Uncounted(o) \in 0..1 /\ restarts \in Nat /\ posts[o] \in Nat /\ MaxAttempt \in Nat
        /\ \A d \in entry[o] : d.attempt \in Nat
    BY Constants, Fields DEF Uncounted, LisInv, Types
  <2>3. CASE entry[o] = {}
    BY <2>1, <2>3
  <2>4. ASSUME NEW d \in entry[o] PROVE posts[o] <= MaxAttempt + 2 + restarts
    BY <2>1, <2>2, <2>4
  <2> QED
    BY <2>3, <2>4
<1> QED
  BY <1>1, LisInvariant, PTL
=============================================================================
