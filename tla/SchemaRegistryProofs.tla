------------------------ MODULE SchemaRegistryProofs ------------------------
(***************************************************************************)
(* Proofs about SchemaRegistry and SchemaCompatibility, for any number of  *)
(* versions and of activations in flight, and any SDLs.                    *)
(*                                                                         *)
(* Equal texts are texts of equal types, so a compatible schema has every  *)
(* field of the one before with its type, and being one after the other is *)
(* transitive: it outlives the schemas of the upgrades in between.         *)
(***************************************************************************)
EXTENDS SchemaCompatibility, FiniteSetTheorems, SequenceTheorems, TLAPS

\* What a transaction t in flight has seen and locked.  Every row it has not
\* seen was created after it began, while it ran.
TransactionOK(t) ==
    /\ t.pc \in {"idle", "deactivate"} => t.locks = {}
    /\ t.pc = "activate" => t.locks = t.sees
    /\ t.pc = "commit" => t.locks = t.sees \union {t.version}
    /\ t.pc # "idle" => /\ t.version \in Versions
                        /\ t.sees \subseteq rows
                        /\ rows \ t.sees \subseteq late

IInv == TypeOK /\ ActivationServes /\ \A r \in Requests : TransactionOK(tx[r])

\* Rows a transaction may lock are not locked by another one.
LEMMA LocksFree ==
    ASSUME NEW r \in Requests, NEW o \in Requests, o # r
    PROVE  tx[o].locks \subseteq LockedToo(r)
  BY DEF LockedToo

LEMMA InitIInv == Init => IInv
<1> SUFFICES ASSUME Init PROVE IInv
  OBVIOUS
<1> USE ConstantsAssumption DEF Init, Idle
<1>1. TypeOK
  BY DEF TypeOK, Transactions
<1>2. ActivationServes
  BY DEF ActivationServes
<1>3. \A r \in Requests : TransactionOK(tx[r])
  BY DEF TransactionOK
<1>4. QED
  BY <1>1, <1>2, <1>3 DEF IInv

\* A step of r's transaction alone, which takes no lock of another one and
\* leaves the table as it is.
LEMMA TransactionStep ==
    ASSUME IInv, NEW r \in Requests, NEW t \in Transactions, Goes(r, t),
           UNCHANGED <<rows, active, last, late>>,
           TransactionOK(t),
           t.pc = "commit" => t.version \in rows,
           \A o \in Requests \ {r} : t.locks \intersect tx[o].locks = {}
    PROVE  IInv'
<1> USE DEF IInv, Goes
<1>1. /\ tx' \in [Requests -> Transactions] /\ tx'[r] = t
      /\ \A o \in Requests \ {r} : tx'[o] = tx[o]
  BY DEF TypeOK
<1>2. TypeOK'
  BY <1>1 DEF TypeOK
<1>3. ActivationServes'
  BY DEF ActivationServes
<1>4. \A o \in Requests : TransactionOK(tx[o])'
  BY <1>1 DEF TransactionOK
<1>5. QED
  BY <1>2, <1>3, <1>4

\* An idle transaction fits every table.
LEMMA IdleFits == Idle \in Transactions /\ TransactionOK(Idle)
  BY DEF Idle, Transactions, TransactionOK

LEMMA CreateSchemaStep ==
    ASSUME IInv, NEW v \in Versions, CreateSchema(v)
    PROVE  IInv'
<1> USE DEF IInv, CreateSchema
<1>1. TypeOK'
  BY DEF TypeOK
<1>2. ActivationServes'
  BY DEF ActivationServes
<1>3. \A r \in Requests : TransactionOK(tx[r])'
  BY DEF TransactionOK
<1>4. QED
  BY <1>1, <1>2, <1>3

LEMMA BeginStep ==
    ASSUME IInv, NEW r \in Requests, Begin(r)
    PROVE  IInv'
<1>1. PICK v \in Versions :
         Goes(r, [Idle EXCEPT !.pc = "deactivate", !.version = v, !.sees = Sees(rows)])
  BY DEF Begin
<1> DEFINE t == [Idle EXCEPT !.pc = "deactivate", !.version = v, !.sees = Sees(rows)]
<1>2. /\ t \in Transactions /\ TransactionOK(t) /\ t.locks = {} /\ t.pc = "deactivate"
  BY DEF IInv, TypeOK, Idle, Sees, Transactions, TransactionOK
<1>3. UNCHANGED <<rows, active, last, late>>
  BY DEF Begin
<1> HIDE DEF t
<1>4. Goes(r, t)
  BY <1>1 DEF t
<1>5. QED
  BY <1>2, <1>3, <1>4, TransactionStep

LEMMA DeactivateStep ==
    ASSUME IInv, NEW r \in Requests, Deactivate(r)
    PROVE  IInv'
<1> DEFINE t == [tx[r] EXCEPT !.pc = "activate", !.locks = tx[r].sees]
<1>1. tx[r] \in Transactions /\ TransactionOK(tx[r]) /\ tx[r].pc = "deactivate"
  BY DEF IInv, TypeOK, Deactivate
<1>2. /\ t \in Transactions /\ TransactionOK(t) /\ t.locks = tx[r].sees
      /\ t.pc = "activate"
  BY <1>1 DEF Transactions, TransactionOK
<1>3. Goes(r, t) /\ UNCHANGED <<rows, active, last, late>>
  BY DEF Deactivate
<1>4. \A o \in Requests \ {r} : tx[r].sees \intersect tx[o].locks = {}
  BY LocksFree DEF Deactivate
<1> HIDE DEF t
<1>5. QED
  BY <1>2, <1>3, <1>4, TransactionStep

LEMMA ActivateStep ==
    ASSUME IInv, NEW r \in Requests, Activate(r)
    PROVE  IInv'
<1>1. /\ tx[r] \in Transactions /\ TransactionOK(tx[r]) /\ tx[r].pc = "activate"
      /\ UNCHANGED <<rows, active, last, late>>
  BY DEF IInv, TypeOK, Activate
<1>2. CASE Found(r)
  <2> DEFINE t == [tx[r] EXCEPT !.pc = "commit",
                                !.locks = @ \union (rows \intersect {tx[r].version})]
  <2>1. /\ t \in Transactions /\ TransactionOK(t)
        /\ t.locks = tx[r].locks \union {tx[r].version}
        /\ t.version = tx[r].version
    <3> DEFINE ls == tx[r].locks \union (rows \intersect {tx[r].version})
    <3>1. ls = tx[r].locks \union {tx[r].version} /\ ls \in SUBSET Versions
      BY <1>1, <1>2 DEF Found, Transactions, TransactionOK
    <3> HIDE DEF ls
    <3>2. /\ t \in Transactions /\ t.pc = "commit" /\ t.version = tx[r].version
          /\ t.locks = tx[r].locks \union {tx[r].version} /\ t.sees = tx[r].sees
      <4>1. t = [tx[r] EXCEPT !.pc = "commit", !.locks = ls]
        BY DEF ls
      <4>2. QED
        BY <1>1, <3>1, <4>1 DEF Transactions
    <3>3. TransactionOK(t)
      BY <1>1, <1>2, <3>2 DEF TransactionOK, Found
    <3>4. QED
      BY <3>2, <3>3
  <2>2. Goes(r, t)
    BY <1>2 DEF Activate
  <2>3. \A o \in Requests \ {r} : t.locks \intersect tx[o].locks = {}
    <3>1. \A o \in Requests \ {r} : tx[r].version \notin tx[o].locks
      BY LocksFree DEF Activate
    <3>2. \A o \in Requests \ {r} : tx[r].locks \intersect tx[o].locks = {}
      BY DEF IInv, TypeOK
    <3>3. QED
      BY <2>1, <3>1, <3>2
  <2>4. t.version \in rows
    BY <2>1, <1>2 DEF Found
  <2> HIDE DEF t
  <2>5. QED
    BY <1>1, <2>1, <2>2, <2>3, <2>4, TransactionStep
<1>3. CASE ~Found(r)
  BY <1>1, <1>3, IdleFits, TransactionStep DEF Activate, RolledBack, Idle
<1>4. QED
  BY <1>2, <1>3

\* Of the versions that stay active beside the new one, none was seen.
LEMMA CommitStep ==
    ASSUME IInv, NEW r \in Requests, Commit(r)
    PROVE  IInv'
<1> DEFINE t == tx[r]
<1>1. /\ t \in Transactions /\ t.pc = "commit" /\ t.version \in rows
      /\ t.locks = t.sees \union {t.version} /\ rows \ t.sees \subseteq late
  BY DEF IInv, TypeOK, TransactionOK, Commit
<1>2. /\ active' = (active \ t.locks) \union {t.version}
      /\ last' = t.version /\ Goes(r, Idle) /\ UNCHANGED <<rows, late>>
  BY <1>1 DEF Commit
<1> HIDE DEF t
<1>3. /\ tx' \in [Requests -> Transactions] /\ tx'[r] = Idle
      /\ \A o \in Requests \ {r} : tx'[o] = tx[o]
  BY <1>2, IdleFits DEF IInv, TypeOK, Goes
<1>4. TypeOK'
  BY <1>1, <1>2, <1>3, IdleFits DEF IInv, TypeOK, Idle
<1>5. ActivationServes'
  BY <1>1, <1>2 DEF IInv, TypeOK, ActivationServes
<1>6. \A o \in Requests : TransactionOK(tx[o])'
  BY <1>2, <1>3, IdleFits DEF IInv, TransactionOK, Idle
<1>7. QED
  BY <1>4, <1>5, <1>6 DEF IInv

LEMMA NextStep ==
    ASSUME IInv, [Next]_vars
    PROVE  IInv'
<1>1. CASE UNCHANGED vars
  BY <1>1 DEF IInv, TypeOK, ActivationServes, TransactionOK, vars
<1>2. ASSUME NEW v \in Versions, CreateSchema(v) PROVE IInv'
  BY <1>2, CreateSchemaStep
<1>3. ASSUME NEW r \in Requests, Begin(r) PROVE IInv'
  BY <1>3, BeginStep
<1>4. ASSUME NEW r \in Requests, Deactivate(r) PROVE IInv'
  BY <1>4, DeactivateStep
<1>5. ASSUME NEW r \in Requests, Activate(r) PROVE IInv'
  BY <1>5, ActivateStep
<1>6. ASSUME NEW r \in Requests, Commit(r) PROVE IInv'
  BY <1>6, CommitStep
<1>7. ASSUME NEW r \in Requests, Abort(r) PROVE IInv'
  BY <1>7, IdleFits, TransactionStep DEF Abort, RolledBack, Idle
<1>8. QED
  BY <1>1, <1>2, <1>3, <1>4, <1>5, <1>6, <1>7 DEF Next

\* What the activations have locked and have not seen, in every state.
THEOREM RegistryInvariance == Spec => []IInv
<1>1. Init => IInv
  BY InitIInv
<1>2. IInv /\ [Next]_vars => IInv'
  BY NextStep
<1>3. QED
  BY <1>1, <1>2, PTL DEF Spec

\* Every row and transaction has its type, and no row two locks.
THEOREM RegistryTypeCorrect == Spec => []TypeOK
<1>1. IInv => TypeOK
  BY DEF IInv
<1>2. QED
  BY <1>1, RegistryInvariance, PTL

\* The version activated last is active, and others only if they were created
\* while an activation ran.
THEOREM ActivationSound == Spec => []ActivationServes
<1>1. IInv => ActivationServes
  BY DEF IInv
<1>2. QED
  BY <1>1, RegistryInvariance, PTL

\* Activations never leave the federator without an active schema.
THEOREM NeverWithoutSchema == Spec => StaysActive
<1>1. IInv /\ [Next]_vars => [active # {} => active' # {}]_vars
  <2> SUFFICES ASSUME IInv, Next, active # {} PROVE active' # {}
    BY DEF vars
  <2>1. ASSUME NEW r \in Requests, Commit(r) PROVE active' # {}
    BY <2>1 DEF IInv, TypeOK, Commit
  <2>2. QED
    BY <2>1 DEF Next, CreateSchema, Begin, Deactivate, Activate, Abort
<1>2. QED
  BY <1>1, RegistryInvariance, PTL DEF Spec, StaysActive

-----------------------------------------------------------------------------
(* What is written of a type *)

LEMMA AsSequence ==
    ASSUME NEW S, NEW k \in Nat, NEW f \in [1..k -> S]
    PROVE  f \in Seq(S) /\ Len(f) = k
<1>1. f \in Seq(S)
  OBVIOUS
<1>2. QED
  BY <1>1, LenProperties

\* The parts of the text of a type: its brackets, its name and its marks.
LEMMA WrittenParts ==
    ASSUME NEW type \in FieldTypes
    PROVE  /\ Cardinality(Lists(type)) \in Nat /\ Len(type.wraps) \in Nat
           /\ LET n == Cardinality(Lists(type))
                  text == TypeDefinition(type)
              IN /\ Len(text) = n + 1 + Len(type.wraps)
                 /\ \A i \in 1..n : text[i] = "["
                 /\ text[n + 1] = type.name
                 /\ \A i \in 1..Len(type.wraps) : text[n + 1 + i] = Mark(type.wraps[i])
<1> DEFINE n == Cardinality(Lists(type))
           m == Len(type.wraps)
           opening == [i \in 1..n |-> "["]
           marks == [i \in 1..m |-> Mark(type.wraps[i])]
           W == {"[", "]", "!", type.name}
<1>1. type.wraps \in Seq({"nonnull", "list"}) /\ type.name \in W
  BY DEF FieldTypes
<1>2. m \in Nat /\ DOMAIN type.wraps = 1..m
  BY <1>1, LenProperties
<1>3. n \in Nat
  <2>1. IsFiniteSet(1..m) /\ Lists(type) \subseteq 1..m
    BY <1>2, FS_Interval DEF Lists
  <2>2. QED
    BY <2>1, FS_Subset, FS_CardinalityType
<1>4. /\ opening \in Seq(W) /\ Len(opening) = n
      /\ \A i \in 1..n : opening[i] = "["
  <2> HIDE DEF n
  <2>1. opening \in [1..n -> W] /\ \A i \in 1..n : opening[i] = "["
    OBVIOUS
  <2> HIDE DEF opening
  <2>2. opening \in Seq(W) /\ Len(opening) = n
    BY <1>3, <2>1, AsSequence
  <2>3. QED
    BY <2>1, <2>2
<1>5. /\ marks \in Seq(W) /\ Len(marks) = m
      /\ \A i \in 1..m : marks[i] = Mark(type.wraps[i])
  <2> HIDE DEF m
  <2>1. marks \in [1..m -> W]
    <3>1. \A i \in 1..m : Mark(type.wraps[i]) \in W
      BY DEF Mark
    <3>2. QED
      BY <3>1
  <2>2. \A i \in 1..m : marks[i] = Mark(type.wraps[i])
    OBVIOUS
  <2> HIDE DEF marks
  <2>3. marks \in Seq(W) /\ Len(marks) = m
    BY <1>2, <2>1, AsSequence
  <2>4. QED
    BY <2>2, <2>3
<1>6. TypeDefinition(type) = opening \o <<type.name>> \o marks
  BY <1>2 DEF TypeDefinition
<1> HIDE DEF n, m, opening, marks
<1>7. /\ <<type.name>> \in Seq(W) /\ Len(<<type.name>>) = 1 /\ <<type.name>>[1] = type.name
  BY <1>1
<1> DEFINE front == opening \o <<type.name>>
<1>8. /\ front \in Seq(W) /\ Len(front) = n + 1 /\ front[n + 1] = type.name
      /\ \A i \in 1..n : front[i] = "["
  BY <1>3, <1>4, <1>7, ConcatProperties
<1> HIDE DEF front
<1>9. /\ Len(front \o marks) = n + 1 + m
      /\ \A i \in 1..(n + 1 + m) :
            (front \o marks)[i] = IF i <= n + 1 THEN front[i] ELSE marks[i - (n + 1)]
  <2>1. /\ Len(front \o marks) = Len(front) + Len(marks)
        /\ \A i \in 1..(Len(front) + Len(marks)) :
              (front \o marks)[i] = IF i <= Len(front) THEN front[i] ELSE marks[i - Len(front)]
    BY <1>5, <1>8, ConcatProperties
  <2>2. QED
    BY <1>5, <1>8, <2>1
<1>10. TypeDefinition(type) = front \o marks
  BY <1>6 DEF front
<1>11. \A i \in 1..m : (front \o marks)[n + 1 + i] = Mark(type.wraps[i])
  BY <1>2, <1>3, <1>5, <1>9
<1>12. (front \o marks)[n + 1] = type.name /\ \A i \in 1..n : (front \o marks)[i] = "["
  BY <1>2, <1>3, <1>8, <1>9
<1>13. QED
  BY <1>2, <1>3, <1>9, <1>10, <1>11, <1>12 DEF n, m

\* Cancelling what two sums begin with.
LEMMA SameRest ==
    ASSUME NEW first \in Nat, NEW x \in Nat, NEW y \in Nat, first + 1 + x = first + 1 + y
    PROVE  x = y
OBVIOUS

\* Types that are written alike are the same: the name, which is no bracket,
\* tells how many brackets there are.
LEMMA SameType ==
    ASSUME NEW a \in FieldTypes, NEW b \in FieldTypes, TypeDefinition(a) = TypeDefinition(b)
    PROVE  a = b
<1> DEFINE k == Cardinality(Lists(a))
           l == Cardinality(Lists(b))
           text == TypeDefinition(a)
<1>1. /\ k \in Nat /\ Len(a.wraps) \in Nat /\ Len(text) = k + 1 + Len(a.wraps)
      /\ \A i \in 1..k : text[i] = "["
      /\ text[k + 1] = a.name
      /\ \A i \in 1..Len(a.wraps) : text[k + 1 + i] = Mark(a.wraps[i])
  BY WrittenParts
<1>2. /\ l \in Nat /\ Len(b.wraps) \in Nat /\ Len(text) = l + 1 + Len(b.wraps)
      /\ \A i \in 1..l : text[i] = "["
      /\ text[l + 1] = b.name
      /\ \A i \in 1..Len(b.wraps) : text[l + 1 + i] = Mark(b.wraps[i])
  BY WrittenParts
<1>3. /\ a.name # "[" /\ b.name # "["
      /\ a.wraps \in Seq({"nonnull", "list"}) /\ b.wraps \in Seq({"nonnull", "list"})
  BY DEF FieldTypes
<1> HIDE DEF k, l, text
<1>4. k = l
  <2>1. ASSUME k < l PROVE FALSE
    <3>1. k + 1 \in 1..l
      BY <1>1, <1>2, <2>1
    <3>2. text[k + 1] = "["
      BY <1>2, <3>1
    <3>3. QED
      BY <1>1, <1>3, <3>2
  <2>2. ASSUME l < k PROVE FALSE
    <3>1. l + 1 \in 1..k
      BY <1>1, <1>2, <2>2
    <3>2. text[l + 1] = "["
      BY <1>1, <3>1
    <3>3. QED
      BY <1>2, <1>3, <3>2
  <2>3. QED
    BY <1>1, <1>2, <2>1, <2>2
<1>5. a.name = b.name /\ Len(a.wraps) = Len(b.wraps)
  <2>1. text[k + 1] = a.name /\ text[k + 1] = b.name
    BY <1>1, <1>2, <1>4
  <2>2. k + 1 + Len(a.wraps) = k + 1 + Len(b.wraps)
    BY <1>1, <1>2, <1>4
  <2>3. k \in Nat /\ Len(a.wraps) \in Nat /\ Len(b.wraps) \in Nat
    BY <1>1, <1>2
  <2>4. Len(a.wraps) = Len(b.wraps)
    BY ONLY <2>2, <2>3, SameRest, Zenon
  <2>5. a.name = b.name
    BY <2>1
  <2>6. QED
    BY <2>4, <2>5
<1>6. \A i \in 1..Len(a.wraps) : a.wraps[i] = b.wraps[i]
  <2> SUFFICES ASSUME NEW i \in 1..Len(a.wraps) PROVE a.wraps[i] = b.wraps[i]
    OBVIOUS
  <2>1. a.wraps[i] \in {"nonnull", "list"} /\ b.wraps[i] \in {"nonnull", "list"}
    BY <1>3, <1>5, ElementOfSeq
  <2>2. Mark(a.wraps[i]) = Mark(b.wraps[i])
    BY <1>1, <1>2, <1>4, <1>5
  <2>3. QED
    BY <2>1, <2>2 DEF Mark
<1>7. a.wraps = b.wraps
  BY <1>3, <1>5, <1>6, SeqEqual
<1>8. QED
  BY <1>5, <1>7 DEF FieldTypes

-----------------------------------------------------------------------------
(* One schema after another *)

\* Every field is still there, with its type.
Keeps(old, new) == \A field \in DOMAIN old : field \in DOMAIN new /\ new[field] = old[field]

\* What AnalyzeCompatibility finds of two SDLs that can be parsed.
LEMMA CompatibleKeeps ==
    ASSUME NEW old, NEW new, IsSchema(old), IsSchema(new), old # Unparsable, new # Unparsable,
           AnalyzeCompatibility(old, new)
    PROVE  Keeps(old, new)
<1> SUFFICES ASSUME NEW field \in DOMAIN old
             PROVE  field \in DOMAIN new /\ new[field] = old[field]
  BY DEF Keeps
<1>1. ParseSDL(old) /\ ParseSDL(new)
  BY DEF ParseSDL
<1>2. /\ DOMAIN FieldDefinitions(old) = DOMAIN old /\ DOMAIN FieldDefinitions(new) = DOMAIN new
      /\ \A f \in DOMAIN old : FieldDefinitions(old)[f] = TypeDefinition(old[f])
      /\ \A f \in DOMAIN new : FieldDefinitions(new)[f] = TypeDefinition(new[f])
  BY DEF FieldDefinitions
<1>3. field \in DOMAIN new
  BY <1>1, <1>2 DEF AnalyzeCompatibility, HasRemovedFields
<1>4. TypeDefinition(old[field]) = TypeDefinition(new[field])
  BY <1>1, <1>2, <1>3 DEF AnalyzeCompatibility, HasTypeChanges, CompareFieldTypes
<1>5. old[field] \in FieldTypes /\ new[field] \in FieldTypes
  BY <1>3 DEF IsSchema
<1>6. QED
  BY <1>3, <1>4, <1>5, SameType

\* The queries of the older schema are queries of the newer one.
LEMMA KeepsAnswers ==
    ASSUME NEW old, NEW new, Keeps(old, new)
    PROVE  Answers(old) \subseteq Answers(new)
<1> SUFFICES ASSUME NEW s \in Chains(old)
             PROVE  [i \in DOMAIN s |-> <<s[i], old[s[i]]>>] \in Answers(new)
  BY DEF Answers
<1>1. PICK n \in 1..Depth : s \in [1..n -> DOMAIN old]
  BY DEF Chains
<1>2. /\ s[1][1] = "Query"
      /\ \A i \in 2..Len(s) : s[i][1] = old[s[i - 1]].name
  BY DEF Chains
<1>3. n \in Nat /\ Len(s) = n /\ DOMAIN s = 1..n
  BY <1>1, DocumentsAssumption, AsSequence
<1>4. \A i \in 1..n : s[i] \in DOMAIN new /\ new[s[i]] = old[s[i]]
  BY <1>1 DEF Keeps
<1>5. s \in [1..n -> DOMAIN new]
  BY <1>1, <1>4
<1>6. \A i \in 2..Len(s) : s[i][1] = new[s[i - 1]].name
  BY <1>2, <1>3, <1>4
<1>7. s \in Chains(new)
  BY <1>2, <1>5, <1>6 DEF Chains
<1>8. [i \in DOMAIN s |-> <<s[i], old[s[i]]>>] = [i \in DOMAIN s |-> <<s[i], new[s[i]]>>]
  BY <1>3, <1>4
<1>9. QED
  BY <1>7, <1>8 DEF Answers

\* A check that is remembered compared two SDLs, and what is served is the SDL
\* of a version, that of the active version among it, and keeps the older ones.
CompatInv ==
    /\ document \in Documents
    /\ check # None => \/ check.old = None
                       \/ AnalyzeCompatibility(check.old, check.new)
    /\ \A v \in active : document[v] \in served
    /\ served \subseteq Sdls(document)
    /\ \A v \in Versions :
          active = {v} /\ Unparsable \notin served =>
             \A sdl \in served : Keeps(sdl, document[v])

\* A check remembers a pair of schemas only if the second keeps the first.
LEMMA CheckStep ==
    ASSUME CompatInv, CheckCompatibility, UNCHANGED <<active, document, served>>
    PROVE  CompatInv'
<1>1. PICK v \in Versions, old \in GetActiveSchema :
         check' \in {None, IF old = None \/ AnalyzeCompatibility(old, document[v])
                           THEN [old |-> old, new |-> document[v]] ELSE None}
  BY DEF CheckCompatibility
<1>2. check' # None => check'.old = None \/ AnalyzeCompatibility(check'.old, check'.new)
  BY <1>1
<1>3. QED
  BY <1>2 DEF CompatInv

\* What an upgrade from v to w leaves valid, if it was checked before.
LEMMA UpgradeKeeps ==
    ASSUME IInv, CompatInv, NEW v \in Versions, NEW w \in Versions, active = {v},
           check = [old |-> document[v], new |-> document[w]],
           Unparsable \notin served, document[w] # Unparsable,
           NEW sdl \in served
    PROVE  Keeps(sdl, document[w])
<1>1. document[v] \in served /\ document[v] # Unparsable
  BY DEF CompatInv
<1>2. Keeps(sdl, document[v])
  BY DEF CompatInv
<1>3. document[v] \in Sdls(document) /\ document[w] \in Sdls(document)
  BY DEF Sdls
<1>4. check \in [old : Sdls(document) \union {None}, new : Sdls(document)]
  BY <1>3
<1>5. check # None /\ document[v] # None
  BY <1>3, <1>4, DocumentsAssumption DEF CompatInv
<1>6. AnalyzeCompatibility(document[v], document[w])
  BY <1>5 DEF CompatInv
<1>7. IsSchema(document[v]) /\ IsSchema(document[w])
  BY <1>1, DocumentsAssumption DEF CompatInv
<1>8. Keeps(document[v], document[w])
  BY <1>1, <1>6, <1>7, CompatibleKeeps
<1>9. QED
  BY <1>2, <1>8 DEF Keeps

LEMMA RegistryStep ==
    ASSUME IInv, CompatInv, [Next]_vars, UNCHANGED <<document, check>>,
           served' = IF active' = active THEN served
                     ELSE {document[v] : v \in active'}
                             \union (IF CheckedUpgrade THEN served ELSE {})
    PROVE  CompatInv'
<1>1. active' \subseteq Versions
  BY NextStep DEF IInv, TypeOK
<1>2. CASE active' = active
  BY <1>2 DEF CompatInv
<1>3. CASE active' # active
  <2>1. /\ \A v \in active' : document[v] \in served'
        /\ \A sdl \in served' : \/ \E v \in active' : sdl = document[v]
                                \/ CheckedUpgrade /\ sdl \in served
    BY <1>3
  <2>2. served' \subseteq Sdls(document)
    BY <1>1, <2>1 DEF CompatInv, Sdls
  <2>3. ASSUME NEW w \in Versions, active' = {w}, Unparsable \notin served', NEW sdl \in served'
        PROVE  Keeps(sdl, document[w])
    <3>1. document[w] # Unparsable
      BY <2>1, <2>3
    <3>2. CASE sdl = document[w]
      BY <3>2 DEF Keeps
    <3>3. CASE CheckedUpgrade /\ sdl \in served
      <4>1. PICK v \in Versions : active = {v} /\ check = [old |-> document[v], new |-> document[w]]
        BY <2>3, <3>3 DEF CheckedUpgrade
      <4>2. Unparsable \notin served
        BY <1>3, <2>3, <3>3
      <4>3. QED
        BY <3>1, <3>3, <4>1, <4>2, UpgradeKeeps
    <3>4. QED
      BY <2>1, <2>3, <3>2, <3>3
  <2>4. QED
    BY <2>1, <2>2, <2>3 DEF CompatInv, Sdls
<1>4. QED
  BY <1>2, <1>3

\* A check changes nothing of the registry.
THEOREM ChecksKeepRegistry == CompatSpec => Spec
<1>1. CompatInit => Init
  BY DEF CompatInit
<1>2. [CompatNext]_compatVars => [Next]_vars
  BY DEF CompatNext, compatVars, vars
<1>3. QED
  BY <1>1, <1>2, PTL DEF CompatSpec, Spec

\* Along a series of checked upgrades, the one active schema keeps every field of
\* every schema served before it, with its type.
THEOREM CompatInvariance == CompatSpec => [](IInv /\ CompatInv)
<1>1. CompatInit => IInv /\ CompatInv
  BY InitIInv DEF CompatInit, CompatInv, Init
<1>2. IInv /\ CompatInv /\ [CompatNext]_compatVars => (IInv /\ CompatInv)'
  <2> SUFFICES ASSUME IInv, CompatInv, [CompatNext]_compatVars PROVE IInv' /\ CompatInv'
    OBVIOUS
  <2>1. [Next]_vars
    BY DEF CompatNext, compatVars, vars
  <2>2. CASE CheckCompatibility /\ UNCHANGED <<vars, document, served>>
    <3>1. UNCHANGED <<active, document, served>>
      BY <2>2 DEF vars
    <3>2. QED
      BY <2>1, <2>2, <3>1, NextStep, CheckStep
  <2>3. CASE /\ Next
             /\ served' = IF active' = active THEN served
                          ELSE {document[v] : v \in active'}
                                  \union (IF CheckedUpgrade THEN served ELSE {})
             /\ UNCHANGED <<document, check>>
    BY <2>1, <2>3, NextStep, RegistryStep
  <2>4. CASE UNCHANGED compatVars
    <3>1. CompatInv'
      BY <2>4 DEF compatVars, vars, CompatInv
    <3>2. QED
      BY <2>1, <3>1, NextStep
  <2>5. QED
    BY <2>2, <2>3, <2>4 DEF CompatNext
<1>3. QED
  BY <1>1, <1>2, PTL DEF CompatSpec

\* A series of checked upgrades leaves the queries of all its schemas valid.
THEOREM UpgradesSound == CompatSpec => []UpgradesKeepQueries
<1>1. CompatInv => UpgradesKeepQueries
  BY KeepsAnswers DEF CompatInv, UpgradesKeepQueries
<1>2. QED
  BY <1>1, CompatInvariance, PTL
=============================================================================
