------------------------------ MODULE InboxProofs ------------------------------
(***************************************************************************)
(* Proofs about emails that come in: Conversations, for any parties and    *)
(* any number of messages, answered in whatever way and filed in whatever  *)
(* order; Inbox, for any mails, in whatever order, number and overlap      *)
(* their receipts run, and whatever fails in them; and Correspondence, for *)
(* any texts, addresses and chains of references.                          *)
(***************************************************************************)
EXTENDS Inbox, Conversations, Correspondence, WellFoundedInduction, TLAPS

-----------------------------------------------------------------------------
(* Sequences without repetitions, and the last of some of their elements.  *)
-----------------------------------------------------------------------------

Injective(s) == \A i, j \in DOMAIN s : s[i] = s[j] => i = j

Extends(s, t) == Len(s) <= Len(t) /\ \A i \in DOMAIN s : s[i] = t[i]

\* The longer sequence has the elements of the shorter one where they were.
LEMMA ExtendsByOne ==
  ASSUME NEW S, NEW s \in Seq(S), NEW x \in S, Injective(s), \A i \in DOMAIN s : s[i] # x
  PROVE  /\ Append(s, x) \in Seq(S) /\ Injective(Append(s, x)) /\ Extends(s, Append(s, x))
         /\ \A y : (\E i \in DOMAIN Append(s, x) : Append(s, x)[i] = y)
                     <=> y = x \/ \E i \in DOMAIN s : s[i] = y
<1>1. /\ Append(s, x) \in Seq(S) /\ Len(Append(s, x)) = Len(s) + 1
      /\ Append(s, x)[Len(s) + 1] = x
      /\ \A i \in 1..Len(s) : Append(s, x)[i] = s[i]
      /\ DOMAIN s = 1..Len(s) /\ DOMAIN Append(s, x) = 1..(Len(s) + 1) /\ Len(s) \in Nat
  OBVIOUS
<1>2. \A i \in 1..(Len(s) + 1) : i \in 1..Len(s) \/ i = Len(s) + 1
  BY <1>1
<1>3. Injective(Append(s, x))
  BY <1>1, <1>2 DEF Injective
<1> QED
  BY <1>1, <1>2, <1>3 DEF Extends

\* Two messages at once are one after the other.
LEMMA ExtendsByTwo ==
  ASSUME NEW S, NEW s \in Seq(S), NEW x \in S, NEW y \in S
  PROVE  s \o <<x, y>> = Append(Append(s, x), y)
OBVIOUS

\* A set of numbers with an upper bound has a greatest element.
LEMMA Greatest ==
  ASSUME NEW n \in Nat, NEW S \in SUBSET (0..n), S # {}
  PROVE  \E x \in S : \A y \in S : y <= x
<1> DEFINE T == {n - x : x \in S}
<1>0. \A x \in S : x \in 0..n /\ n - x \in Nat
  OBVIOUS
<1>1. T \subseteq Nat /\ T # {}
  BY <1>0
<1>2. PICK t \in T : \A u \in T : ~(<<u, t>> \in OpToRel(<, Nat))
  <2>1. IsWellFoundedOn(OpToRel(<, Nat), Nat)
    BY NatLessThanWellFounded
  <2> HIDE DEF T
  <2> QED
    BY <1>1, <2>1, WFMin
<1>3. \A u \in T : ~(u < t)
  BY <1>1, <1>2 DEF OpToRel
<1>4. PICK x \in S : t = n - x
  OBVIOUS
<1>5. ASSUME NEW y \in S
      PROVE  y <= x
  <2>1. n - y \in T
    OBVIOUS
  <2>2. ~(n - y < n - x)
    BY <1>3, <1>4, <2>1
  <2>3. x \in 0..n /\ y \in 0..n
    OBVIOUS
  <2> QED
    BY <2>2, <2>3
<1> QED
  BY <1>5

\* The index of an element.
At(s, x) == CHOOSE i \in DOMAIN s : s[i] = x

Elements(s) == {s[i] : i \in DOMAIN s}

\* An element of a sequence without repetitions is at its position.
LEMMA AtElement ==
  ASSUME NEW S, NEW s \in Seq(S), Injective(s), NEW x \in Elements(s)
  PROVE  At(s, x) \in 1..Len(s) /\ s[At(s, x)] = x
BY DEF At, Elements

\* A longer sequence leaves the index of an element alone, and what it adds comes
\* later.
LEMMA AtStays ==
  ASSUME NEW S, NEW s \in Seq(S), NEW t \in Seq(S), Injective(s), Injective(t), Extends(s, t)
  PROVE  /\ \A x \in Elements(s) : x \in Elements(t) /\ At(t, x) = At(s, x)
         /\ \A x \in Elements(t) \ Elements(s), y \in Elements(s) : At(t, y) < At(t, x)
<1>1. ASSUME NEW x \in Elements(s)
      PROVE  x \in Elements(t) /\ At(t, x) = At(s, x)
  <2>1. At(s, x) \in DOMAIN s /\ s[At(s, x)] = x
    BY AtElement
  <2>2. At(s, x) \in DOMAIN t /\ t[At(s, x)] = x
    BY <2>1 DEF Extends
  <2>3. x \in Elements(t)
    BY <2>2 DEF Elements
  <2>4. At(t, x) \in DOMAIN t /\ t[At(t, x)] = x
    BY <2>3, AtElement
  <2> QED
    BY <2>2, <2>3, <2>4 DEF Injective
<1>2. ASSUME NEW x \in Elements(t) \ Elements(s), NEW y \in Elements(s)
      PROVE  At(t, y) < At(t, x)
  <2>1. At(t, x) \in 1..Len(t) /\ t[At(t, x)] = x
    BY AtElement
  <2>2. At(t, y) \in 1..Len(s)
    BY <1>1, AtElement
  <2>3. At(t, x) \notin 1..Len(s)
    BY <2>1 DEF Extends, Elements
  <2>4. Len(s) \in Nat /\ Len(t) \in Nat
    OBVIOUS
  <2> QED
    BY <2>1, <2>2, <2>3, <2>4
<1> QED
  BY <1>1, <1>2

\* The newest of some filed messages is one of them, and no other is as new.
LEMMA NewestIs ==
  ASSUME order \in Seq(Message), Injective(order), NEW S \in SUBSET Filed, S # {}
  PROVE  /\ Newest(S) \in S
         /\ \A y \in S : (\A q \in S : Position(q) <= Position(y)) => Newest(S) = y
<1> DEFINE P == {Position(q) : q \in S}
<1>1. \A q \in S : Position(q) \in 1..Len(order) /\ order[Position(q)] = q
  BY AtElement DEF Filed, Elements, Position, At
<1>2. Len(order) \in Nat /\ P \in SUBSET (0..Len(order)) /\ P # {}
  BY <1>1
<1>3. PICK x \in P : \A y \in P : y <= x
  <2> HIDE DEF P
  <2> QED
    BY <1>2, Greatest
<1>4. PICK m \in S : \A q \in S : Position(q) <= Position(m)
  BY <1>3
<1>5. /\ Newest(S) \in S
      /\ \A q \in S : Position(q) <= Position(Newest(S))
  BY <1>4 DEF Newest
<1>6. ASSUME NEW y \in S, \A q \in S : Position(q) <= Position(y)
      PROVE  Newest(S) = y
  <2>1. Position(y) = Position(Newest(S))
    BY <1>1, <1>5, <1>6
  <2> QED
    BY <1>1, <1>5, <2>1
<1> QED
  BY <1>5, <1>6

-----------------------------------------------------------------------------
(* The shape of a state: what is filed, and what refers to what.           *)
-----------------------------------------------------------------------------

\* The table lists each message it has once.
Listed ==
  /\ Injective(order)
  /\ \A m \in Message : m \in Filed <=> stage[m] \in {"form", "outbound", "filed"}
  /\ sent \subseteq Filed /\ known \subseteq Filed

\* What is filed are messages.
LEMMA FiledType == ConversationsTypeOK => Filed \subseteq Message
BY DEF ConversationsTypeOK, Filed

\* Only messages there are can be referred to, an answer refers to what it answers
\* and all that refers to, and addresses are signed for threads there are.
Wellformed ==
  /\ \A m \in Message : stage[m] # "unused" =>
       /\ \A q \in email[m].references : q # m /\ stage[q] # "unused"
       /\ email[m].signed \in Message => email[m].signed \in Filed
       /\ email[m].answers \in Message =>
            /\ stage[email[m].answers] # "unused"
            /\ email[m].references = email[email[m].answers].references \cup {email[m].answers}
  /\ draft # Nil =>
       /\ draft.joined \in Filed
       /\ \A q \in draft.references : stage[q] # "unused"

\* A message refers to messages filed before it, unless they were late.
InOrder ==
  \A y \in Filed : \A q \in email[y].references \cap Filed :
    Position(q) < Position(y) \/ q \in late

\* An email whose thread was found went where its address or its headers say.
Placed ==
  /\ \A m \in Message : stage[m] \in {"form", "outbound", "found", "filed"} =>
       /\ joined[m] = m \/ joined[m] \in Filed
       /\ Party(joined[m]) = Party(m)
  /\ \A m \in Message : stage[m] \in {"found", "filed"} =>
       LET signed == email[m].signed
           y      == email[m].answers
       IN  /\ signed # Altered
           /\ signed # Nil /\ Party(signed) = Party(m) => joined[m] = signed
           /\ signed = Nil /\ m \in timely =>
                \/ Party(y) # Party(m)
                \/ email[m].references \cap late # {}
                \/ joined[m] = joined[y]
  /\ \A m \in timely : stage[m] \in {"found", "filed"} /\ email[m].answers \in known

TalkInv == ConversationsTypeOK /\ Listed /\ Wellformed /\ InOrder /\ Placed

USE DEF Fresh

\* A step that files messages leaves the filed ones where they were.
LEMMA FilingAppends ==
  ASSUME order \in Seq(Message), order' \in Seq(Message), Injective(order), Injective(order'),
         Extends(order, order')
  PROVE  /\ Filed \subseteq Filed'
         /\ \A q \in Filed : Position(q)' = Position(q)
         /\ \A x \in Filed' \ Filed, q \in Filed : Position(q)' < Position(x)'
<1>1. Filed = Elements(order) /\ Filed' = Elements(order')
  BY DEF Filed, Elements
<1>2. \A q : Position(q) = At(order, q) /\ Position(q)' = At(order', q)
  BY DEF Position, At
<1> QED
  BY <1>1, <1>2, AtStays

\* A message that is filed is the last one in the order, and the only new one.
LEMMA FilesOne ==
  ASSUME order \in Seq(Message), Injective(order), NEW m \in Message, m \notin Filed,
         order' = Append(order, m)
  PROVE  /\ order' \in Seq(Message) /\ Injective(order') /\ Extends(order, order')
         /\ Filed' = Filed \cup {m}
<1>1. \A i \in DOMAIN order : order[i] # m
  BY DEF Filed
<1>2. \A y : y \in Filed' <=> \E i \in DOMAIN order' : order'[i] = y
  BY DEF Filed
<1>3. \A y : y \in Filed <=> \E i \in DOMAIN order : order[i] = y
  BY DEF Filed
<1> QED
  BY <1>1, <1>2, <1>3, ExtendsByOne

\* Every email, answer and lookup keeps the invariant.
LEMMA StepTalk == TalkInv /\ [TalkNext]_talkVars => TalkInv'
<1> SUFFICES ASSUME TalkInv, [TalkNext]_talkVars
             PROVE  TalkInv'
  OBVIOUS
<1> USE ConversationsAssumption
<1>1. ASSUME NEW t \in Message, LoadThread(t) 
      PROVE  TalkInv'
  <2>1. MessagesIn(t) \subseteq Filed /\ MessagesIn(t) # {}
    BY <1>1 DEF LoadThread, MessagesIn
  <2>2. Newest(MessagesIn(t)) \in MessagesIn(t)
    BY <2>1, NewestIs DEF TalkInv, Listed, ConversationsTypeOK
  <2>3. PICK q \in Filed : q = Newest(MessagesIn(t)) /\ joined[q] = t
    BY <2>1, <2>2 DEF MessagesIn
  <2>9. q \in Message /\ stage[q] # "unused"
    BY FiledType DEF TalkInv, Listed
  <2>4. /\ draft' = [joined |-> t, references |-> email[q].references \cup ({q} \cap known)]
        /\ UNCHANGED <<stage, email, joined, order, sent, known, timely, late>>
    BY <1>1, <2>3 DEF LoadThread, ReplyReferences
  <2>5. t \in Filed
    BY <2>3, <2>9 DEF TalkInv, Listed, Placed
  <2>6. ConversationsTypeOK'
    BY <2>4, <2>9 DEF TalkInv, ConversationsTypeOK, Letter
  <2>7. Listed' /\ InOrder' /\ Placed'
    BY <2>4 DEF TalkInv, Listed, InOrder, Placed, Filed, Position, Party
  <2>8. Wellformed'
    BY <2>4, <2>5, <2>9 DEF TalkInv, Listed, Wellformed, Filed
  <2> QED
    BY <2>6, <2>7, <2>8 DEF TalkInv
<1>2. CASE ReplyThrows
  BY <1>2 DEF ReplyThrows, TalkInv, ConversationsTypeOK, Listed, Wellformed, InOrder, Placed, Filed,
              Position, Party, Letter
<1>3. ASSUME NEW m \in Message, Send(m) \/ MarkSent(m)
      PROVE  TalkInv'
  <2>1. /\ UNCHANGED <<stage, email, joined, order, draft, timely, late>>
        /\ sent' \subseteq Filed /\ known' \subseteq Filed
        /\ known \subseteq known'
        /\ Filed \subseteq Message
    BY <1>3 DEF Send, MarkSent, TalkInv, Listed, ConversationsTypeOK, Filed
  <2>2. ConversationsTypeOK'
    BY <2>1 DEF TalkInv, ConversationsTypeOK, Letter
  <2>3. Listed' /\ Wellformed' /\ InOrder'
    BY <2>1 DEF TalkInv, Listed, Wellformed, InOrder, Filed, Position
  <2>4. Placed'
    BY <2>1 DEF TalkInv, Placed, Filed, Party
  <2> QED
    BY <2>2, <2>3, <2>4 DEF TalkInv
<1>4. ASSUME NEW m \in Message, Reject(m) \/ Redeliver(m)
      PROVE  TalkInv'
  <2>1. /\ stage[m] \in {"travelling", "found"} /\ stage' \in {[stage EXCEPT ![m] = "rejected"], [stage EXCEPT ![m] = "travelling"]}
        /\ timely' = timely \ {m}
        /\ UNCHANGED <<email, joined, order, draft, late, sent, known>>
        /\ m \notin Filed
    BY <1>4 DEF Reject, Redeliver, TalkInv, Listed, Placed
  <2>2. ConversationsTypeOK'
    BY <2>1 DEF TalkInv, ConversationsTypeOK, Letter
  <2>5. Listed' /\ InOrder'
    BY <2>1 DEF TalkInv, Listed, InOrder, Filed, Position, ConversationsTypeOK
  <2>6. \A q \in Message : stage'[q] = "unused" <=> stage[q] = "unused"
    BY <2>1 DEF TalkInv, ConversationsTypeOK
  <2>7. \A q \in Message : stage[q] # "unused" => email[q] \in Letter
    BY DEF TalkInv, ConversationsTypeOK
  <2>8. draft # Nil => draft \in [joined : Message, references : SUBSET Message]
    BY DEF TalkInv, ConversationsTypeOK
  <2>3. Wellformed'
    BY <2>1, <2>6, <2>7, <2>8 DEF TalkInv, Wellformed, Filed, Letter
  <2>4. Placed'
    BY <2>1 DEF TalkInv, Placed, Filed, Party, ConversationsTypeOK
  <2> QED
    BY <2>2, <2>3, <2>4, <2>5 DEF TalkInv
<1>5. ASSUME NEW m \in Message, NEW p \in Parties, NEW x \in sent \cup {Altered, Nil},
             NEW y \in Answerable \cup {Nil}, Write(m, p, x, y)
      PROVE  TalkInv'
  <2> DEFINE signed     == IF x \in {Nil, Altered} THEN x ELSE joined[x]
             references == IF y = Nil THEN {} ELSE email[y].references \cup {y}
  <2>1. /\ stage[m] = "unused" /\ m \notin Filed
        /\ stage' = [stage EXCEPT ![m] = "travelling"]
        /\ email' = [email EXCEPT ![m] = Email(p, signed, references, y)]
        /\ UNCHANGED <<joined, order, sent, known, draft, timely, late>>
    BY <1>5 DEF Write, TalkInv, Listed
  <2>2. y # Nil => y \in Message /\ stage[y] # "unused" /\ email[y] \in Letter
    BY FiledType DEF Answerable, TalkInv, Listed, ConversationsTypeOK
  <2>3. signed \in Filed \cup {Nil, Altered}
    BY FiledType DEF TalkInv, Listed, Placed
  <2>4. Email(p, signed, references, y) \in Letter
    BY <2>2, <2>3, FiledType DEF Email, Letter, TalkInv
  <2>5. y # Nil => \A q \in email[y].references : stage[q] # "unused"
    BY <2>2 DEF TalkInv, Wellformed
  <2>6. /\ Email(p, signed, references, y).signed = signed
        /\ Email(p, signed, references, y).references = references
        /\ Email(p, signed, references, y).answers = y
    BY DEF Email
  <2>7. \A q \in references : q \in Message /\ q # m /\ stage[q] # "unused"
    BY <2>1, <2>2, <2>5 DEF Letter
  <2> HIDE DEF signed, references
  <2>8. ConversationsTypeOK'
    BY <2>1, <2>4 DEF TalkInv, ConversationsTypeOK, Letter
  <2>9. \A q \in Message \ {m} : stage'[q] = stage[q] /\ email'[q] = email[q]
    BY <2>1 DEF TalkInv, ConversationsTypeOK
  <2>10. /\ stage'[m] = "travelling" /\ email'[m].signed = signed
         /\ email'[m].references = references /\ email'[m].answers = y
    BY <2>1, <2>6 DEF TalkInv, ConversationsTypeOK
  <2>11. Filed' = Filed /\ Filed \subseteq Message
    BY <2>1, FiledType DEF Filed, TalkInv
  <2>12. Listed'
    BY <2>1, <2>9, <2>10, <2>11 DEF TalkInv, Listed
  <2>13. Wellformed'
    <3>1. ASSUME NEW k \in Message \ {m}, stage[k] # "unused"
          PROVE  /\ \A q \in email'[k].references : q # k /\ stage'[q] # "unused"
                 /\ email'[k].signed \in Message => email'[k].signed \in Filed'
                 /\ email'[k].answers \in Message =>
                      /\ stage'[email'[k].answers] # "unused"
                      /\ email'[k].references
                           = email'[email'[k].answers].references \cup {email'[k].answers}
      <4>1. email[k] \in Letter
        BY <3>1 DEF TalkInv, ConversationsTypeOK
      <4> QED
        BY <2>1, <2>9, <2>10, <2>11, <3>1, <4>1 DEF TalkInv, Wellformed, Letter
    <3>2. /\ \A q \in email'[m].references : q # m /\ stage'[q] # "unused"
          /\ email'[m].signed \in Message => email'[m].signed \in Filed'
          /\ email'[m].answers \in Message =>
               /\ stage'[email'[m].answers] # "unused"
               /\ email'[m].references
                    = email'[email'[m].answers].references \cup {email'[m].answers}
      BY <2>1, <2>2, <2>3, <2>7, <2>9, <2>10, <2>11 DEF references
    <3>3. draft' # Nil => draft'.joined \in Filed' /\ \A q \in draft'.references : stage'[q] # "unused"
      <4>1. draft # Nil => draft \in [joined : Message, references : SUBSET Message]
        BY DEF TalkInv, ConversationsTypeOK
      <4> QED
        BY <2>1, <2>9, <2>11, <4>1 DEF TalkInv, Wellformed
    <3> QED
      BY <2>9, <3>1, <3>2, <3>3 DEF Wellformed
  <2>14. InOrder'
    BY <2>1, <2>9, <2>11 DEF TalkInv, InOrder, Position
  <2>15. Placed'
    <3>1. ASSUME NEW k \in Message, stage'[k] \in {"form", "outbound", "found", "filed"}
          PROVE  /\ k # m /\ stage[k] = stage'[k] /\ email'[k] = email[k]
                 /\ joined[k] = k \/ joined[k] \in Filed
                 /\ Party(joined[k]) = Party(k)
                 /\ joined[k] \in Message \ {m}
      BY <2>1, <2>9, <2>10, <2>11, <3>1 DEF TalkInv, Placed
    <3>2. ASSUME NEW k \in Message, stage'[k] \in {"found", "filed"}
          PROVE  /\ email[k].signed # Altered
                 /\ email[k].signed # Nil => email[k].signed \in Message \ {m}
                 /\ k \in timely => email[k].answers \in Message \ {m}
      <4>1. k # m /\ stage[k] = stage'[k] /\ email[k] \in Letter
        BY <3>1, <3>2 DEF TalkInv, ConversationsTypeOK
      <4> QED
        BY <2>1, <2>11, <3>2, <4>1 DEF TalkInv, Placed, Wellformed, Listed, Letter
    <3>3. \A k \in timely : stage'[k] \in {"found", "filed"} /\ email'[k].answers \in known
      BY <2>1, <2>9 DEF TalkInv, Placed, ConversationsTypeOK
    <3> QED
      BY <2>1, <2>9, <2>11, <3>1, <3>2, <3>3 DEF TalkInv, Placed, Party
  <2> QED
    BY <2>8, <2>12, <2>13, <2>14, <2>15 DEF TalkInv
<1>6. ASSUME NEW m \in Message, FindConversation(m)
      PROVE  TalkInv'
  <2> DEFINE y == email[m].answers
             S == Signed(m)
             R == Referenced(m)
  <2>1. /\ stage[m] = "travelling" /\ email[m].signed # Altered
        /\ stage' = [stage EXCEPT ![m] = "found"]
        /\ UNCHANGED <<email, order, sent, known, draft, late>>
    BY <1>6 DEF FindConversation
  <2>2. timely' = IF y \in known THEN timely \cup {m} ELSE timely
    BY <1>6 DEF FindConversation
  <2>3. PICK t \in IF S # {} THEN S ELSE IF R # {} THEN {joined[Newest(R)]} ELSE {m} :
          joined' = [joined EXCEPT ![m] = t]
    BY <1>6 DEF FindConversation
  <2>4. /\ m \notin Filed /\ Filed \subseteq Message /\ email[m] \in Letter
        /\ y \in known => y \in Filed /\ y # m
        /\ known \subseteq Filed /\ order \in Seq(Message) /\ Injective(order)
    BY <2>1, FiledType DEF TalkInv, Listed, ConversationsTypeOK
  <2>5. /\ email[m].signed # Nil /\ Party(email[m].signed) = Party(m) => S # {}
        /\ email[m].signed = Nil => S = {}
        /\ \A q \in S : q = email[m].signed /\ q \in Filed /\ Party(q) = Party(m)
    BY <2>1, <2>4 DEF Signed, TalkInv, Wellformed, Letter
  <2>6. /\ R \subseteq Filed
        /\ \A q \in R : /\ q \in email[m].references
                        /\ joined[q] \in Filed /\ Party(joined[q]) = Party(m)
        /\ y \in known /\ Party(y) = Party(m) => y \in R
    BY <2>1, <2>4 DEF Referenced, TalkInv, Placed, Listed, Wellformed
  <2>7. R # {} => Newest(R) \in R
    BY <2>4, <2>6, NewestIs
  <2>8. y \in R /\ email[m].references \cap late = {} => Newest(R) = y
    <3> SUFFICES ASSUME y \in R, email[m].references \cap late = {}
                 PROVE  Newest(R) = y
      OBVIOUS
    <3>1. \A q \in Filed : Position(q) \in 1..Len(order)
      BY <2>4, AtElement DEF Filed, Elements, Position, At
    <3>2. email[m].references = email[y].references \cup {y}
      BY <2>1, <2>4, <2>6 DEF TalkInv, Wellformed
    <3>3. \A q \in R : Position(q) <= Position(y)
      BY <2>6, <3>1, <3>2 DEF TalkInv, InOrder
    <3> QED
      BY <2>4, <2>6, <3>3, NewestIs
  <2> HIDE DEF S, R
  <2>9. /\ t = m \/ t \in Filed
        /\ Party(t) = Party(m)
        /\ email[m].signed # Nil /\ Party(email[m].signed) = Party(m) => t = email[m].signed
        /\ email[m].signed = Nil /\ y \in known =>
             \/ Party(y) # Party(m)
             \/ email[m].references \cap late # {}
             \/ t = joined[y]
    BY <2>3, <2>4, <2>5, <2>6, <2>7, <2>8
  <2>10. t \in Message
    BY <2>4, <2>9
  <2>11. \A k \in Message \ {m} : stage'[k] = stage[k] /\ joined'[k] = joined[k]
    BY <2>1, <2>3 DEF TalkInv, ConversationsTypeOK
  <2>12. stage'[m] = "found" /\ joined'[m] = t /\ Filed' = Filed
    BY <2>1, <2>3 DEF TalkInv, ConversationsTypeOK, Filed
  <2>13. ConversationsTypeOK'
    BY <2>1, <2>2, <2>3, <2>10 DEF TalkInv, ConversationsTypeOK, Letter
  <2>14. Listed' /\ InOrder'
    BY <2>1, <2>4, <2>11, <2>12 DEF TalkInv, Listed, InOrder, Position
  <2>15. Wellformed'
    <3>1. \A k \in Message : stage'[k] # "unused" <=> stage[k] # "unused"
      BY <2>1, <2>11, <2>12
    <3>2. \A k \in Message : stage[k] # "unused" => email[k] \in Letter
      BY DEF TalkInv, ConversationsTypeOK
    <3>3. draft # Nil => draft \in [joined : Message, references : SUBSET Message]
      BY DEF TalkInv, ConversationsTypeOK
    <3> QED
      BY <2>1, <2>12, <3>1, <3>2, <3>3 DEF TalkInv, Wellformed, Letter
  <2>16. Placed'
    <3>1. ASSUME NEW k \in Message \ {m}, stage[k] \in {"found", "filed"}, k \in timely
          PROVE  email[k].answers \in Message \ {m}
      BY <2>4, <3>1 DEF TalkInv, Placed
    <3>2. \A k \in timely' : stage'[k] \in {"found", "filed"} /\ email[k].answers \in known
      BY <2>1, <2>2, <2>11, <2>12 DEF TalkInv, Placed, ConversationsTypeOK
    <3>3. \A k \in Message \ {m} : k \in timely' <=> k \in timely
      BY <2>2
    <3>4. m \in timely' => y \in known
      BY <3>2
    <3> QED
      BY <2>1, <2>4, <2>9, <2>11, <2>12, <3>1, <3>2, <3>3, <3>4 DEF TalkInv, Placed, Party
  <2> QED
    BY <2>13, <2>14, <2>15, <2>16 DEF TalkInv
<1>7. ASSUME NEW m \in Message, PersistAnswer(m)
      PROVE  TalkInv'
  <2>1. /\ stage[m] = "found"
        /\ stage' = [stage EXCEPT ![m] = "filed"]
        /\ order' = Append(order, m) /\ known' = known \cup {m}
        /\ late' = IF \E q \in Filed : m \in email[q].references THEN late \cup {m} ELSE late
        /\ UNCHANGED <<email, joined, sent, draft, timely>>
    BY <1>7 DEF PersistAnswer
  <2>2. /\ m \notin Filed /\ Filed \subseteq Message /\ order \in Seq(Message) /\ Injective(order)
        /\ sent \subseteq Filed /\ known \subseteq Filed
    BY <2>1, FiledType DEF TalkInv, Listed, ConversationsTypeOK
  <2>3. order' \in Seq(Message) /\ Injective(order') /\ Extends(order, order') /\ Filed' = Filed \cup {m}
    BY <2>1, <2>2, FilesOne
  <2>4. /\ \A q \in Filed : Position(q)' = Position(q)
        /\ \A q \in Filed : Position(q)' < Position(m)'
    BY <2>2, <2>3, FilingAppends
  <2>5. \A k \in Message \ {m} : stage'[k] = stage[k]
    BY <2>1 DEF TalkInv, ConversationsTypeOK
  <2>6. stage'[m] = "filed" /\ \A k \in Message : stage'[k] # "unused" <=> stage[k] # "unused"
    BY <2>1, <2>5 DEF TalkInv, ConversationsTypeOK
  <2>7. \A k \in Message : stage[k] # "unused" => email[k] \in Letter
    BY DEF TalkInv, ConversationsTypeOK
  <2>8. ConversationsTypeOK'
    BY <2>1, <2>3 DEF TalkInv, ConversationsTypeOK, Letter
  <2>9. Listed'
    BY <2>1, <2>2, <2>3, <2>5, <2>6 DEF TalkInv, Listed
  <2>10. Wellformed'
    <3>1. draft # Nil => draft \in [joined : Message, references : SUBSET Message]
      BY DEF TalkInv, ConversationsTypeOK
    <3> QED
      BY <2>1, <2>3, <2>6, <2>7, <3>1 DEF TalkInv, Wellformed, Letter
  <2>11. m \notin email[m].references
    BY <2>1 DEF TalkInv, Wellformed
  <2>12. InOrder'
    BY <2>1, <2>2, <2>3, <2>4, <2>11 DEF TalkInv, InOrder
  <2>13. late \subseteq late'
    BY <2>1
  <2>14. Placed'
    BY <2>1, <2>2, <2>3, <2>5, <2>6, <2>7, <2>13 DEF TalkInv, Placed, Party
  <2> QED
    BY <2>8, <2>9, <2>10, <2>12, <2>14 DEF TalkInv
<1>8. ASSUME NEW m \in Message, PersistReply(m)
      PROVE  TalkInv'
  <2> DEFINE letter == Email(Party(draft.joined), Nil, draft.references, Nil)
  <2>1. /\ draft # Nil /\ stage[m] = "unused"
        /\ stage' = [stage EXCEPT ![m] = "outbound"]
        /\ email' = [email EXCEPT ![m] = letter]
        /\ joined' = [joined EXCEPT ![m] = draft.joined]
        /\ order' = Append(order, m) /\ draft' = Nil
        /\ UNCHANGED <<sent, known, timely, late>>
    BY <1>8 DEF PersistReply
  <2>2. /\ m \notin Filed /\ Filed \subseteq Message /\ order \in Seq(Message) /\ Injective(order)
        /\ sent \subseteq Filed /\ known \subseteq Filed
    BY <2>1, FiledType DEF TalkInv, Listed, ConversationsTypeOK
  <2>3. order' \in Seq(Message) /\ Injective(order') /\ Extends(order, order') /\ Filed' = Filed \cup {m}
    BY <2>1, <2>2, FilesOne
  <2>4. /\ \A q \in Filed : Position(q)' = Position(q)
        /\ \A q \in Filed : Position(q)' < Position(m)'
    BY <2>2, <2>3, FilingAppends
  <2>5. /\ draft.joined \in Filed /\ draft.references \subseteq Message
        /\ \A q \in draft.references : stage[q] # "unused"
    BY <2>1 DEF TalkInv, Wellformed, ConversationsTypeOK
  <2>6. /\ letter \in Letter /\ letter.party = Party(draft.joined) /\ letter.signed = Nil
        /\ letter.references = draft.references /\ letter.answers = Nil
    BY <2>2, <2>5 DEF Email, Letter, Party, TalkInv, Listed, ConversationsTypeOK
  <2> HIDE DEF letter
  <2>7. \A k \in Message \ {m} : stage'[k] = stage[k] /\ email'[k] = email[k] /\ joined'[k] = joined[k]
    BY <2>1 DEF TalkInv, ConversationsTypeOK
  <2>8. stage'[m] = "outbound" /\ email'[m] = letter /\ joined'[m] = draft.joined
    BY <2>1 DEF TalkInv, ConversationsTypeOK
  <2>9. \A k \in Message : stage[k] # "unused" => email[k] \in Letter
    BY DEF TalkInv, ConversationsTypeOK
  <2>10. ConversationsTypeOK'
    BY <2>1, <2>2, <2>3, <2>5, <2>6 DEF TalkInv, ConversationsTypeOK, Letter
  <2>11. Listed'
    BY <2>1, <2>2, <2>3, <2>7, <2>8 DEF TalkInv, Listed
  <2>12. Wellformed'
    BY <2>1, <2>3, <2>5, <2>6, <2>7, <2>8, <2>9 DEF TalkInv, Wellformed, Letter
  <2>13. InOrder'
    <3>1. \A y \in Filed : m \notin email[y].references
      BY <2>1, <2>2 DEF TalkInv, Wellformed, Listed
    <3> QED
      BY <2>1, <2>2, <2>3, <2>4, <2>5, <2>6, <2>7, <2>8, <3>1 DEF TalkInv, InOrder
  <2>14. Placed'
    <3>1. ASSUME NEW k \in Message \ {m}, stage[k] \in {"form", "outbound", "found", "filed"}
          PROVE  joined[k] \in Message \ {m} /\ Party(joined[k]) = Party(k)
      BY <2>2, <3>1 DEF TalkInv, Placed
    <3>2. ASSUME NEW k \in Message \ {m}, stage[k] \in {"found", "filed"}
          PROVE  /\ email[k].signed # Nil => email[k].signed \in Message \ {m}
                 /\ k \in timely => email[k].answers \in Message \ {m}
      BY <2>2, <2>9, <3>2 DEF TalkInv, Placed, Wellformed, Letter
    <3>3. \A k \in timely : k # m /\ k \in Message
      BY <2>1 DEF TalkInv, Placed, ConversationsTypeOK
    <3>4. \A k \in Message \ {m} : email'[k].party = Party(k)
      BY <2>7 DEF Party
    <3>5. email'[m].party = Party(draft.joined) /\ email'[draft.joined].party = Party(draft.joined)
      BY <2>2, <2>5, <2>6, <2>8, <3>4 DEF Party
    <3>6. ASSUME NEW k \in Message, stage'[k] \in {"form", "outbound", "found", "filed"}
          PROVE  /\ joined'[k] = k \/ joined'[k] \in Filed'
                 /\ email'[joined'[k]].party = email'[k].party
      <4>1. CASE k = m
        BY <2>3, <2>5, <2>8, <3>5, <4>1 DEF Party
      <4>2. CASE k # m
        BY <2>3, <2>7, <3>1, <3>4, <3>6, <4>2 DEF TalkInv, Placed, Party
      <4> QED
        BY <4>1, <4>2
    <3>7. ASSUME NEW k \in Message, stage'[k] \in {"found", "filed"}
          PROVE  LET signed == email'[k].signed
                     y      == email'[k].answers
                 IN  /\ signed # Altered
                     /\ signed # Nil /\ email'[signed].party = email'[k].party => joined'[k] = signed
                     /\ signed = Nil /\ k \in timely' =>
                          \/ email'[y].party # email'[k].party
                          \/ email'[k].references \cap late' # {}
                          \/ joined'[k] = joined'[y]
      <4>1. k \in Message \ {m} /\ stage[k] \in {"found", "filed"}
        BY <2>7, <2>8, <3>7
      <4> QED
        BY <2>1, <2>7, <3>2, <3>4, <4>1 DEF TalkInv, Placed, Party
    <3>8. \A k \in timely' : stage'[k] \in {"found", "filed"} /\ email'[k].answers \in known'
      BY <2>1, <2>7, <3>3 DEF TalkInv, Placed
    <3> QED
      BY <3>6, <3>7, <3>8 DEF Placed, Party
  <2> QED
    BY <2>10, <2>11, <2>12, <2>13, <2>14 DEF TalkInv
<1>9. ASSUME NEW f \in Message, NEW p \in Parties, OpenByForm(f, p)
      PROVE  TalkInv'
  <2> DEFINE c    == f + 1
             letter == Email(p, Nil, {}, Nil)
  <2>0. f \in Int /\ c # f
    BY DEF Message
  <2>1. /\ c \in Message /\ stage[f] = "unused" /\ stage[c] = "unused"
        /\ stage' = [stage EXCEPT ![f] = "form", ![c] = "outbound"]
        /\ email' = [email EXCEPT ![f] = letter, ![c] = letter]
        /\ joined' = [joined EXCEPT ![f] = f, ![c] = f]
    BY <1>9 DEF OpenByForm
  <2>16. UNCHANGED <<sent, known, draft, timely, late>>
    BY <1>9 DEF OpenByForm
  <2>9. order' \in {order \o <<f, c>>, order \o <<c, f>>}
    BY <1>9 DEF OpenByForm
  <2>2. /\ letter \in Letter /\ letter.party = p /\ letter.signed = Nil
        /\ letter.references = {} /\ letter.answers = Nil
    BY DEF Email, Letter
  <2> HIDE DEF c, letter
  <2>3. /\ f \notin Filed /\ c \notin Filed /\ Filed \subseteq Message
        /\ order \in Seq(Message) /\ Injective(order)
        /\ sent \subseteq Filed /\ known \subseteq Filed
    BY <2>1, FiledType DEF TalkInv, Listed, ConversationsTypeOK
  <2>4. ASSUME NEW x \in Message, NEW y \in Message, x # y, x \notin Filed, y \notin Filed,
               order' = order \o <<x, y>>
        PROVE  /\ order' \in Seq(Message) /\ Injective(order') /\ Extends(order, order')
               /\ Filed' = Filed \cup {x, y}
    <3> DEFINE s == Append(order, x)
    <3>1. order' = Append(s, y)
      BY <2>3, <2>4, ExtendsByTwo
    <3>2. /\ s \in Seq(Message) /\ Injective(s) /\ Extends(order, s)
          /\ \A z : (\E i \in DOMAIN s : s[i] = z) <=> z = x \/ \E i \in DOMAIN order : order[i] = z
      <4>1. \A i \in DOMAIN order : order[i] # x
        BY <2>4 DEF Filed
      <4> QED
        BY <2>3, <4>1, ExtendsByOne
    <3> HIDE DEF s
    <3>3. \A i \in DOMAIN s : s[i] # y
      BY <2>4, <3>2 DEF Filed
    <3>4. /\ order' \in Seq(Message) /\ Injective(order') /\ Extends(s, order')
          /\ \A z : (\E i \in DOMAIN order' : order'[i] = z) <=> z = y \/ \E i \in DOMAIN s : s[i] = z
      BY <3>1, <3>2, <3>3, ExtendsByOne
    <3>5. Extends(order, order')
      <4>1. /\ DOMAIN order = 1..Len(order) /\ DOMAIN s = 1..Len(s)
            /\ Len(order) \in Nat /\ Len(s) \in Nat /\ Len(order') \in Nat
        BY <2>3, <3>2, <3>4
      <4> QED
        BY <3>2, <3>4, <4>1 DEF Extends
    <3>6. \A z : z \in Filed' <=> z = y \/ z = x \/ z \in Filed
      <4>1. \A z : z \in Filed <=> \E i \in DOMAIN order : order[i] = z
        BY DEF Filed
      <4>2. \A z : z \in Filed' <=> \E i \in DOMAIN order' : order'[i] = z
        BY DEF Filed
      <4> QED
        BY <3>2, <3>4, <4>1, <4>2
    <3> QED
      BY <3>4, <3>5, <3>6
  <2>5. /\ order' \in Seq(Message) /\ Injective(order') /\ Extends(order, order')
        /\ Filed' = Filed \cup {f, c}
    BY <2>0, <2>1, <2>3, <2>4, <2>9
  <2>6. \A q \in Filed : Position(q)' = Position(q)
    BY <2>3, <2>5, FilingAppends
  <2>7. \A k \in Message \ {f, c} : stage'[k] = stage[k] /\ email'[k] = email[k] /\ joined'[k] = joined[k]
    BY <2>1 DEF TalkInv, ConversationsTypeOK
  <2>8. /\ stage'[f] = "form" /\ email'[f] = letter /\ joined'[f] = f
        /\ stage'[c] = "outbound" /\ email'[c] = letter /\ joined'[c] = f
    BY <2>1 DEF TalkInv, ConversationsTypeOK
  <2>15. \A k \in Message : stage[k] # "unused" => email[k] \in Letter
    BY DEF TalkInv, ConversationsTypeOK
  <2>10. ConversationsTypeOK'
    BY <2>1, <2>2, <2>5, <2>16 DEF TalkInv, ConversationsTypeOK, Letter
  <2>11. Listed'
    BY <2>1, <2>3, <2>5, <2>7, <2>8, <2>16 DEF TalkInv, Listed
  <2>12. Wellformed'
    <3>1. draft # Nil => draft \in [joined : Message, references : SUBSET Message]
      BY DEF TalkInv, ConversationsTypeOK
    <3>2. ASSUME NEW k \in Message \ {f, c}, stage[k] # "unused"
          PROVE  /\ \A q \in email[k].references : q # k /\ q \in Message \ {f, c} /\ stage[q] # "unused"
                 /\ email[k].signed \in Message => email[k].signed \in Filed'
                 /\ email[k].answers \in Message =>
                      /\ email[k].answers \in Message \ {f, c}
                      /\ stage[email[k].answers] # "unused"
                      /\ email[k].references
                           = email[email[k].answers].references \cup {email[k].answers}
      BY <2>1, <2>5, <2>15, <3>2 DEF TalkInv, Wellformed, Letter
    <3>3. draft # Nil =>
            /\ draft.joined \in Filed'
            /\ \A q \in draft.references : q \in Message \ {f, c} /\ stage[q] # "unused"
      BY <2>1, <2>5, <3>1 DEF TalkInv, Wellformed
    <3>4. \A k \in {f, c} : /\ email'[k].references = {}
                            /\ email'[k].signed \notin Message /\ email'[k].answers \notin Message
      BY <2>2, <2>8
    <3> QED
      BY <2>7, <2>8, <2>16, <3>2, <3>3, <3>4 DEF Wellformed
  <2>13. InOrder'
    <3>1. \A y \in Filed : f \notin email[y].references /\ c \notin email[y].references
      BY <2>1, <2>3 DEF TalkInv, Wellformed, Listed
    <3> QED
      BY <2>2, <2>3, <2>5, <2>6, <2>7, <2>8, <2>16, <3>1 DEF TalkInv, InOrder
  <2>14. Placed'
    <3>1. ASSUME NEW k \in Message \ {f, c}, stage[k] \in {"form", "outbound", "found", "filed"}
          PROVE  joined[k] \in Message \ {f, c}
      BY <2>3, <3>1 DEF TalkInv, Placed
    <3>2. ASSUME NEW k \in Message \ {f, c}, stage[k] \in {"found", "filed"}
          PROVE  /\ email[k].signed # Nil => email[k].signed \in Message \ {f, c}
                 /\ k \in timely => email[k].answers \in Message \ {f, c}
      BY <2>3, <2>15, <3>2 DEF TalkInv, Placed, Wellformed, Letter
    <3>3. \A k \in timely : k \in Message \ {f, c}
      BY <2>1 DEF TalkInv, Placed, ConversationsTypeOK
    <3>4. ASSUME NEW k \in Message, stage'[k] \in {"form", "outbound", "found", "filed"}
          PROVE  /\ joined'[k] = k \/ joined'[k] \in Filed'
                 /\ email'[joined'[k]].party = email'[k].party
      <4>1. CASE k \in {f, c}
        BY <2>5, <2>8, <4>1
      <4>2. CASE k \notin {f, c}
        BY <2>5, <2>7, <3>1, <3>4, <4>2 DEF TalkInv, Placed, Party
      <4> QED
        BY <4>1, <4>2
    <3>5. ASSUME NEW k \in Message, stage'[k] \in {"found", "filed"}
          PROVE  LET signed == email'[k].signed
                     y      == email'[k].answers
                 IN  /\ signed # Altered
                     /\ signed # Nil /\ email'[signed].party = email'[k].party => joined'[k] = signed
                     /\ signed = Nil /\ k \in timely' =>
                          \/ email'[y].party # email'[k].party
                          \/ email'[k].references \cap late' # {}
                          \/ joined'[k] = joined'[y]
      <4>1. k \in Message \ {f, c} /\ stage[k] \in {"found", "filed"}
        BY <2>7, <2>8, <3>5
      <4>2. email'[k] = email[k] /\ joined'[k] = joined[k]
        BY <2>7, <4>1
      <4>3. \A q \in Message \ {f, c} : email'[q].party = Party(q) /\ joined'[q] = joined[q]
        BY <2>7 DEF Party
      <4> QED
        BY <2>16, <3>2, <4>1, <4>2, <4>3 DEF TalkInv, Placed, Party
    <3>6. \A k \in timely' : stage'[k] \in {"found", "filed"} /\ email'[k].answers \in known'
      <4>1. \A k \in timely : stage'[k] = stage[k] /\ email'[k] = email[k]
        BY <2>7, <3>3
      <4> QED
        BY <2>16, <4>1 DEF TalkInv, Placed
    <3> QED
      BY <3>4, <3>5, <3>6 DEF Placed, Party
  <2> QED
    BY <2>10, <2>11, <2>12, <2>13, <2>14 DEF TalkInv
<1>10. CASE UNCHANGED talkVars
  <2>1. UNCHANGED <<stage, email, joined, order, sent, known, draft, timely, late>>
    BY <1>10 DEF talkVars
  <2>2. ConversationsTypeOK' /\ Listed'
    BY <2>1 DEF TalkInv, ConversationsTypeOK, Listed, Filed, Letter
  <2>3. Wellformed' /\ InOrder' /\ Placed'
    BY <2>1 DEF TalkInv, Wellformed, InOrder, Placed, Filed, Position, Party
  <2> QED
    BY <2>2, <2>3 DEF TalkInv
<1> QED
  BY <1>1, <1>2, <1>3, <1>4, <1>5, <1>6, <1>7, <1>8, <1>9, <1>10 DEF TalkNext

\* Before the first message the invariant holds.
LEMMA InitTalk == TalkInit => TalkInv
BY ConversationsAssumption DEF TalkInit, TalkInv, ConversationsTypeOK, Letter, Listed, Injective, Filed,
       Wellformed, InOrder, Placed

\* Every reachable state of the conversations has its type.
THEOREM ConversationsTypeCorrect == TalkSpec => []ConversationsTypeOK
<1>1. TalkInv => ConversationsTypeOK
  BY DEF TalkInv
<1> QED
  BY <1>1, InitTalk, StepTalk, PTL DEF TalkSpec

\* However an answer is addressed and whenever it is filed, it comes back to the
\* conversation it answers, and never to one of another party.
THEOREM AnswersAlwaysReturn == TalkSpec => []AnswersReturn
<1>1. TalkInv => AnswersReturn
  BY FiledType DEF TalkInv, Placed, AnswersReturn
<1> QED
  BY <1>1, InitTalk, StepTalk, PTL DEF TalkSpec

-----------------------------------------------------------------------------
(* The receipts of emails.                                                 *)
-----------------------------------------------------------------------------

USE InboxAssumption DEF ReceiptStep, ThreadStatus

-----------------------------------------------------------------------------
(* Where a receipt is tells what it has done so far.                       *)
-----------------------------------------------------------------------------

\* A receipt in use has a mail; it has no thread but its own before it looked for
\* one, and no object before it uploaded one.  Threads are named by receipts in
\* use, and only the two last steps are behind a commit.
Progress ==
  \A r \in Receipt :
    /\ step[r] # "unused" => mail[r] \in Mail
    /\ status[r] # "none" => step[r] # "unused"
    /\ thread[r] = r \/ step[thread[r]] # "unused"
    /\ step[r] \in {"unused", "finding"} => thread[r] = r
    /\ step[r] \in {"unused", "finding", "uploading"} => r \notin stored
    /\ r \in filed => step[r] \in {"cleaning", "done"}
    /\ r \in filed /\ step[r] = "cleaning" => r \in unsure
    /\ step[r] = "persisting" /\ HasAttachment(r) => r \in stored

\* The thread a receipt chose is its own, or one that exists, of its party.
ChoseWell ==
  \A r \in Receipt : step[r] \in {"uploading", "persisting"} =>
    \/ thread[r] = r
    \/ status[thread[r]] # "none" /\ PartyOf[mail[thread[r]]] = PartyOf[mail[r]]

\* A receipt about to discard its mail has seen it filed.
DiscardsFiled == \A r \in Receipt : step[r] = "discarding" => Duplicate(r)

TypeInv == TypeOK /\ Progress

\* Every step of a receipt, a reader or an admin keeps the types.
LEMMA StepType == TypeInv /\ [Next]_vars => TypeInv'
<1> SUFFICES ASSUME TypeInv, [Next]_vars
             PROVE  TypeInv'
  OBVIOUS
<1> USE DEF TypeInv, TypeOK, Progress, GoTo, HasAttachment, tables, readers, receipts
<1>1. ASSUME NEW r \in Receipt, NEW m \in Mail, SubmitForm(r, m)
      PROVE  TypeInv'
  BY <1>1 DEF SubmitForm, File
<1>2. ASSUME NEW r \in Receipt, NEW m \in Mail, Receive(r, m)
      PROVE  TypeInv'
  BY <1>2 DEF Receive
<1>3. ASSUME NEW r \in Receipt, FindThread(r) \/ FindThreadThrows(r)
      PROVE  TypeInv'
  BY <1>3 DEF FindThread, FindThreadThrows, Known
<1>4. ASSUME NEW r \in Receipt, Upload(r) \/ UploadThrows(r)
      PROVE  TypeInv'
  BY <1>4 DEF Upload, UploadThrows
<1>5. ASSUME NEW r \in Receipt, Persist(r) \/ PersistThrows(r)
      PROVE  TypeInv'
  <2>1. /\ step[r] = "persisting"
        /\ step' \in {[step EXCEPT ![r] = "done"], [step EXCEPT ![r] = "cleaning"]}
        /\ UNCHANGED <<mail, thread, stored, leaked, seen, buried>>
        /\ accepted' \subseteq Mail
        /\ unsure \subseteq unsure' /\ unsure' \subseteq Receipt
        /\ filed' \in {filed, filed \cup {r}}
        /\ r \in filed' /\ step'[r] = "cleaning" => r \in unsure'
    BY <1>5 DEF Persist, PersistThrows, File
  <2>2. /\ status' \in {status, [status EXCEPT ![thread[r]] = "open"]}
        /\ unread' \in {unread, [unread EXCEPT ![thread[r]] = @ + 1]}
    BY <1>5 DEF Persist, PersistThrows, File
  <2>3. step[thread[r]] # "unused"
    BY <2>1
  <2>4. TypeOK'
    BY <2>1, <2>2
  <2>5. Progress'
    BY <2>1, <2>2, <2>3
  <2> QED
    BY <2>4, <2>5
<1>6. ASSUME NEW r \in Receipt, PersistDuplicate(r)
      PROVE  TypeInv'
  BY <1>6 DEF PersistDuplicate
<1>7. ASSUME NEW r \in Receipt, Discard(r) \/ CleanUp(r)
      PROVE  TypeInv'
  <2>1. /\ stored' \in SUBSET Receipt /\ leaked' \in SUBSET Receipt
        /\ stored' \subseteq stored /\ stored \ {r} \subseteq stored' /\ accepted' \subseteq Mail
        /\ step[r] \in {"discarding", "cleaning"}
    BY <1>7 DEF Discard, CleanUp, DeleteUpload
  <2>2. /\ step' = [step EXCEPT ![r] = "done"]
        /\ UNCHANGED <<mail, thread, filed, status, unread, seen, buried, unsure>>
    BY <1>7 DEF Discard, CleanUp
  <2>3. TypeOK'
    BY <2>1, <2>2
  <2>4. ASSUME NEW q \in Receipt, q # r
        PROVE  step'[q] = step[q]
    BY <2>2, <2>4
  <2>5. step'[r] = "done"
    BY <2>2
  <2>6. Progress'
    BY <2>1, <2>2, <2>4, <2>5
  <2> QED
    BY <2>3, <2>6
<1>8. ASSUME NEW r \in Receipt, Crash(r)
      PROVE  TypeInv'
  <2>1. /\ leaked' \in SUBSET Receipt
        /\ step' = [step EXCEPT ![r] = "done"] /\ step[r] # "unused"
        /\ UNCHANGED <<mail, thread, filed, status, unread, stored, accepted, seen, buried, unsure>>
    BY <1>8 DEF Crash
  <2>2. TypeOK'
    BY <2>1
  <2>3. Progress'
    BY <2>1
  <2> QED
    BY <2>2, <2>3
<1>9. ASSUME NEW t \in Receipt, OpenThread(t) \/ Reply(t)
      PROVE  TypeInv'
  BY <1>9 DEF OpenThread, Reply, ClearUnread, MessagesOf
<1>10. ASSUME NEW t \in Receipt, NEW markRead \in BOOLEAN, NEW s \in ThreadStatus \ {"none"},
              UpdateThread(t, markRead, s)
       PROVE  TypeInv'
  BY <1>10 DEF UpdateThread, ClearUnread, MessagesOf
<1>11. CASE UNCHANGED vars
  BY <1>11 DEF vars, Duplicate
<1> QED
  BY <1>1, <1>2, <1>3, <1>4, <1>5, <1>6, <1>7, <1>8, <1>9, <1>10, <1>11 DEF Next

-----------------------------------------------------------------------------
(* What is committed stays: messages, the mail and the thread of each, and *)
(* that a thread exists.  The rest of the proofs works on this.            *)
-----------------------------------------------------------------------------

\* What is filed stays filed, and a receipt does not change its mail or, once chosen, its
\* thread.
LEMMA CommittedStays ==
  ASSUME TypeInv, [Next]_vars
  PROVE  /\ filed \subseteq filed'
         /\ \A r \in Receipt : step[r] # "unused" => mail'[r] = mail[r]
         /\ \A r \in Receipt : step[r] \notin {"unused", "finding"} => thread'[r] = thread[r]
         /\ \A t \in Receipt : status[t] # "none" => status'[t] # "none"
<1> USE DEF TypeInv, TypeOK, GoTo, tables, receipts
<1>1. ASSUME NEW r \in Receipt, NEW m \in Mail, SubmitForm(r, m) \/ Receive(r, m)
      PROVE  /\ filed \subseteq filed'
             /\ \A q \in Receipt : step[q] # "unused" => mail'[q] = mail[q]
             /\ \A q \in Receipt : step[q] \notin {"unused", "finding"} => thread'[q] = thread[q]
             /\ \A t \in Receipt : status[t] # "none" => status'[t] # "none"
  BY <1>1 DEF SubmitForm, Receive, File
<1>2. ASSUME NEW r \in Receipt,
             \/ FindThread(r) \/ FindThreadThrows(r) \/ Upload(r) \/ UploadThrows(r)
             \/ Persist(r) \/ PersistDuplicate(r) \/ PersistThrows(r)
             \/ Discard(r) \/ CleanUp(r) \/ Crash(r)
      PROVE  /\ filed \subseteq filed' /\ mail' = mail
             /\ \A q \in Receipt : step[q] # "finding" => thread'[q] = thread[q]
             /\ \A t \in Receipt : status[t] # "none" => status'[t] # "none"
  BY <1>2 DEF FindThread, FindThreadThrows, Upload, UploadThrows, Persist, PersistDuplicate,
              PersistThrows, Discard, CleanUp, Crash, File
<1>3. ASSUME NEW t \in Receipt,
             \/ OpenThread(t) \/ Reply(t)
             \/ \E markRead \in BOOLEAN, s \in ThreadStatus \ {"none"} : UpdateThread(t, markRead, s)
      PROVE  /\ filed' = filed /\ mail' = mail /\ thread' = thread
             /\ \A q \in Receipt : status[q] # "none" => status'[q] # "none"
  BY <1>3 DEF OpenThread, Reply, UpdateThread
<1>4. CASE UNCHANGED vars
  BY <1>4 DEF vars
<1> QED
  BY <1>1, <1>2, <1>3, <1>4 DEF Next

\* A message is filed by a form or by the receipt's own transaction.
LEMMA NewlyFiled ==
  ASSUME TypeInv, [Next]_vars, NEW r \in filed' \ filed
  PROVE  /\ step[r] = "persisting" \/ (step[r] = "unused" /\ thread[r] = r)
         /\ thread' = thread
         /\ status'[thread[r]] = "open"
         /\ step[r] = "persisting" => mail' = mail
<1> USE DEF TypeInv, TypeOK, Progress, GoTo, tables, receipts
<1>1. ASSUME NEW q \in Receipt, NEW m \in Mail, SubmitForm(q, m) \/ Receive(q, m)
      PROVE  /\ step[r] = "unused" /\ thread[r] = r /\ thread' = thread /\ status'[thread[r]] = "open"
  BY <1>1 DEF SubmitForm, Receive, File
<1>2. ASSUME NEW q \in Receipt,
             \/ FindThread(q) \/ FindThreadThrows(q) \/ Upload(q) \/ UploadThrows(q)
             \/ PersistDuplicate(q) \/ Discard(q) \/ CleanUp(q) \/ Crash(q)
      PROVE  FALSE
  BY <1>2 DEF FindThread, FindThreadThrows, Upload, UploadThrows, PersistDuplicate,
              Discard, CleanUp, Crash
<1>3. ASSUME NEW q \in Receipt, Persist(q) \/ PersistThrows(q)
      PROVE  /\ step[r] = "persisting" /\ thread' = thread /\ status'[thread[r]] = "open" /\ mail' = mail
  BY <1>3 DEF Persist, PersistThrows, File
<1>4. ASSUME NEW t \in Receipt,
             \/ OpenThread(t) \/ Reply(t)
             \/ \E markRead \in BOOLEAN, s \in ThreadStatus \ {"none"} : UpdateThread(t, markRead, s)
      PROVE  FALSE
  BY <1>4 DEF OpenThread, Reply, UpdateThread
<1>5. CASE UNCHANGED vars
  BY <1>5 DEF vars
<1> QED
  BY <1>1, <1>2, <1>3, <1>4, <1>5 DEF Next

-----------------------------------------------------------------------------
(* The right party: a thread chosen among those of filed messages of the   *)
(* same party is still there, and still of that party, when the message is *)
(* filed, for neither threads nor the mails of their receipts go away.     *)
-----------------------------------------------------------------------------

\* A choice of thread stays right while its receipt uploads.
LEMMA StepChose == TypeInv /\ RightParty /\ ChoseWell /\ [Next]_vars => ChoseWell'
<1> SUFFICES ASSUME TypeInv, RightParty, ChoseWell, [Next]_vars, NEW r \in Receipt,
                    step'[r] \in {"uploading", "persisting"}, thread'[r] # r
             PROVE  status'[thread'[r]] # "none" /\ PartyOf[mail'[thread'[r]]] = PartyOf[mail'[r]]
  BY DEF ChoseWell
<1>1. CASE step[r] \in {"uploading", "persisting"}
  <2>1. thread'[r] = thread[r] /\ mail'[r] = mail[r] /\ thread[r] \in Receipt
    BY <1>1, CommittedStays DEF TypeInv, TypeOK
  <2>2. status[thread[r]] # "none" /\ PartyOf[mail[thread[r]]] = PartyOf[mail[r]]
    BY <1>1, <2>1 DEF ChoseWell
  <2>3. QED
    BY <2>1, <2>2, CommittedStays DEF TypeInv, Progress
<1>2. CASE step[r] \notin {"uploading", "persisting"}
  <2>1. FindThread(r)
    BY <1>2 DEF Next, vars, TypeInv, TypeOK, SubmitForm, Receive, FindThread, FindThreadThrows, Upload,
                UploadThrows, Persist, PersistDuplicate, PersistThrows, Discard, CleanUp, Crash,
                OpenThread, Reply, UpdateThread, GoTo, receipts
  <2>2. PICK q \in filed : PartyOf[mail[q]] = PartyOf[mail[r]] /\ thread'[r] = thread[q]
    BY <2>1 DEF FindThread, Known, TypeInv, TypeOK
  <2>3. status[thread[q]] # "none" /\ PartyOf[mail[thread[q]]] = PartyOf[mail[r]]
    BY <2>2 DEF RightParty
  <2>4. status' = status /\ mail' = mail
    BY <2>1 DEF FindThread, tables
  <2>5. QED
    BY <2>2, <2>3, <2>4
<1> QED
  BY <1>1, <1>2

\* A message is filed in a thread of its own party.
LEMMA StepParty == TypeInv /\ RightParty /\ ChoseWell /\ [Next]_vars => RightParty'
<1> SUFFICES ASSUME TypeInv, RightParty, ChoseWell, [Next]_vars, NEW r \in filed'
             PROVE  status'[thread'[r]] # "none" /\ PartyOf[mail'[thread'[r]]] = PartyOf[mail'[r]]
  BY DEF RightParty
<1>0. r \in Receipt /\ thread[r] \in Receipt
  <2>1. TypeInv'
    BY StepType
  <2>2. QED
    BY <2>1 DEF TypeInv, TypeOK
<1>1. CASE r \in filed
  <2>1. step[r] \in {"cleaning", "done"}
    BY <1>0, <1>1 DEF TypeInv, Progress
  <2>2. thread'[r] = thread[r] /\ mail'[r] = mail[r]
    BY <1>0, <2>1, CommittedStays
  <2>3. status[thread[r]] # "none" /\ PartyOf[mail[thread[r]]] = PartyOf[mail[r]]
    BY <1>1 DEF RightParty
  <2>4. QED
    BY <1>0, <2>2, <2>3, CommittedStays DEF TypeInv, Progress
<1>2. CASE r \notin filed
  <2>1. thread'[r] = thread[r] /\ status'[thread[r]] = "open"
    BY <1>2, NewlyFiled
  <2>2. CASE thread[r] = r
    BY <2>1, <2>2
  <2>3. CASE thread[r] # r
    <3>1. step[r] = "persisting" /\ mail' = mail
      BY <1>2, <2>3, NewlyFiled
    <3>2. PartyOf[mail[thread[r]]] = PartyOf[mail[r]]
      BY <1>0, <2>3, <3>1 DEF ChoseWell
    <3>3. QED
      BY <2>1, <3>1, <3>2
  <2>4. QED
    BY <2>2, <2>3
<1> QED
  BY <1>1, <1>2

-----------------------------------------------------------------------------
(* Accepted is filed.                                                      *)
-----------------------------------------------------------------------------

\* A filed message stays filed, with the Message-ID it has.
LEMMA FiledStays ==
  ASSUME TypeInv, [Next]_vars, NEW q \in filed
  PROVE  q \in filed' /\ mail'[q] = mail[q]
<1>1. step[q] # "unused" /\ q \in Receipt
  BY DEF TypeInv, TypeOK, Progress
<1>2. QED
  BY <1>1, CommittedStays

\* A receipt that accepts has filed its mail or has seen its duplicate filed.
LEMMA StepAccepted ==
  TypeInv /\ DiscardsFiled /\ AcceptedIsFiled /\ [Next]_vars => DiscardsFiled' /\ AcceptedIsFiled'
<1> SUFFICES ASSUME TypeInv, DiscardsFiled, AcceptedIsFiled, [Next]_vars
             PROVE  DiscardsFiled' /\ AcceptedIsFiled'
  OBVIOUS
<1>1. ASSUME NEW r \in Receipt, step'[r] = "discarding"
      PROVE  Duplicate(r)'
  <2>1. Duplicate(r) /\ mail'[r] = mail[r]
    <3>1. CASE step[r] = "discarding"
      BY <3>1, CommittedStays DEF DiscardsFiled
    <3>2. CASE step[r] # "discarding"
      BY <1>1, <3>2 DEF Next, vars, TypeInv, TypeOK, SubmitForm, Receive, FindThread, FindThreadThrows,
                Upload, UploadThrows, Persist, PersistDuplicate, PersistThrows, Discard, CleanUp, Crash,
                OpenThread, Reply, UpdateThread, GoTo, receipts
    <3>3. QED
      BY <3>1, <3>2
  <2>2. QED
    BY <2>1, FiledStays DEF Duplicate
<1>2. ASSUME NEW m \in accepted' \ accepted
      PROVE  \E r \in filed' : IdOf[mail'[r]] = IdOf[m]
  <2>1. ASSUME NEW r \in Receipt, SubmitForm(r, m)
        PROVE  r \in filed' /\ mail'[r] = m
    BY <2>1 DEF SubmitForm, File, TypeInv, TypeOK
  <2>2. ASSUME NEW r \in Receipt, Persist(r)
        PROVE  r \in filed' /\ mail'[r] = m
    BY <1>2, <2>2 DEF Persist, File, GoTo, TypeInv, TypeOK
  <2>3. ASSUME NEW r \in Receipt, Discard(r)
        PROVE  \E q \in filed : IdOf[mail[q]] = IdOf[m]
    BY <1>2, <2>3 DEF Discard, DiscardsFiled, Duplicate
  <2>4. \/ \E r \in Receipt : SubmitForm(r, m) \/ Persist(r) \/ Discard(r)
    BY <1>2 DEF Next, vars, SubmitForm, Receive, FindThread, FindThreadThrows,
                Upload, UploadThrows, Persist, PersistDuplicate, PersistThrows, Discard, CleanUp, Crash,
                OpenThread, Reply, UpdateThread
  <2>5. QED
    BY <2>1, <2>2, <2>3, <2>4, FiledStays
<1>3. ASSUME NEW m \in accepted
      PROVE  \E r \in filed' : IdOf[mail'[r]] = IdOf[m]
  <2>1. PICK q \in filed : IdOf[mail[q]] = IdOf[m]
    BY DEF AcceptedIsFiled
  <2>2. QED
    BY <2>1, FiledStays
<1> QED
  BY <1>1, <1>2, <1>3 DEF DiscardsFiled, AcceptedIsFiled

-----------------------------------------------------------------------------
(* What nobody has read is unread.                                         *)
-----------------------------------------------------------------------------

\* A thread with a message that nobody saw is counted unread.
LEMMA StepUnread == TypeInv /\ UnseenIsUnread /\ [Next]_vars => UnseenIsUnread'
<1> SUFFICES ASSUME TypeInv, UnseenIsUnread, [Next]_vars, NEW r \in filed' \ (seen' \cup buried')
             PROVE  unread'[thread'[r]] > 0
  BY DEF UnseenIsUnread
<1> USE DEF TypeInv, TypeOK, Progress, GoTo, tables, receipts, readers
<1>1. ASSUME NEW q \in Receipt, NEW m \in Mail, SubmitForm(q, m) \/ Receive(q, m)
      PROVE  unread'[thread'[r]] > 0
  BY <1>1 DEF SubmitForm, Receive, File, UnseenIsUnread
<1>2. ASSUME NEW q \in Receipt, FindThread(q)
      PROVE  unread'[thread'[r]] > 0
  BY <1>2 DEF FindThread, UnseenIsUnread
<1>3. ASSUME NEW q \in Receipt,
             \/ FindThreadThrows(q) \/ Upload(q) \/ UploadThrows(q)
             \/ PersistDuplicate(q) \/ Discard(q) \/ CleanUp(q) \/ Crash(q)
      PROVE  unread'[thread'[r]] > 0
  BY <1>3 DEF FindThreadThrows, Upload, UploadThrows, PersistDuplicate, Discard, CleanUp, Crash,
              UnseenIsUnread
<1>4. ASSUME NEW q \in Receipt, Persist(q) \/ PersistThrows(q)
      PROVE  unread'[thread'[r]] > 0
  BY <1>4 DEF Persist, PersistThrows, File, UnseenIsUnread
<1>5. ASSUME NEW t \in Receipt, OpenThread(t)
      PROVE  unread'[thread'[r]] > 0
  BY <1>5 DEF OpenThread, UnseenIsUnread
<1>6. ASSUME NEW t \in Receipt, Reply(t)
      PROVE  unread'[thread'[r]] > 0
  BY <1>6 DEF Reply, ClearUnread, MessagesOf, UnseenIsUnread
<1>7. ASSUME NEW t \in Receipt, NEW markRead \in BOOLEAN, NEW s \in ThreadStatus \ {"none"},
             UpdateThread(t, markRead, s)
      PROVE  unread'[thread'[r]] > 0
  BY <1>7 DEF UpdateThread, ClearUnread, MessagesOf, UnseenIsUnread
<1>8. CASE UNCHANGED vars
  BY <1>8 DEF vars, UnseenIsUnread
<1> QED
  BY <1>1, <1>2, <1>3, <1>4, <1>5, <1>6, <1>7, <1>8 DEF Next

-----------------------------------------------------------------------------
(* Attachments are kept, and none is forgotten.                            *)
-----------------------------------------------------------------------------

\* No step takes the attachments of a filed message.
LEMMA StepAttachments == TypeInv /\ AttachmentsKept /\ [Next]_vars => AttachmentsKept'
<1> SUFFICES ASSUME TypeInv, AttachmentsKept, [Next]_vars
             PROVE  AttachmentsKept'
  OBVIOUS
<1> USE DEF TypeInv, TypeOK, Progress, GoTo, tables, receipts, HasAttachment, AttachmentsKept
<1>1. ASSUME NEW q \in Receipt, NEW m \in Mail, SubmitForm(q, m) \/ Receive(q, m)
      PROVE  AttachmentsKept'
  BY <1>1 DEF SubmitForm, Receive, File
<1>2. ASSUME NEW q \in Receipt,
             FindThread(q) \/ FindThreadThrows(q) \/ Upload(q) \/ UploadThrows(q) \/ Crash(q)
      PROVE  AttachmentsKept'
  BY <1>2 DEF FindThread, FindThreadThrows, Upload, UploadThrows, Crash
<1>3. ASSUME NEW q \in Receipt, Persist(q) \/ PersistDuplicate(q) \/ PersistThrows(q)
      PROVE  AttachmentsKept'
  BY <1>3 DEF Persist, PersistDuplicate, PersistThrows, File
<1>4. ASSUME NEW q \in Receipt, Discard(q) \/ CleanUp(q)
      PROVE  AttachmentsKept'
  BY <1>4 DEF Discard, CleanUp, DeleteUpload
<1>5. ASSUME NEW t \in Receipt,
             \/ OpenThread(t) \/ Reply(t)
             \/ \E markRead \in BOOLEAN, s \in ThreadStatus \ {"none"} : UpdateThread(t, markRead, s)
      PROVE  AttachmentsKept'
  BY <1>5 DEF OpenThread, Reply, UpdateThread
<1>6. CASE UNCHANGED vars
  BY <1>6 DEF vars
<1> QED
  BY <1>1, <1>2, <1>3, <1>4, <1>5, <1>6 DEF Next

-----------------------------------------------------------------------------
(* The theorems.                                                           *)
-----------------------------------------------------------------------------

IInv == /\ TypeInv /\ ChoseWell /\ RightParty /\ DiscardsFiled /\ AcceptedIsFiled
        /\ UnseenIsUnread /\ AttachmentsKept

\* The invariant of the inbox holds throughout.
LEMMA Invariance == Spec => []IInv
<1>1. Init => IInv
  BY DEF Init, IInv, TypeInv, TypeOK, Progress, ChoseWell, RightParty, DiscardsFiled, AcceptedIsFiled,
         UnseenIsUnread, AttachmentsKept, HasAttachment
<1>2. IInv /\ [Next]_vars => IInv'
  BY StepType, StepChose, StepParty, StepAccepted, StepUnread, StepAttachments DEF IInv
<1>3. QED
  BY <1>1, <1>2, PTL DEF Spec

\* Every reachable state has its type.
THEOREM TypeCorrect == Spec => []TypeOK
<1>1. IInv => TypeOK
  BY DEF IInv, TypeInv
<1>2. QED
  BY <1>1, Invariance, PTL

\* Every message is in an existing thread of its own mailbox and participant.
THEOREM PartiesApart == Spec => []RightParty
<1>1. IInv => RightParty
  BY DEF IInv
<1>2. QED
  BY <1>1, Invariance, PTL

\* A mail whose receipt was confirmed is in the inbox.
THEOREM AcceptedKept == Spec => []AcceptedIsFiled
<1>1. IInv => AcceptedIsFiled
  BY DEF IInv
<1>2. QED
  BY <1>1, Invariance, PTL

\* A message nobody loaded counts as unread, but where a count was cleared blindly.
THEOREM UnreadIsDurable == Spec => []UnseenIsUnread
<1>1. IInv => UnseenIsUnread
  BY DEF IInv
<1>2. QED
  BY <1>1, Invariance, PTL

\* Filed messages have their attachments, and no path of receive forgets an upload.
THEOREM AttachmentsStay == Spec => []AttachmentsKept
<1>1. IInv => AttachmentsKept
  BY DEF IInv
<1>2. QED
  BY <1>1, Invariance, PTL

-----------------------------------------------------------------------------
(* Correspondence: what emails say, and that it can be read.               *)
-----------------------------------------------------------------------------

\* The maximum of two integers is the greater one.
LEMMA MaxOfTwo ==
  ASSUME NEW a \in Int, NEW b \in Int
  PROVE  Max({a, b}) = IF a >= b THEN a ELSE b
<1>1. \E x \in {a, b} : \A y \in {a, b} : x >= y
  OBVIOUS
<1> QED
  BY <1>1 DEF Max

\* The minimum of two integers is the lesser one.
LEMMA MinOfTwo ==
  ASSUME NEW a \in Int, NEW b \in Int
  PROVE  Min({a, b}) = IF a <= b THEN a ELSE b
<1>1. \E x \in {a, b} : \A y \in {a, b} : x <= y
  OBVIOUS
<1> QED
  BY <1>1 DEF Min

\* A product of naturals is a natural, and positive if both are.
LEMMA ProductPositive ==
  ASSUME NEW a \in Nat, NEW b \in Nat
  PROVE  a * b \in Nat /\ (a > 0 /\ b > 0 => a * b > 0)
OBVIOUS

\* The parts of a chain of references, and their number.
LEMMA ChainFields ==
  ASSUME NEW ids \in IdChain
  PROVE  /\ ids.size \in Nat /\ ids.theirs \in Nat /\ ids.ours \in Nat
         /\ ids.theirs > 0 => ids.size > 0
         /\ Number(ids) = ids.theirs + ids.ours /\ Number(ids) \in Nat
BY DEF IdChain, Number

\* A chain has a length, which is not zero when it has an identifier.
LEMMA LengthOfChain ==
  ASSUME NEW ids \in IdChain
  PROVE  JoinedLength(ids) \in Nat /\ (Number(ids) > 0 => JoinedLength(ids) > 0)
<1> DEFINE t == ids.theirs
           o == ids.ours
           z == ids.size
           gaps == Max({0, Number(ids) - 1})
<1>1. t \in Nat /\ o \in Nat /\ z \in Nat /\ (t > 0 => z > 0) /\ Number(ids) = t + o
  BY ChainFields
<1>2. OwnId \in Nat /\ OwnId > 0
  BY CorrespondenceAssumption
<1>3. gaps \in Nat
  BY <1>1, MaxOfTwo
<1>4. t * z \in Nat /\ (t > 0 => t * z > 0)
  BY <1>1, ProductPositive
<1>5. o * OwnId \in Nat /\ (o > 0 => o * OwnId > 0)
  BY <1>1, <1>2, ProductPositive
<1>6. JoinedLength(ids) = t * z + o * OwnId + gaps
  BY DEF JoinedLength
<1> DEFINE a == t * z
           b == o * OwnId
<1>7. /\ a \in Nat /\ (t > 0 => a > 0) /\ b \in Nat /\ (o > 0 => b > 0)
      /\ JoinedLength(ids) = a + b + gaps
  BY <1>4, <1>5, <1>6
<1> HIDE DEF t, o, z, gaps, a, b
<1> QED
  BY <1>1, <1>3, <1>7

\* The newest n identifiers of a chain are a chain of n.
LEMMA NewestAreAChain ==
  ASSUME NEW ids \in IdChain, NEW n \in 0..Number(ids)
  PROVE  NewestIds(ids, n) \in IdChain /\ Number(NewestIds(ids, n)) = n
<1> DEFINE t == IF 0 >= n - ids.ours THEN 0 ELSE n - ids.ours
           o == IF n <= ids.ours THEN n ELSE ids.ours
<1>1. /\ ids.size \in Nat /\ ids.theirs \in Nat /\ ids.ours \in Nat /\ n \in Nat
      /\ ids.theirs > 0 => ids.size > 0
      /\ n <= ids.theirs + ids.ours
  BY ChainFields
<1>2. NewestIds(ids, n) = [size |-> ids.size, theirs |-> t, ours |-> o]
  BY <1>1, MaxOfTwo, MinOfTwo DEF NewestIds
<1>3. t \in Nat /\ o \in Nat /\ t + o = n /\ (t > 0 => ids.size > 0)
  BY <1>1
<1> HIDE DEF t, o
<1> QED
  BY <1>1, <1>2, <1>3 DEF IdChain, Number

\* What is left of a chain after malformed identifiers is a chain.
LEMMA CandidatesAreAChain ==
  ASSUME NEW ids \in IdChain
  PROVE  Candidates(ids) \in IdChain
<1> DEFINE named == [ids EXCEPT !.theirs = IF ids.size <= 1000 THEN @ ELSE 0]
           t == IF ids.size <= 1000 THEN ids.theirs ELSE 0
<1>1. /\ ids.size \in Nat /\ ids.theirs \in Nat /\ ids.ours \in Nat
      /\ ids.theirs > 0 => ids.size > 0
      /\ ids \in [size : Nat, theirs : Nat, ours : Nat]
  BY ChainFields DEF IdChain
<1>2. named = [ids EXCEPT !.theirs = t]
  OBVIOUS
<1>3. t \in Nat /\ (t > 0 => ids.size > 0)
  BY <1>1
<1>4. Candidates(ids) = NewestIds(named, Min({100, Number(named)}))
  BY DEF Candidates
<1> HIDE DEF named, t
<1>5. named \in IdChain
  BY <1>1, <1>2, <1>3 DEF IdChain
<1>6. Min({100, Number(named)}) \in 0..Number(named)
  BY <1>5, ChainFields, MinOfTwo
<1> QED
  BY <1>4, <1>5, <1>6, NewestAreAChain

\* What a reply refers to is a chain that its consumer can read.
LEMMA ReferencesAreReadable ==
  ASSUME NEW ids \in IdChain
  PROVE  ReferencesOfReply(ids) \in IdChain /\ IsThreadingHeaders(ReferencesOfReply(ids))
<1> DEFINE recent == Candidates(ids)
           fit == {n \in 0..Number(recent) : JoinedLength(NewestIds(recent, n)) <= 8000}
<1>1. recent \in IdChain
  BY CandidatesAreAChain
<1> HIDE DEF recent
<1>2. Number(recent) \in Nat
  BY <1>1, ChainFields
<1>3. JoinedLength(NewestIds(recent, 0)) = 0
  <2>1. recent.ours \in Nat /\ recent.size \in Nat
    BY <1>1, ChainFields
  <2>2. NewestIds(recent, 0) = [size |-> recent.size, theirs |-> 0, ours |-> 0]
    BY <2>1, MaxOfTwo, MinOfTwo DEF NewestIds
  <2>3. 0 * recent.size = 0 /\ 0 * OwnId = 0
    BY <2>1, CorrespondenceAssumption
  <2>4. Max({0, 0 + 0 - 1}) = 0
    BY MaxOfTwo
  <2> QED
    BY <2>2, <2>3, <2>4 DEF JoinedLength, Number
<1>4. 0 \in fit
  BY <1>2, <1>3
<1>5. \E x \in fit : \A y \in fit : y <= x
  <2>1. fit \in SUBSET (0..Number(recent)) /\ fit # {}
    BY <1>4
  <2> HIDE DEF fit
  <2> QED
    BY <1>2, <2>1, Greatest
<1>6. Max(fit) \in fit
  <2> HIDE DEF fit
  <2>1. \E x \in fit : \A y \in fit : x >= y
    <3>1. fit \subseteq Nat
      BY <1>2 DEF fit
    <3> QED
      BY <1>5, <3>1
  <2> QED
    BY <2>1 DEF Max
<1>7. ReferencesOfReply(ids) = NewestIds(recent, Max(fit))
  BY DEF ReferencesOfReply, recent
<1> DEFINE header == NewestIds(recent, Max(fit))
<1>8. header \in IdChain /\ JoinedLength(header) <= 8000
  BY <1>1, <1>6, NewestAreAChain
<1> HIDE DEF fit, header
<1>9. JoinedLength(header) \in Nat /\ (Number(header) > 0 => JoinedLength(header) > 0)
  BY <1>8, LengthOfChain
<1>10. Number(header) > 0 => 0 < JoinedLength(header) /\ JoinedLength(header) <= 8192
  <2> DEFINE length == JoinedLength(header)
  <2>1. length \in Nat /\ length <= 8000 /\ (Number(header) > 0 => length > 0)
    BY <1>8, <1>9
  <2> HIDE DEF length
  <2>2. Number(header) > 0 => 0 < length /\ length <= 8192
    BY <2>1
  <2> QED
    BY <2>2 DEF length
<1> QED
  BY <1>7, <1>8, <1>10 DEF IsThreadingHeaders, header

Thread ==
  [mailbox : Channel, participant : Sender, subject : Text, references : IdChain,
   replies : 0..MaxReplies, latest : 0..MaxReplies \cup {Absent}]

\* Threads that an email can answer.
GoodThreads(th) == th \in Seq(Thread) /\ \A t \in DOMAIN th : th[t].subject.length > 0

\* Later threads: the ones there were, of the same mailbox and participant, and new ones.
Continues(th, later) ==
  \A t \in DOMAIN th :
    /\ t \in DOMAIN later
    /\ later[t].mailbox = th[t].mailbox /\ later[t].participant = th[t].participant

\* A row says what SentAsRecorded asks of an email.
Recorded(r, th) ==
  LET t == r.job[1]
  IN  /\ t \in DOMAIN th
      /\ r.email.from = th[t].mailbox /\ r.email.to = th[t].participant
      /\ r.email.replyTo = <<th[t].mailbox, t>>
      /\ r.email.wording \in {"reply", th[t].mailbox}
      /\ r.email.subject.broken = FALSE

\* A job that is planned for a thread.
Planned(job, th) ==
  LET t == job.id[1]
  IN  /\ t \in DOMAIN th
      /\ job.from = th[t].mailbox /\ job.to = th[t].participant
      /\ job.replyTo = <<th[t].mailbox, t>>
      /\ job.template \in {"contact-confirmation", "thread-reply"}
      /\ job.subject \in Text /\ job.subject.broken = FALSE

RowOf(job) == [job |-> job.id, email |-> RenderEmailJob(job)]

WordsInv ==
  /\ GoodThreads(threads)
  /\ leads \in Seq(Nat \cup {Absent})
  /\ \A n \in DOMAIN leads : leads[n] \in DOMAIN threads \cup {Absent}
  /\ \A r \in rows : Recorded(r, threads)
  /\ \A job \in queue : job.id[1] \in DOMAIN threads /\ IsEmailJob(job) /\ RowOf(job) \in rows
  /\ mailed \subseteq rows /\ rejected = {}

\* A channel is its own mailbox, and a canonical mailbox is a channel.
LEMMA CanonicalOfChannel ==
  /\ \A c \in Channel : CanonicalMailbox(c) = c
  /\ \A a \in Address : CanonicalMailbox(a) # Absent => CanonicalMailbox(a) \in Channel
BY DEF CanonicalMailbox, Channel, Address

\* A "Re:" breaks no line.
LEMMA AnsweringKeeps ==
  ASSUME NEW text \in Text, text.broken = FALSE
  PROVE  Answering(text).broken = FALSE
BY DEF Answering, Text

\* The subject of an email is cut where it is too long, and never to nothing.
LEMMA SubjectIsCut ==
  ASSUME NEW text \in Text, text.length > 0
  PROVE  LET cut == Cut(OnOneLine(text), 300)
         IN  cut \in Text /\ cut.broken = FALSE /\ cut.length \in 1..300
<1> DEFINE n == Min({text.length, 300})
           line == OnOneLine(text)
<1>1. text.length \in Nat
  BY DEF Text
<1>2. n \in 1..300
  <2>1. text.length > 0 /\ n = IF text.length <= 300 THEN text.length ELSE 300
    BY <1>1, MinOfTwo
  <2> HIDE DEF n
  <2> QED
    BY <1>1, <2>1
<1>3. line \in Text /\ line.broken = FALSE /\ line.length = text.length
  BY DEF OnOneLine, Text
<1>4. Cut(line, 300) = [line EXCEPT !.length = Min({line.length, 300})]
  BY DEF Cut
<1> HIDE DEF n, line
<1>5. Cut(line, 300) = [line EXCEPT !.length = n]
  BY <1>3, <1>4 DEF n
<1> QED
  BY <1>2, <1>3, <1>5 DEF line, Text

\* A new thread leaves the others as they are.
LEMMA ThreadAdded ==
  ASSUME NEW th, NEW new \in Thread, GoodThreads(th), new.subject.length > 0
  PROVE  LET later == Append(th, new)
         IN  /\ GoodThreads(later) /\ Continues(th, later)
             /\ Len(th) + 1 \in DOMAIN later /\ later[Len(th) + 1] = new
<1> DEFINE later == Append(th, new)
<1>1. /\ later \in Seq(Thread) /\ DOMAIN later = 1..(Len(th) + 1) /\ DOMAIN th = 1..Len(th)
      /\ Len(th) \in Nat /\ later[Len(th) + 1] = new
      /\ \A t \in DOMAIN th : later[t] = th[t]
  BY DEF GoodThreads
<1> HIDE DEF later
<1>2. \A t \in DOMAIN later : t \in DOMAIN th \/ t = Len(th) + 1
  BY <1>1
<1> QED
  BY <1>1, <1>2 DEF GoodThreads, Continues, later

\* A thread that goes on keeps its mailbox, its participant and its subject.
LEMMA ThreadChanged ==
  ASSUME NEW th, NEW t \in DOMAIN th, NEW new \in Thread, GoodThreads(th),
         new.mailbox = th[t].mailbox, new.participant = th[t].participant,
         new.subject = th[t].subject
  PROVE  LET later == [th EXCEPT ![t] = new]
         IN  GoodThreads(later) /\ Continues(th, later) /\ DOMAIN later = DOMAIN th
<1> DEFINE later == [th EXCEPT ![t] = new]
<1>1. /\ th \in Seq(Thread) /\ DOMAIN later = DOMAIN th /\ later[t] = new
      /\ \A u \in DOMAIN th \ {t} : later[u] = th[u]
  BY DEF GoodThreads
<1>2. later \in Seq(Thread)
  BY <1>1
<1> HIDE DEF later
<1> QED
  BY <1>1, <1>2 DEF GoodThreads, Continues, later

\* What was recorded of a thread is true of it later.
LEMMA RecordedLater ==
  ASSUME NEW th, NEW later, Continues(th, later), NEW r, Recorded(r, th)
  PROVE  Recorded(r, later)
BY DEF Continues, Recorded

\* What is rendered from a job that is planned for a thread says what it must.
LEMMA RenderedAsPlanned ==
  ASSUME NEW th, GoodThreads(th), NEW job, Planned(job, th)
  PROVE  Recorded(RowOf(job), th)
<1> DEFINE letter == RenderEmailJob(job)
           row == RowOf(job)
           t == job.id[1]
<1>1. th[t].mailbox \in Channel /\ job.from = th[t].mailbox
  <2>1. t \in DOMAIN th /\ job.from = th[t].mailbox
    BY DEF Planned
  <2>2. th[t] \in Thread
    BY <2>1 DEF GoodThreads
  <2> QED
    BY <2>1, <2>2 DEF Thread
<1>2. CanonicalMailbox(job.from) = job.from /\ job.from # Absent
  BY <1>1, CanonicalOfChannel, CorrespondenceAssumption
<1>3. ReceiptCopy(CanonicalMailbox(job.from)) = job.from
  BY <1>2 DEF ReceiptCopy
<1>4. letter.from = job.from /\ letter.to = job.to /\ letter.replyTo = job.replyTo
  BY DEF RenderEmailJob
<1>5. letter.wording = IF job.template = "thread-reply" THEN "reply"
                      ELSE ReceiptCopy(CanonicalMailbox(job.from))
  BY DEF RenderEmailJob
<1>6. letter.subject = IF job.template = "thread-reply" THEN Answering(job.subject) ELSE NoText
  BY DEF RenderEmailJob
<1>7. Answering(job.subject).broken = FALSE /\ NoText.broken = FALSE
  BY AnsweringKeeps DEF Planned, NoText
<1>8. row.job = job.id /\ row.email = letter
  BY DEF RowOf
<1> HIDE DEF letter, row
<1>9. letter.wording \in {"reply", job.from} /\ letter.subject.broken = FALSE
  BY <1>3, <1>5, <1>6, <1>7
<1>10. Recorded(row, th)
  BY <1>4, <1>8, <1>9 DEF Recorded, Planned
<1> QED
  BY <1>10 DEF row

\* Where the leads point.
LeadsPoint(ls, th) ==
  ls \in Seq(Nat \cup {Absent}) /\ \A n \in DOMAIN ls : ls[n] \in DOMAIN th \cup {Absent}

\* A new lead points to a thread that is there, or to none.
LEMMA LeadAdded ==
  ASSUME NEW th, NEW later, NEW ls, NEW lead \in Nat \cup {Absent},
         LeadsPoint(ls, th), Continues(th, later), lead \in DOMAIN later \cup {Absent}
  PROVE  LeadsPoint(Append(ls, lead), later)
<1> DEFINE more == Append(ls, lead)
<1>1. /\ more \in Seq(Nat \cup {Absent}) /\ DOMAIN more = 1..(Len(ls) + 1)
      /\ DOMAIN ls = 1..Len(ls) /\ Len(ls) \in Nat
      /\ more[Len(ls) + 1] = lead /\ \A n \in DOMAIN ls : more[n] = ls[n]
  BY DEF LeadsPoint
<1> HIDE DEF more
<1>2. \A n \in DOMAIN more : n \in DOMAIN ls \/ n = Len(ls) + 1
  BY <1>1
<1>3. \A n \in DOMAIN ls : ls[n] \in DOMAIN later \cup {Absent}
  BY DEF LeadsPoint, Continues
<1> QED
  BY <1>1, <1>2, <1>3 DEF LeadsPoint, more

\* Leads point to threads that stay.
LEMMA LeadsStay ==
  ASSUME NEW th, NEW later, NEW ls, LeadsPoint(ls, th), Continues(th, later)
  PROVE  LeadsPoint(ls, later)
BY DEF LeadsPoint, Continues

\* A job that is committed with its row leaves everything readable.
LEMMA CommitKeeps ==
  ASSUME WordsInv, NEW job, Commit(job), GoodThreads(threads'), Continues(threads, threads'),
         Planned(job, threads'), IsEmailJob(job), LeadsPoint(leads', threads')
  PROVE  WordsInv'
<1>1. rows' = rows \cup {RowOf(job)} /\ queue' = queue \cup {job} /\ UNCHANGED <<mailed, rejected>>
  BY DEF Commit, RowOf
<1>2. \A r \in rows' : Recorded(r, threads')
  BY <1>1, RecordedLater, RenderedAsPlanned DEF WordsInv
<1>3. ASSUME NEW j \in queue'
      PROVE  j.id[1] \in DOMAIN threads' /\ IsEmailJob(j) /\ RowOf(j) \in rows'
  <2>1. CASE j \in queue
    BY <1>1, <2>1 DEF WordsInv, Continues
  <2>2. CASE j = job
    BY <1>1, <2>2 DEF Planned
  <2> QED
    BY <1>1, <2>1, <2>2
<1> QED
  BY <1>1, <1>2, <1>3 DEF WordsInv, LeadsPoint

\* What an email that comes in changes.
LEMMA ThreadsKeep ==
  ASSUME WordsInv, GoodThreads(threads'), Continues(threads, threads'),
         UNCHANGED <<leads, rows, queue, mailed, rejected>>
  PROVE  WordsInv'
<1>1. \A r \in rows' : Recorded(r, threads')
  BY RecordedLater DEF WordsInv
<1>2. LeadsPoint(leads', threads')
  <2>1. LeadsPoint(leads, threads)
    BY DEF WordsInv, LeadsPoint
  <2> QED
    BY <2>1, LeadsStay
<1>3. \A j \in queue' : j.id[1] \in DOMAIN threads' /\ IsEmailJob(j) /\ RowOf(j) \in rows'
  BY DEF WordsInv, Continues
<1> QED
  BY <1>1, <1>2, <1>3 DEF WordsInv, LeadsPoint

\* Every form has a mailbox.
LEMMA PlanOf ==
  ASSUME NEW form \in DOMAIN Plan
  PROVE  Plan[form].channel \in Channel
BY DEF Plan, Channel

\* A message without references is read by the consumer.
LEMMA NoReferencesAreAChain == NoReferences \in IdChain /\ IsThreadingHeaders(NoReferences)
BY DEF NoReferences, IdChain, IsThreadingHeaders, Number

\* A form opens a thread with a confirmation that is readable and recorded.
LEMMA StepSubmit ==
  ASSUME WordsInv, NEW form \in DOMAIN Plan, NEW p \in Sender, NEW s \in Subject,
         NEW b \in BodyLength, Submit(form, p, s, b)
  PROVE  WordsInv'
<1> DEFINE channel == Plan[form].channel
<1>0. PICK job : job = ConfirmationJob(NewThread, channel, p)
  OBVIOUS
<1>1. PICK newest \in {0, Absent} :
        threads' = Append(threads,
          [mailbox |-> channel, participant |-> p, subject |-> s,
           references |-> NoReferences, replies |-> 0, latest |-> newest])
  BY DEF Submit
<1> DEFINE new == [mailbox |-> channel, participant |-> p, subject |-> s,
                   references |-> NoReferences, replies |-> 0, latest |-> newest]
<1>2. channel \in Channel /\ s \in Text /\ s.length \in 3..200 /\ MaxReplies \in Nat
  BY PlanOf, CorrespondenceAssumption DEF Submit, IsMessageInput
<1>3. Commit(job)
  BY <1>0 DEF Submit
<1>4. leads' = leads \/ leads' = Append(leads, NewThread)
  BY DEF Submit
<1> HIDE DEF channel
<1>5. new \in Thread /\ new.subject.length > 0 /\ new.mailbox = channel /\ new.participant = p
  BY <1>2, NoReferencesAreAChain DEF Thread
<1>6. GoodThreads(threads) /\ Len(threads) \in Nat
  BY DEF WordsInv, GoodThreads
<1> HIDE DEF new
<1>7. /\ GoodThreads(threads') /\ Continues(threads, threads')
      /\ NewThread \in DOMAIN threads' /\ threads'[NewThread] = new
  BY <1>1, <1>5, <1>6, ThreadAdded DEF NewThread, new
<1>8. LeadsPoint(leads', threads')
  <2>1. LeadsPoint(leads, threads)
    BY DEF WordsInv, LeadsPoint
  <2>2. NewThread \in Nat
    BY <1>6 DEF NewThread
  <2>3. LeadsPoint(leads, threads')
    BY <1>7, <2>1, LeadsStay
  <2>4. LeadsPoint(Append(leads, NewThread), threads')
    BY <1>7, <2>1, <2>2, LeadAdded
  <2> QED
    BY Zenon, <1>4, <2>3, <2>4
<1>9. /\ job.id = <<NewThread, 0>> /\ job.from = channel /\ job.to = p
      /\ job.replyTo = <<channel, NewThread>> /\ job.subject = NoText
  BY <1>0 DEF ConfirmationJob
<1>10. job.template = "contact-confirmation"
  BY <1>0 DEF ConfirmationJob
<1>11. job.references = NoReferences
  BY <1>0 DEF ConfirmationJob
<1>12. Planned(job, threads')
  BY <1>5, <1>7, <1>9, <1>10 DEF Planned, NoText, Text
<1>13. IsEmailJob(job)
  <2>1. IsTemplateRequest(job)
    BY <1>10 DEF IsTemplateRequest
  <2> QED
    BY Zenon, <1>11, <2>1, NoReferencesAreAChain DEF IsEmailJob
<1> QED
  BY <1>3, <1>7, <1>8, <1>12, <1>13, CommitKeeps

\* A new conversation has a mailbox and a subject that is not empty.
LEMMA StepReceiveNew ==
  ASSUME WordsInv, NEW p \in Sender, NEW a \in Address, NEW s \in Subject, NEW c \in Chain,
         ReceiveNew(p, a, s, c)
  PROVE  WordsInv'
<1> DEFINE subject == InboundSubject(s, NoSubject)
           new == [mailbox |-> CanonicalMailbox(a), participant |-> p, subject |-> subject,
                   references |-> c, replies |-> 0, latest |-> Absent]
<1>1. s \in Text /\ c \in IdChain /\ MaxReplies \in Nat
  BY CorrespondenceAssumption
<1>2. CanonicalMailbox(a) \in Channel
  BY CanonicalOfChannel DEF ReceiveNew
<1>3. subject \in Text /\ subject.length \in 1..300
  <2> DEFINE text == IF s.length > 0 THEN s ELSE NoSubject
  <2>1. NoSubject \in Text /\ NoSubject.length > 0
    BY DEF NoSubject, Text
  <2>2. s.length \in Nat
    BY <1>1 DEF Text
  <2>3. text \in Text /\ text.length > 0
    BY <1>1, <2>1, <2>2
  <2>4. subject = Cut(OnOneLine(text), 300)
    BY DEF InboundSubject
  <2> HIDE DEF text, subject
  <2>5. Cut(OnOneLine(text), 300) \in Text /\ Cut(OnOneLine(text), 300).length \in 1..300
    BY <2>3, SubjectIsCut
  <2> QED
    BY <2>4, <2>5
<1>4. threads' = Append(threads, new) /\ UNCHANGED <<leads, rows, queue, mailed, rejected>>
  BY DEF ReceiveNew
<1> HIDE DEF subject
<1>5. new \in Thread /\ new.subject.length > 0
  BY <1>1, <1>2, <1>3 DEF Thread
<1> HIDE DEF new
<1>6. GoodThreads(threads') /\ Continues(threads, threads')
  BY <1>4, <1>5, ThreadAdded DEF WordsInv
<1> QED
  BY <1>4, <1>6, ThreadsKeep

\* A thread of the table can be answered.
LEMMA ThreadAt ==
  ASSUME WordsInv, NEW t \in DOMAIN threads
  PROVE  threads[t] \in Thread /\ threads[t].subject.length > 0
BY DEF WordsInv, GoodThreads

\* An answer changes what its thread refers to, and nothing else.
LEMMA StepReceiveAnswer ==
  ASSUME WordsInv, NEW t \in DOMAIN threads, NEW c \in Chain, ReceiveAnswer(t, c)
  PROVE  WordsInv'
<1> DEFINE new == [threads[t] EXCEPT !.references = c, !.latest = Absent]
<1>2. threads' = [threads EXCEPT ![t] = new]
  BY Zenon DEF ReceiveAnswer
<1>3. c \in IdChain /\ threads[t] \in Thread /\ GoodThreads(threads)
  BY CorrespondenceAssumption, ThreadAt DEF WordsInv
<1>4. /\ new \in Thread /\ new.mailbox = threads[t].mailbox
      /\ new.participant = threads[t].participant /\ new.subject = threads[t].subject
  BY <1>3 DEF Thread
<1> HIDE DEF new
<1>5. GoodThreads(threads') /\ Continues(threads, threads')
  BY <1>2, <1>3, <1>4, ThreadChanged
<1> QED
  BY <1>5, ThreadsKeep DEF ReceiveAnswer

\* A body that an admin may write is one that the consumer's parser takes.
LEMMA BodiesFit ==
  ReplyBodyLimit \in Nat /\ JobBodyLimit \in Nat /\ ReplyBodyLimit <= JobBodyLimit
BY DEF ReplyBodyLimit, JobBodyLimit

\* A reply is readable and recorded, whatever its thread refers to.
LEMMA StepReplyInThread ==
  ASSUME WordsInv, NEW t \in DOMAIN threads, NEW b \in BodyLength, ReplyInThread(t, b)
  PROVE  WordsInv'
<1> DEFINE n == threads[t].replies + 1
           subject == Cut(OnOneLine(threads[t].subject), 300)
           ids == ReferencesOfReply(threads[t].references)
           new == [threads[t] EXCEPT !.replies = n, !.references = ids, !.latest = n]
<1>0. PICK job : job = ReplyJob(t, n, threads[t], b)
  OBVIOUS
<1>1. threads[t] \in Thread /\ threads[t].subject.length > 0 /\ GoodThreads(threads)
  BY ThreadAt DEF WordsInv
<1>2. /\ threads[t].mailbox \in Channel /\ threads[t].subject \in Text
      /\ threads[t].references \in IdChain /\ threads[t].replies \in 0..MaxReplies
  BY <1>1 DEF Thread
<1>3. n \in 0..MaxReplies
  <2>1. threads[t].replies < MaxReplies
    BY Zenon DEF ReplyInThread
  <2>2. threads[t].replies \in 0..MaxReplies /\ MaxReplies \in Nat
    BY <1>2, CorrespondenceAssumption
  <2> QED
    BY <2>1, <2>2
<1>4. CanonicalMailbox(threads[t].mailbox) = threads[t].mailbox
  BY <1>2, CanonicalOfChannel
<1>5. subject \in Text /\ subject.broken = FALSE /\ subject.length \in 1..300
  BY <1>1, <1>2, SubjectIsCut
<1>6. ids \in IdChain /\ IsThreadingHeaders(ids)
  BY <1>2, ReferencesAreReadable
<1>7. 0 < b /\ b <= JobBodyLimit
  <2>1. b \in Nat /\ 0 < b /\ b <= ReplyBodyLimit
    BY Zenon, CorrespondenceAssumption DEF ReplyInThread
  <2> QED
    BY <2>1, BodiesFit
<1>8. /\ job.id = <<t, n>> /\ job.from = threads[t].mailbox /\ job.to = threads[t].participant
      /\ job.replyTo = <<threads[t].mailbox, t>>
  BY <1>0, <1>4 DEF ReplyJob
<1>9. /\ job.template = "thread-reply" /\ job.subject = subject /\ job.body = b
      /\ job.references = ids
  BY <1>0 DEF ReplyJob
<1>10. Commit(job) /\ UNCHANGED leads
  BY <1>0 DEF ReplyInThread
<1>11. threads' = [threads EXCEPT ![t] = new]
  <2>1. threads' = [threads EXCEPT ![t] =
                     [@ EXCEPT !.replies = n, !.references = job.references, !.latest = n]]
    BY Zenon, <1>0 DEF ReplyInThread
  <2> HIDE DEF n, ids
  <2> QED
    BY <1>9, <2>1
<1> HIDE DEF n, subject, ids
<1>12. /\ new \in Thread /\ new.mailbox = threads[t].mailbox
       /\ new.participant = threads[t].participant /\ new.subject = threads[t].subject
  BY <1>1, <1>3, <1>6 DEF Thread
<1> HIDE DEF new
<1>13. /\ GoodThreads(threads') /\ Continues(threads, threads') /\ DOMAIN threads' = DOMAIN threads
  BY <1>1, <1>11, <1>12, ThreadChanged
<1>14. Planned(job, threads')
  <2>1. /\ t \in DOMAIN threads' /\ threads'[t].mailbox = threads[t].mailbox
        /\ threads'[t].participant = threads[t].participant
    BY <1>13 DEF Continues
  <2>2. job.subject \in Text /\ job.subject.broken = FALSE
    BY <1>5, <1>9
  <2>3. job.template \in {"contact-confirmation", "thread-reply"}
    BY <1>9
  <2> QED
    BY <1>8, <2>1, <2>2, <2>3 DEF Planned
<1>15. IsEmailJob(job)
  <2>1. IsTemplateRequest(job)
    BY <1>5, <1>7, <1>9 DEF IsTemplateRequest
  <2> QED
    BY <1>6, <1>9, <2>1 DEF IsEmailJob
<1>16. LeadsPoint(leads', threads')
  <2>1. LeadsPoint(leads, threads)
    BY DEF WordsInv, LeadsPoint
  <2> QED
    BY <1>10, <1>13, <2>1, LeadsStay
<1> QED
  BY <1>10, <1>13, <1>14, <1>15, <1>16, CommitKeeps

\* A lead alone leaves conversations alone.
LEMMA StepSubmitLead ==
  ASSUME WordsInv, SubmitLead
  PROVE  WordsInv'
<1>1. LeadsPoint(leads, threads) /\ Continues(threads, threads)
  BY DEF WordsInv, LeadsPoint, Continues
<1>2. leads' = Append(leads, Absent) /\ UNCHANGED <<threads, rows, queue, mailed, rejected>>
  BY DEF SubmitLead
<1>3. LeadsPoint(leads', threads)
  BY <1>1, <1>2, LeadAdded
<1> QED
  BY <1>2, <1>3 DEF WordsInv, LeadsPoint

\* A reply that was sent is named by the provider, if the thread's latest message is it.
LEMMA StepConsume ==
  ASSUME WordsInv, NEW job \in queue, Consume(job)
  PROVE  WordsInv'
<1> DEFINE t == job.id[1]
           ids == threads[t].references
           named == IF threads[t].latest = job.id[2] THEN Named(ids) ELSE ids
           new == [threads[t] EXCEPT !.references = named]
<1>1. /\ t \in DOMAIN threads /\ IsEmailJob(job) /\ RowOf(job) \in rows
      /\ threads[t] \in Thread /\ GoodThreads(threads)
  BY ThreadAt DEF WordsInv
<1>2. /\ queue' = queue \ {job} /\ mailed' = mailed \cup {RowOf(job)}
      /\ UNCHANGED <<rejected, leads, rows>>
  BY <1>1 DEF Consume, RowOf
<1>3. threads' = [threads EXCEPT ![t].references = named]
  BY Zenon, <1>1 DEF Consume
<1>4. threads' = [threads EXCEPT ![t] = new]
  <2> HIDE DEF named
  <2> QED
    BY <1>3
<1>5. named \in IdChain
  <2>1. ids \in IdChain
    BY <1>1 DEF Thread
  <2> HIDE DEF ids
  <2>2. Named(ids) \in IdChain
    BY <2>1 DEF IdChain, Named
  <2> QED
    BY <2>1, <2>2
<1> HIDE DEF named
<1>6. /\ new \in Thread /\ new.mailbox = threads[t].mailbox
      /\ new.participant = threads[t].participant /\ new.subject = threads[t].subject
  BY <1>1, <1>5 DEF Thread
<1> HIDE DEF new, t
<1>7. GoodThreads(threads') /\ Continues(threads, threads')
  BY <1>1, <1>4, <1>6, ThreadChanged
<1>8. \A r \in rows' : Recorded(r, threads')
  BY <1>2, <1>7, RecordedLater DEF WordsInv
<1>9. LeadsPoint(leads', threads')
  <2>1. LeadsPoint(leads, threads)
    BY DEF WordsInv, LeadsPoint
  <2> QED
    BY <1>2, <1>7, <2>1, LeadsStay
<1>10. \A j \in queue' : j.id[1] \in DOMAIN threads' /\ IsEmailJob(j) /\ RowOf(j) \in rows'
  BY <1>2, <1>7 DEF WordsInv, Continues
<1>11. mailed' \subseteq rows' /\ rejected' = {}
  BY <1>1, <1>2 DEF WordsInv
<1> QED
  BY <1>7, <1>8, <1>9, <1>10, <1>11 DEF WordsInv, LeadsPoint

\* Whatever is written and however long the chains grow, threads can be answered, and
\* every job that waits can be read and says what its row says.
LEMMA WordsInductive == WordsSpec => []WordsInv
<1>1. WordsInit => WordsInv
  BY DEF WordsInit, WordsInv, GoodThreads
<1>2. WordsInv /\ [WordsNext]_wordsVars => WordsInv'
  <2> SUFFICES ASSUME WordsInv, [WordsNext]_wordsVars  PROVE  WordsInv'
    OBVIOUS
  <2>1. ASSUME NEW form \in DOMAIN Plan, NEW p \in Sender, NEW s \in Subject, NEW b \in BodyLength,
               Submit(form, p, s, b)
        PROVE  WordsInv'
    BY <2>1, StepSubmit
  <2>2. CASE SubmitLead
    BY <2>2, StepSubmitLead
  <2>3. ASSUME NEW p \in Sender, NEW a \in Address, NEW s \in Subject, NEW c \in Chain,
               ReceiveNew(p, a, s, c)
        PROVE  WordsInv'
    BY <2>3, StepReceiveNew
  <2>4. ASSUME NEW t \in DOMAIN threads, NEW c \in Chain, ReceiveAnswer(t, c)
        PROVE  WordsInv'
    BY <2>4, StepReceiveAnswer
  <2>5. ASSUME NEW t \in DOMAIN threads, NEW b \in BodyLength, ReplyInThread(t, b)
        PROVE  WordsInv'
    BY <2>5, StepReplyInThread
  <2>6. ASSUME NEW job \in queue, Consume(job)  PROVE  WordsInv'
    BY <2>6, StepConsume
  <2>7. CASE UNCHANGED wordsVars
    BY <2>7 DEF wordsVars, WordsInv
  <2> QED
    BY <2>1, <2>2, <2>3, <2>4, <2>5, <2>6, <2>7 DEF WordsNext
<1> QED
  BY <1>1, <1>2, PTL DEF WordsSpec

\* The invariant implies the types.
LEMMA WordsType == WordsInv => CorrespondenceTypeOK
<1> SUFFICES ASSUME WordsInv  PROVE  CorrespondenceTypeOK
  OBVIOUS
<1>1. \A t \in DOMAIN threads : threads[t] \in Thread
  BY ThreadAt
<1>2. \A r \in rows \cup mailed : r.email.from \in Channel
  <2>1. \A r \in rows \cup mailed : Recorded(r, threads)
    BY DEF WordsInv
  <2> QED
    BY <1>1, <2>1 DEF Recorded, Thread
<1> QED
  BY <1>1, <1>2 DEF CorrespondenceTypeOK, WordsInv, Thread

\* Threads, leads and jobs point to each other, for any texts and addresses.
THEOREM CorrespondenceTypeCorrect == WordsSpec => []CorrespondenceTypeOK
BY WordsInductive, WordsType, PTL

\* No job that a planner commits is one that the consumer's parser refuses, and what is
\* sent is what its row says, from the mailbox of its thread to its participant: for
\* any subjects and bodies that people write, any chains of references that they send,
\* and any number of threads and replies.
THEOREM SentAsItWasRecorded == WordsSpec => []CorrespondenceHolds
<1>1. WordsInv => EveryJobIsReadable
  BY DEF WordsInv, EveryJobIsReadable
<1>2. WordsInv => SentAsRecorded
  BY DEF WordsInv, SentAsRecorded, Recorded
<1> QED
  BY <1>1, <1>2, WordsInductive, PTL DEF CorrespondenceHolds
=============================================================================
