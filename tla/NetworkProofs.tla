--------------------------- MODULE NetworkProofs ----------------------------
(***************************************************************************)
(* The feeds, the peer-to-peer server and the announcements of blocks, for *)
(* any nodes, blocks, values, limits and commands.  The votes of clique:   *)
(* the tally counts them, only a majority changes the signers, and nodes   *)
(* that walk the same headers agree, for any accounts, epoch and signers.  *)
(***************************************************************************)
EXTENDS Feed, PeerServer, BlockFetcher, Clique, FiniteSetTheorems, SequenceTheorems, WellFoundedInduction,
        NaturalsInduction, TLAPS

-----------------------------------------------------------------------------
(* Feeds: every value goes once to every subscriber.                       *)

\* Where a Send is, and where a subscriber is.
Ats == {"idle", "locked", "try", "select"}
Places == {"out", "in", "removing"}
Sendings == [at : Ats, active : Nat, next : Nat]
Subscriptions == [at : Places, due : Int, got : Seq(Int)]

\* The types of the fields; an active case is a case, and there is none unless a Send is at it.
FeedTypes ==
  /\ inbox \in Seq(Subscribers) /\ sendCases \in Seq(Subscribers)
  /\ sending \in Sendings
  /\ subscriber \in [Subscribers -> Subscriptions]
  /\ unread \in [Subscribers -> Nat] /\ sent \in Nat /\ subscribes \in Nat
  /\ sending.active <= Len(sendCases)
  /\ sending.at \in {"idle", "locked"} => sending.active = 0
  /\ sending.at = "try" => sending.next >= 1

\* No case twice; a case is among the cases, or among the first n.
Distinct(cases) == \A i, j \in 1..Len(cases) : cases[i] = cases[j] => i = j
Among(cases, s) == \E i \in 1..Len(cases) : cases[i] = s
Leads(cases, n, s) == \E i \in 1..n : cases[i] = s

\* What is left of the active cases without one, and two cases swapped.
Left(cases, active, s) == IF Find(cases, s) <= active THEN active - 1 ELSE active
Swap(cases, i, j) == [cases EXCEPT ![i] = cases[j], ![j] = cases[i]]

\* A subscriber has one case, which is in the inbox or among the cases.
CasesSound ==
  /\ Distinct(inbox) /\ Distinct(sendCases)
  /\ \A s \in Subscribers :
       /\ ~(Among(inbox, s) /\ Among(sendCases, s))
       /\ subscriber[s].at = "in" => Among(inbox, s) \/ Among(sendCases, s)
       /\ subscriber[s].at = "removing" => Among(sendCases, s)
       /\ subscriber[s].at = "out" => ~Among(inbox, s) /\ ~Among(sendCases, s)

\* The values from the first that is due.
Values(due, n) == [i \in 1..n |-> due + i - 1]

\* A case that is active lacks the value that is sent, and no other case lacks one, whether its
\* subscriber wants to go or not.
ValuesSound ==
  \A s \in Subscribers :
    LET sub == subscriber[s]
    IN /\ sub.got = Values(sub.due, Len(sub.got))
       /\ Among(inbox, s) => sub.due = sent + 1 /\ sub.got = <<>>
       /\ Among(sendCases, s) => sub.due + Len(sub.got) - 1 = IF s \in ActiveCases THEN sent - 1 ELSE sent

\* The inductive invariant.
FeedInv == FeedTypes /\ CasesSound /\ ValuesSound

-----------------------------------------------------------------------------
(* The operators on cases.                                                 *)

\* find looks for the one case of a subscriber.
LEMMA FindIs ==
  ASSUME NEW cases \in Seq(Subscribers), NEW s
  PROVE  /\ Among(cases, s) => Find(cases, s) \in 1..Len(cases) /\ cases[Find(cases, s)] = s
         /\ ~Among(cases, s) => Find(cases, s) = 0
<1>1. DOMAIN cases = 1..Len(cases) /\ Len(cases) \in Nat OBVIOUS
<1>2. CASE Among(cases, s)
  BY <1>1, <1>2 DEF Among, Find
<1>3. CASE ~Among(cases, s) BY <1>1, <1>3 DEF Among, Find
<1> QED BY <1>2, <1>3

\* delete closes the gap.
LEMMA DeleteIs ==
  ASSUME NEW cases \in Seq(Subscribers), NEW index \in 1..Len(cases)
  PROVE  /\ Delete(cases, index) \in Seq(Subscribers) /\ Len(Delete(cases, index)) = Len(cases) - 1
         /\ \A i \in 1..(Len(cases) - 1) :
              Delete(cases, index)[i] = IF i < index THEN cases[i] ELSE cases[i + 1]
<1> DEFINE front == SubSeq(cases, 1, index - 1)
           back == SubSeq(cases, index + 1, Len(cases))
<1>1. Len(cases) \in Nat /\ index \in Nat /\ \A i \in 1..Len(cases) : cases[i] \in Subscribers OBVIOUS
<1>2. front \in Seq(Subscribers) /\ Len(front) = index - 1 /\ \A i \in 1..(index - 1) : front[i] = cases[i] BY <1>1
<1>3. /\ back \in Seq(Subscribers) /\ Len(back) = Len(cases) - index
      /\ \A i \in 1..(Len(cases) - index) : back[i] = cases[index + i]
  BY <1>1
<1> HIDE DEF front, back
<1>4. /\ front \o back \in Seq(Subscribers) /\ Len(front \o back) = Len(cases) - 1
      /\ \A i \in 1..(Len(cases) - 1) :
           (front \o back)[i] = IF i <= index - 1 THEN front[i] ELSE back[i - (index - 1)] BY <1>1, <1>2, <1>3
<1>5. ASSUME NEW i \in 1..(Len(cases) - 1)
      PROVE  (front \o back)[i] = IF i < index THEN cases[i] ELSE cases[i + 1] BY <1>1, <1>2, <1>3, <1>4
<1> QED BY <1>4, <1>5 DEF Delete, front, back

\* A case is deleted, and the others stay.
LEMMA Deleted ==
  ASSUME NEW cases \in Seq(Subscribers), Distinct(cases), NEW s, Among(cases, s)
  PROVE  /\ Delete(cases, Find(cases, s)) \in Seq(Subscribers)
         /\ Distinct(Delete(cases, Find(cases, s)))
         /\ \A x : Among(Delete(cases, Find(cases, s)), x) <=> Among(cases, x) /\ x # s
<1> DEFINE index == Find(cases, s)
           left == Delete(cases, index)
<1>1. index \in 1..Len(cases) /\ cases[index] = s /\ Len(cases) \in Nat BY FindIs
<1> HIDE DEF index
<1>2. left \in Seq(Subscribers) /\ Len(left) = Len(cases) - 1 BY <1>1, DeleteIs
<1>3. \A i \in 1..Len(left) : left[i] = IF i < index THEN cases[i] ELSE cases[i + 1] BY <1>1, <1>2, DeleteIs
<1> HIDE DEF left
<1>4. Distinct(left) BY <1>1, <1>2, <1>3 DEF Distinct
<1>5. ASSUME NEW x, Among(left, x) PROVE Among(cases, x) /\ x # s BY <1>1, <1>2, <1>3, <1>5 DEF Among, Distinct
<1>6. ASSUME NEW x, Among(cases, x), x # s PROVE Among(left, x)
  <2>1. PICK i \in 1..Len(cases) : cases[i] = x BY <1>6 DEF Among
  <2>2. CASE i < index
    BY <1>1, <1>2, <1>3, <2>1, <2>2 DEF Among
  <2>3. CASE i > index
    <3>1. i - 1 \in 1..Len(left) /\ left[i - 1] = x BY <1>1, <1>2, <1>3, <2>1, <2>3
    <3> QED BY <3>1 DEF Among
  <2>4. i # index BY <1>1, <1>6, <2>1
  <2> QED BY <1>1, <2>2, <2>3, <2>4
<1> QED BY <1>2, <1>4, <1>5, <1>6 DEF index, left

\* The active cases once one of them has gone.
LEMMA ActiveLeft ==
  ASSUME NEW cases \in Seq(Subscribers), Distinct(cases), NEW s, Among(cases, s),
         NEW active \in Nat, active <= Len(cases)
  PROVE  /\ Left(cases, active, s) \in Nat /\ Left(cases, active, s) <= Len(cases) - 1
         /\ \A x : Leads(Delete(cases, Find(cases, s)), Left(cases, active, s), x) <=> Leads(cases, active, x) /\ x # s
<1> DEFINE index == Find(cases, s)
           left == Left(cases, active, s)
           rest == Delete(cases, index)
<1>1. index \in 1..Len(cases) /\ cases[index] = s /\ Len(cases) \in Nat BY FindIs
<1>0. left = IF index <= active THEN active - 1 ELSE active BY DEF Left
<1> HIDE DEF index, left
<1>2. \A i \in 1..(Len(cases) - 1) : rest[i] = IF i < index THEN cases[i] ELSE cases[i + 1] BY <1>1, DeleteIs
<1>3. left \in Nat /\ left <= Len(cases) - 1 BY <1>0, <1>1
<1> HIDE DEF rest
<1>4. ASSUME NEW i \in 1..left PROVE (\E j \in 1..active : cases[j] = rest[i]) /\ rest[i] # s
  <2>1. i \in 1..(Len(cases) - 1) BY <1>1, <1>3
  <2>2. CASE i < index
    BY <1>0, <1>1, <1>2, <2>1, <2>2 DEF Distinct
  <2>3. CASE i >= index
    BY <1>0, <1>1, <1>2, <2>1, <2>3 DEF Distinct
  <2> QED BY <1>1, <2>2, <2>3
<1>5. ASSUME NEW j \in 1..active, cases[j] # s PROVE \E i \in 1..left : rest[i] = cases[j]
  <2>1. j # index /\ j \in 1..Len(cases) BY <1>1, <1>5
  <2>2. CASE j < index
    BY <1>0, <1>1, <1>2, <2>1, <2>2
  <2>3. CASE j > index
    <3>1. j - 1 \in 1..left /\ rest[j - 1] = cases[j] BY <1>0, <1>1, <1>2, <2>1, <2>3
    <3> QED BY <3>1
  <2> QED BY <1>1, <2>1, <2>2, <2>3
<1> QED BY <1>3, <1>4, <1>5 DEF index, left, rest, Leads

\* deactivate swaps a case with the last that is active.
LEMMA Swapped ==
  ASSUME NEW cases \in Seq(Subscribers), Distinct(cases), NEW active \in 1..Len(cases), NEW i \in 1..active
  PROVE  /\ Swap(cases, i, active) \in Seq(Subscribers) /\ Len(Swap(cases, i, active)) = Len(cases)
         /\ Distinct(Swap(cases, i, active))
         /\ \A x : Among(Swap(cases, i, active), x) <=> Among(cases, x)
         /\ \A x : Leads(Swap(cases, i, active), active - 1, x) <=> Leads(cases, active, x) /\ x # cases[i]
<1> DEFINE now == Swap(cases, i, active)
<1>1. Len(cases) \in Nat /\ active \in Nat /\ i \in 1..Len(cases) /\ \A j \in 1..Len(cases) : cases[j] \in Subscribers
  OBVIOUS
<1>2. now \in Seq(Subscribers) /\ Len(now) = Len(cases) BY <1>1 DEF Swap
<1>3. \A j \in 1..Len(cases) : now[j] = IF j = active THEN cases[i] ELSE IF j = i THEN cases[active] ELSE cases[j]
  BY <1>1 DEF Swap
<1> HIDE DEF now
<1>4. Distinct(now) BY <1>1, <1>2, <1>3 DEF Distinct
<1>5. ASSUME NEW x PROVE Among(now, x) <=> Among(cases, x)
  <2>1. ASSUME NEW j \in 1..Len(cases) PROVE Among(cases, now[j]) /\ Among(now, cases[j]) BY <1>1, <1>2, <1>3 DEF Among
  <2> QED BY <1>2, <2>1 DEF Among
<1>6. ASSUME NEW j \in 1..(active - 1) PROVE (\E k \in 1..active : cases[k] = now[j]) /\ now[j] # cases[i]
  BY <1>1, <1>3 DEF Distinct
<1>7. ASSUME NEW k \in 1..active, cases[k] # cases[i] PROVE \E j \in 1..(active - 1) : now[j] = cases[k]
  <2>1. k # i /\ k \in 1..Len(cases) BY <1>1, <1>7
  <2>2. CASE k = active
    BY <1>1, <1>3, <2>1, <2>2
  <2>3. CASE k # active
    BY <1>1, <1>3, <2>1, <2>3
  <2> QED BY <2>2, <2>3
<1> QED BY <1>2, <1>4, <1>5, <1>6, <1>7 DEF Leads, now

\* Send appends the inbox to the cases.
LEMMA Joined ==
  ASSUME NEW cases \in Seq(Subscribers), NEW new \in Seq(Subscribers), Distinct(cases), Distinct(new),
         \A s \in Subscribers : ~(Among(cases, s) /\ Among(new, s))
  PROVE  /\ cases \o new \in Seq(Subscribers) /\ Distinct(cases \o new)
         /\ \A x : Among(cases \o new, x) <=> Among(cases, x) \/ Among(new, x)
<1>1. /\ Len(cases) \in Nat /\ Len(new) \in Nat /\ cases \o new \in Seq(Subscribers)
      /\ Len(cases \o new) = Len(cases) + Len(new)
      /\ \A i \in 1..Len(cases) : cases[i] \in Subscribers /\ (cases \o new)[i] = cases[i]
      /\ \A i \in 1..Len(new) : new[i] \in Subscribers /\ (cases \o new)[Len(cases) + i] = new[i]
  OBVIOUS
<1>2. \A i \in 1..(Len(cases) + Len(new)) :
        i \in 1..Len(cases) \/ (i - Len(cases) \in 1..Len(new) /\ i = Len(cases) + (i - Len(cases))) BY <1>1
<1>3. \A i \in 1..Len(cases), j \in 1..Len(new) : cases[i] # new[j] BY <1>1 DEF Among
<1>4. ASSUME NEW i \in 1..Len(cases \o new), NEW j \in 1..Len(cases \o new), (cases \o new)[i] = (cases \o new)[j]
      PROVE  i = j
  <2> DEFINE m == i - Len(cases)
             n == j - Len(cases)
  <2>1. \/ i \in 1..Len(cases) /\ (cases \o new)[i] = cases[i]
        \/ m \in 1..Len(new) /\ (cases \o new)[i] = new[m] /\ i = Len(cases) + m
    BY <1>1, <1>2
  <2>2. \/ j \in 1..Len(cases) /\ (cases \o new)[j] = cases[j]
        \/ n \in 1..Len(new) /\ (cases \o new)[j] = new[n] /\ j = Len(cases) + n
    BY <1>1, <1>2
  <2> HIDE DEF m, n
  <2> QED BY <1>3, <1>4, <2>1, <2>2 DEF Distinct
<1>5. ASSUME NEW x, Among(cases \o new, x) PROVE Among(cases, x) \/ Among(new, x) BY <1>1, <1>2, <1>5 DEF Among
<1>6. ASSUME NEW x, Among(cases, x) \/ Among(new, x) PROVE Among(cases \o new, x)
  <2>1. ASSUME NEW i \in 1..Len(cases) PROVE i \in 1..Len(cases \o new) BY <1>1
  <2>2. ASSUME NEW i \in 1..Len(new) PROVE Len(cases) + i \in 1..Len(cases \o new) BY <1>1
  <2> QED BY <1>1, <1>6, <2>1, <2>2 DEF Among
<1> QED BY <1>1, <1>4, <1>5, <1>6 DEF Distinct

-----------------------------------------------------------------------------
(* The steps.                                                              *)

\* The feed at the start.
LEMMA FeedInitHolds == FeedInit => FeedInv
<1> SUFFICES ASSUME FeedInit PROVE FeedInv OBVIOUS
<1>1. FeedTypes
  BY DEF FeedInit, Subscriptions, Places, NotSending, Sendings, Ats, FeedTypes
<1>2. CasesSound BY DEF FeedInit, CasesSound, Distinct, Among
<1>3. \A n : Values(n, 0) = <<>> BY DEF Values
<1>4. ValuesSound
  <2>1. \A x : ~Among(inbox, x) /\ ~Among(sendCases, x) BY DEF FeedInit, Among
  <2>2. \A x \in Subscribers : subscriber[x].got = <<>> /\ Len(<<>>) = 0 BY DEF FeedInit
  <2> QED BY <1>3, <2>1, <2>2 DEF ValuesSound
<1> QED BY <1>1, <1>2, <1>4 DEF FeedInv

\* The fields of one subscription.
LEMMA Fields ==
  ASSUME FeedInv, NEW s \in Subscribers
  PROVE  /\ subscriber[s].at \in Places /\ subscriber[s].due \in Int /\ subscriber[s].got \in Seq(Int)
         /\ Len(subscriber[s].got) \in Nat /\ sent \in Nat
  BY DEF FeedInv, FeedTypes, Subscriptions

\* A new subscriber waits in the inbox, and the next value is the first due to it.
LEMMA SubscribeHolds ==
  ASSUME FeedInv, NEW s \in Subscribers, Subscribe(s) PROVE FeedInv'
<1> DEFINE new == [at |-> "in", due |-> sent + 1, got |-> <<>>]
<1>1. /\ subscriber[s].at = "out" /\ inbox' = Append(inbox, s) /\ subscriber' = [subscriber EXCEPT ![s] = new]
      /\ subscribes' = subscribes + 1 /\ UNCHANGED <<sendCases, sending, unread, sent>>
  BY DEF Subscribe
<1>2. inbox \in Seq(Subscribers) /\ sendCases \in Seq(Subscribers) /\ sent \in Nat BY DEF FeedInv, FeedTypes
<1>3. ~Among(inbox, s) /\ ~Among(sendCases, s) BY <1>1 DEF FeedInv, CasesSound
<1>4. new \in Subscriptions BY <1>2 DEF Subscriptions, Places
<1>5. /\ subscriber'[s] = new /\ subscriber' \in [Subscribers -> Subscriptions]
      /\ \A x \in Subscribers : x # s => subscriber'[x] = subscriber[x]
  BY <1>1, <1>4 DEF FeedInv, FeedTypes
<1>6. inbox' \in Seq(Subscribers) /\ \A x : Among(inbox', x) <=> Among(inbox, x) \/ x = s
  BY <1>1, <1>2 DEF Among
<1>7. Distinct(inbox')
  BY <1>1, <1>2, <1>3 DEF Among, FeedInv, CasesSound, Distinct
<1>8. FeedTypes' BY <1>1, <1>5, <1>6 DEF FeedInv, FeedTypes
<1>9. CasesSound' BY <1>1, <1>3, <1>5, <1>6, <1>7 DEF FeedInv, CasesSound
<1>10. ValuesSound'
  BY <1>1, <1>3, <1>5, <1>6 DEF ActiveCases, Values, FeedInv, ValuesSound
<1> QED BY <1>8, <1>9, <1>10 DEF FeedInv

\* A subscriber that changes its place keeps its values.
LEMMA Placed ==
  ASSUME FeedInv, NEW s \in Subscribers, NEW at \in Places,
         subscriber' = [subscriber EXCEPT ![s] = [@ EXCEPT !.at = at]]
  PROVE  /\ subscriber' \in [Subscribers -> Subscriptions] /\ subscriber'[s].at = at
         /\ \A x \in Subscribers : subscriber'[x].due = subscriber[x].due /\ subscriber'[x].got = subscriber[x].got
         /\ \A x \in Subscribers : x # s => subscriber'[x].at = subscriber[x].at
<1>1. subscriber \in [Subscribers -> Subscriptions] BY DEF FeedInv, FeedTypes
<1> DEFINE now == [subscriber[s] EXCEPT !.at = at]
<1>2. now \in Subscriptions /\ now.at = at /\ now.due = subscriber[s].due /\ now.got = subscriber[s].got
  BY <1>1 DEF Subscriptions
<1>3. subscriber' = [subscriber EXCEPT ![s] = now] OBVIOUS
<1> HIDE DEF now
<1> QED BY <1>1, <1>2, <1>3

\* A case in the inbox goes at once, another one has to be told of.
LEMMA UnsubscribeHolds ==
  ASSUME FeedInv, NEW s \in Subscribers, Unsubscribe(s) PROVE FeedInv'
<1>1. /\ inbox \in Seq(Subscribers) /\ sendCases \in Seq(Subscribers)
      /\ UNCHANGED <<sendCases, sending, unread, sent, subscribes>>
  BY DEF FeedInv, FeedTypes, Unsubscribe
<1>2. ActiveCases' = ActiveCases BY <1>1 DEF ActiveCases
<1>3. CASE Among(inbox, s)
  <2>1. Find(inbox, s) # 0 BY <1>1, <1>3, FindIs
  <2>2. inbox' = Delete(inbox, Find(inbox, s)) /\ subscriber' = [subscriber EXCEPT ![s] = [@ EXCEPT !.at = "out"]]
    BY <2>1 DEF Unsubscribe
  <2>3. /\ inbox' \in Seq(Subscribers) /\ Distinct(inbox')
        /\ \A x : Among(inbox', x) <=> Among(inbox, x) /\ x # s
    BY <1>1, <1>3, <2>2, Deleted DEF FeedInv, CasesSound
  <2>4. /\ subscriber' \in [Subscribers -> Subscriptions] /\ subscriber'[s].at = "out"
        /\ \A x \in Subscribers : subscriber'[x].due = subscriber[x].due /\ subscriber'[x].got = subscriber[x].got
        /\ \A x \in Subscribers : x # s => subscriber'[x].at = subscriber[x].at
    BY <2>2, Placed DEF Places
  <2>5. FeedTypes' BY <1>1, <2>3, <2>4 DEF FeedInv, FeedTypes
  <2>6. CasesSound' BY <1>1, <1>3, <2>3, <2>4 DEF FeedInv, CasesSound
  <2>7. ValuesSound' BY <1>1, <1>2, <2>3, <2>4 DEF FeedInv, ValuesSound
  <2> QED BY <2>5, <2>6, <2>7 DEF FeedInv
<1>4. CASE ~Among(inbox, s)
  <2>1. Find(inbox, s) = 0 BY <1>1, <1>4, FindIs
  <2>2. /\ subscriber[s].at = "in" /\ inbox' = inbox
        /\ subscriber' = [subscriber EXCEPT ![s] = [@ EXCEPT !.at = "removing"]]
    BY <2>1 DEF Unsubscribe
  <2>3. /\ subscriber' \in [Subscribers -> Subscriptions] /\ subscriber'[s].at = "removing"
        /\ \A x \in Subscribers : subscriber'[x].due = subscriber[x].due /\ subscriber'[x].got = subscriber[x].got
        /\ \A x \in Subscribers : x # s => subscriber'[x].at = subscriber[x].at
    BY <2>2, Placed DEF Places
  <2>4. FeedTypes' BY <1>1, <2>2, <2>3 DEF FeedInv, FeedTypes
  <2>5. CasesSound' BY <1>1, <1>4, <2>2, <2>3 DEF FeedInv, CasesSound
  <2>6. ValuesSound' BY <1>1, <1>2, <2>2, <2>3 DEF FeedInv, ValuesSound
  <2> QED BY <2>4, <2>5, <2>6 DEF FeedInv
<1> QED BY <1>3, <1>4

\* No Send holds the lock, so no case is active.
LEMMA RemoveLockedHolds ==
  ASSUME FeedInv, NEW s \in Subscribers, RemoveLocked(s) PROVE FeedInv'
<1>1. /\ inbox \in Seq(Subscribers) /\ sendCases \in Seq(Subscribers) /\ sending.at = "idle" /\ sending.active = 0
      /\ Among(sendCases, s) /\ ~Among(inbox, s)
      /\ sendCases' = Delete(sendCases, Find(sendCases, s))
      /\ subscriber' = [subscriber EXCEPT ![s] = [@ EXCEPT !.at = "out"]]
      /\ UNCHANGED <<inbox, sending, unread, sent, subscribes>>
  BY DEF FeedInv, FeedTypes, CasesSound, RemoveLocked, Unlocked
<1>2. /\ sendCases' \in Seq(Subscribers) /\ Distinct(sendCases')
      /\ \A x : Among(sendCases', x) <=> Among(sendCases, x) /\ x # s
  BY <1>1, Deleted DEF FeedInv, CasesSound
<1>3. /\ subscriber' \in [Subscribers -> Subscriptions] /\ subscriber'[s].at = "out"
      /\ \A x \in Subscribers : subscriber'[x].due = subscriber[x].due /\ subscriber'[x].got = subscriber[x].got
      /\ \A x \in Subscribers : x # s => subscriber'[x].at = subscriber[x].at
  BY <1>1, Placed DEF Places
<1>4. ActiveCases = {} /\ ActiveCases' = {} BY <1>1 DEF ActiveCases
<1>5. FeedTypes' BY <1>1, <1>2, <1>3 DEF FeedInv, FeedTypes
<1>6. CasesSound' BY <1>1, <1>2, <1>3 DEF FeedInv, CasesSound
<1>7. ValuesSound' BY <1>1, <1>2, <1>3, <1>4 DEF FeedInv, ValuesSound
<1> QED BY <1>5, <1>6, <1>7 DEF FeedInv

\* Under a Send the prefix of the active cases shrinks if the case was one of them.
LEMMA SelectRemoveHolds ==
  ASSUME FeedInv, NEW s \in Subscribers, SelectRemove(s) PROVE FeedInv'
<1> DEFINE left == ActiveWithout(Find(sendCases, s))
<1>1. /\ inbox \in Seq(Subscribers) /\ sendCases \in Seq(Subscribers) /\ Len(sendCases) \in Nat
      /\ sending.active \in Nat /\ sending.active <= Len(sendCases)
      /\ Among(sendCases, s) /\ ~Among(inbox, s) /\ Distinct(sendCases)
      /\ sendCases' = Delete(sendCases, Find(sendCases, s))
      /\ sending' = [at |-> "try", active |-> left, next |-> 1]
      /\ subscriber' = [subscriber EXCEPT ![s] = [@ EXCEPT !.at = "out"]]
      /\ UNCHANGED <<inbox, unread, sent, subscribes>>
  BY DEF FeedInv, FeedTypes, Sendings, CasesSound, SelectRemove
<1>2. /\ sendCases' \in Seq(Subscribers) /\ Distinct(sendCases') /\ Len(sendCases') = Len(sendCases) - 1
      /\ \A x : Among(sendCases', x) <=> Among(sendCases, x) /\ x # s
      /\ Find(sendCases, s) \in 1..Len(sendCases)
  BY <1>1, FindIs, DeleteIs, Deleted
<1>3. left = Left(sendCases, sending.active, s) BY DEF ActiveWithout, Left
<1> HIDE DEF left
<1>4. /\ left \in Nat /\ left <= Len(sendCases')
      /\ \A x : Leads(sendCases', left, x) <=> Leads(sendCases, sending.active, x) /\ x # s
  BY <1>1, <1>3, ActiveLeft, <1>2
<1>5. \A x : x \in ActiveCases' <=> x \in ActiveCases /\ x # s BY <1>1, <1>4 DEF ActiveCases, Leads
<1>6. /\ subscriber' \in [Subscribers -> Subscriptions] /\ subscriber'[s].at = "out"
      /\ \A x \in Subscribers : subscriber'[x].due = subscriber[x].due /\ subscriber'[x].got = subscriber[x].got
      /\ \A x \in Subscribers : x # s => subscriber'[x].at = subscriber[x].at
  BY <1>1, Placed DEF Places
<1>7. FeedTypes'
  BY <1>1, <1>2, <1>3, <1>4, <1>6 DEF FeedInv, FeedTypes, Sendings, Ats
<1>8. CasesSound' BY <1>1, <1>2, <1>6 DEF FeedInv, CasesSound
<1>9. ValuesSound' BY <1>1, <1>2, <1>5, <1>6 DEF FeedInv, ValuesSound
<1> QED BY <1>7, <1>8, <1>9 DEF FeedInv

\* Send takes the inbox, and every case is active and lacks the value.
LEMMA TakeInboxHolds ==
  ASSUME FeedInv, TakeInbox PROVE FeedInv'
<1>1. /\ inbox \in Seq(Subscribers) /\ sendCases \in Seq(Subscribers) /\ sent \in Nat /\ sending.active = 0
      /\ sendCases' = sendCases \o inbox /\ inbox' = <<>> /\ sent' = sent + 1
      /\ sending' = [at |-> "try", active |-> Len(sendCases'), next |-> 1]
      /\ UNCHANGED <<subscriber, unread, subscribes>>
  BY DEF FeedInv, FeedTypes, TakeInbox
<1>2. /\ sendCases' \in Seq(Subscribers) /\ Distinct(sendCases')
      /\ \A x : Among(sendCases', x) <=> Among(sendCases, x) \/ Among(inbox, x)
  BY <1>1, Joined DEF FeedInv, CasesSound
<1>3. Len(sendCases') \in Nat BY <1>2
<1>4. inbox' \in Seq(Subscribers) /\ Distinct(inbox') /\ \A x : ~Among(inbox', x) BY <1>1 DEF Distinct, Among
<1>5. ActiveCases = {} /\ \A x : x \in ActiveCases' <=> Among(sendCases', x) BY <1>1 DEF ActiveCases, Among
<1>6. FeedTypes' BY <1>1, <1>2, <1>3, <1>4 DEF FeedInv, FeedTypes, Sendings, Ats
<1>7. CasesSound' BY <1>1, <1>2, <1>4 DEF FeedInv, CasesSound
<1>8. ValuesSound'
  <2>1. ASSUME NEW s \in Subscribers, Among(sendCases', s) PROVE subscriber[s].due + Len(subscriber[s].got) - 1 = sent
    <3>1. Len(<<>>) = 0 OBVIOUS
    <3>2. subscriber[s].due \in Int BY Fields
    <3>3. CASE Among(sendCases, s) BY <1>5, <3>3 DEF FeedInv, ValuesSound
    <3>4. CASE Among(inbox, s)
      <4>1. subscriber[s].due = sent + 1 /\ subscriber[s].got = <<>> BY <3>4 DEF FeedInv, ValuesSound
      <4> QED BY <1>1, <3>1, <4>1
    <3> QED BY <1>2, <2>1, <3>3, <3>4
  <2> QED BY <1>1, <1>4, <1>5, <2>1 DEF FeedInv, ValuesSound
<1> QED BY <1>6, <1>7, <1>8 DEF FeedInv

\* A case that is sent gets the value and is not active any more.
LEMMA DeliverHolds ==
  ASSUME FeedInv, NEW i \in 1..sending.active, Deliver(i), UNCHANGED <<inbox, sent, subscribes>>,
         sending' \in Sendings, sending'.active = sending.active - 1, sending'.at = "try", sending'.next >= 1,
         sending.at \in {"try", "select"} PROVE FeedInv'
<1>0. PICK s : s = sendCases[i] OBVIOUS
<1>1. /\ sendCases \in Seq(Subscribers) /\ Len(sendCases) \in Nat /\ Distinct(sendCases)
      /\ sending.active \in Nat /\ sending.active <= Len(sendCases) /\ sent \in Nat
      /\ subscriber \in [Subscribers -> Subscriptions] /\ unread \in [Subscribers -> Nat]
  BY DEF FeedInv, FeedTypes, Sendings, CasesSound
<1>2. s \in Subscribers /\ sending.active \in 1..Len(sendCases) /\ i \in 1..Len(sendCases) BY <1>0, <1>1
<1> DEFINE now == [at |-> subscriber[s].at, due |-> subscriber[s].due, got |-> Append(subscriber[s].got, sent)]
<1>3. /\ sendCases' = Swap(sendCases, i, sending.active)
      /\ unread' = [unread EXCEPT ![s] = @ + 1]
  BY <1>0 DEF Deliver, Swap
<1>14. subscriber' = [subscriber EXCEPT ![s] = now] BY <1>0 DEF Deliver
<1>4. /\ sendCases' \in Seq(Subscribers) /\ Len(sendCases') = Len(sendCases) /\ Distinct(sendCases')
      /\ \A x : Among(sendCases', x) <=> Among(sendCases, x)
      /\ \A x : Leads(sendCases', sending.active - 1, x) <=> Leads(sendCases, sending.active, x) /\ x # s
  <2> HIDE DEF now
  <2> QED BY <1>0, <1>1, <1>2, <1>3, Swapped
<1>5. \A x : x \in ActiveCases' <=> x \in ActiveCases /\ x # s
  <2>1. \A x : x \in ActiveCases <=> Leads(sendCases, sending.active, x) BY DEF ActiveCases, Leads
  <2>2. \A x : x \in ActiveCases' <=> Leads(sendCases', sending'.active, x) BY DEF ActiveCases, Leads
  <2> QED BY <1>4, <2>1, <2>2
<1>6. now \in Subscriptions /\ now.at = subscriber[s].at /\ now.due = subscriber[s].due
      /\ now.got = Append(subscriber[s].got, sent)
  <2>1. subscriber[s] \in Subscriptions /\ subscriber[s].got \in Seq(Int) BY <1>1, <1>2 DEF Subscriptions
  <2>2. Append(subscriber[s].got, sent) \in Seq(Int) BY <1>1, <2>1
  <2> QED BY <2>1, <2>2 DEF Subscriptions
<1> HIDE DEF now
<1>7. /\ subscriber' \in [Subscribers -> Subscriptions] /\ subscriber'[s] = now
      /\ \A x \in Subscribers : x # s => subscriber'[x] = subscriber[x]
  BY <1>1, <1>2, <1>6, <1>14
<1>8. s \in ActiveCases /\ Among(sendCases, s) BY <1>0, <1>2 DEF ActiveCases, Among
<1>9. unread' \in [Subscribers -> Nat] BY <1>1, <1>2, <1>3
<1>10. FeedTypes'
  <2>1. sending'.active <= Len(sendCases') BY <1>1, <1>4
  <2>2. inbox' \in Seq(Subscribers) /\ sent' \in Nat /\ subscribes' \in Nat BY DEF FeedInv, FeedTypes
  <2> QED BY <1>4, <1>7, <1>9, <2>1, <2>2 DEF FeedTypes
<1>11. CasesSound' BY <1>2, <1>4, <1>6, <1>7 DEF FeedInv, CasesSound
<1>12. now.got = Values(now.due, Len(now.got)) /\ now.due + Len(now.got) - 1 = sent
  <2> DEFINE got == subscriber[s].got
             due == subscriber[s].due
  <2>1. got = Values(due, Len(got)) /\ due + Len(got) - 1 = sent - 1 BY <1>2, <1>8 DEF FeedInv, ValuesSound
  <2>2. got \in Seq(Int) /\ Len(got) \in Nat /\ due \in Int /\ sent \in Int BY <1>1, <1>2, Fields
  <2>3. now.got = Append(got, sent) /\ now.due = due BY <1>6
  <2> HIDE DEF got, due
  <2>4. Len(now.got) = Len(got) + 1 /\ sent = due + Len(got) BY <2>1, <2>2, <2>3
  <2>5. Append(got, sent) \in Seq(Int) BY <2>2
  <2>6. \A j \in 1..(Len(got) + 1) : Append(got, sent)[j] = due + j - 1
    BY <2>2, <2>1, <2>4 DEF Values
  <2>7. Append(got, sent) = [j \in 1..Len(Append(got, sent)) |-> Append(got, sent)[j]] BY <2>5, LenProperties
  <2>9. Len(Append(got, sent)) = Len(got) + 1 BY <2>3, <2>4
  <2>8. Append(got, sent) = Values(due, Len(got) + 1) BY <2>6, <2>7, <2>9 DEF Values
  <2> QED BY <2>2, <2>3, <2>4, <2>8
<1>13. ValuesSound'
  BY <1>2, <1>8, <1>4, <1>5, <1>7, <1>12 DEF FeedInv, CasesSound, ValuesSound
<1> QED BY <1>10, <1>11, <1>13 DEF FeedInv

\* A Send goes on, and no case has changed.
LEMMA SendingHolds ==
  ASSUME FeedInv, UNCHANGED <<inbox, sendCases, subscriber, sent>>,
         unread' \in [Subscribers -> Nat], subscribes' \in Nat,
         sending' \in Sendings, sending'.active = sending.active,
         sending'.at \in {"idle", "locked"} => sending'.active = 0, sending'.at = "try" => sending'.next >= 1
  PROVE  FeedInv'
<1>1. FeedTypes' BY DEF FeedInv, FeedTypes
<1>2. CasesSound' BY DEF FeedInv, CasesSound
<1>3. ActiveCases' = ActiveCases BY DEF ActiveCases
<1>4. ValuesSound' BY <1>3 DEF FeedInv, ValuesSound
<1> QED BY <1>1, <1>2, <1>4 DEF FeedInv

\* A Send begins.
LEMMA LockHolds ==
  ASSUME FeedInv, Lock PROVE FeedInv'
  BY SendingHolds DEF Lock, Unlocked, FeedInv, FeedTypes, Sendings, Ats

\* The fast path is over.
LEMMA EndTryHolds ==
  ASSUME FeedInv, EndTry PROVE FeedInv'
<1>1. /\ UNCHANGED <<inbox, sendCases, subscriber, unread, sent, subscribes>>
      /\ unread \in [Subscribers -> Nat] /\ subscribes \in Nat
  BY DEF EndTry, FeedInv, FeedTypes
<1>2. CASE sending.active = 0
  BY <1>2, <1>1, SendingHolds DEF EndTry, NotSending, Sendings, Ats
<1>3. CASE sending.active # 0
  BY <1>3, <1>1, SendingHolds DEF EndTry, FeedInv, FeedTypes, Sendings, Ats
<1> QED BY <1>2, <1>3

\* A subscriber reads.
LEMMA ReceiveHolds ==
  ASSUME FeedInv, NEW s \in Subscribers, Receive(s) PROVE FeedInv'
<1>1. /\ unread \in [Subscribers -> Nat] /\ unread[s] > 0 /\ unread' = [unread EXCEPT ![s] = @ - 1]
      /\ subscribes \in Nat
      /\ UNCHANGED <<inbox, sendCases, sending, subscriber, sent, subscribes>>
  BY DEF Receive, FeedInv, FeedTypes
<1>2. unread' \in [Subscribers -> Nat] BY <1>1
<1>3. /\ sending \in Sendings
      /\ sending.at \in {"idle", "locked"} => sending.active = 0
      /\ sending.at = "try" => sending.next >= 1
  BY DEF FeedInv, FeedTypes
<1> QED BY <1>1, <1>2, <1>3, SendingHolds

\* The fast path sends to the next case or passes it.
LEMMA TrySendHolds ==
  ASSUME FeedInv, TrySend PROVE FeedInv'
<1>1. /\ sending \in Sendings /\ sending.at = "try" /\ sending.next >= 1 /\ sending.next <= sending.active
      /\ sending.next \in Nat /\ sending.active \in Nat
      /\ unread \in [Subscribers -> Nat] /\ subscribes \in Nat /\ UNCHANGED <<inbox, sent, subscribes>>
  BY DEF TrySend, FeedInv, FeedTypes, Sendings
<1>2. sending.next \in 1..sending.active BY <1>1
<1>3. CASE Deliver(sending.next) /\ sending' = [sending EXCEPT !.active = @ - 1]
  BY <1>1, <1>3, <1>2, DeliverHolds DEF Sendings
<1>4. CASE sending' = [sending EXCEPT !.next = @ + 1] /\ UNCHANGED <<sendCases, subscriber, unread>>
  BY <1>1, <1>4, SendingHolds DEF Sendings
<1> QED BY <1>3, <1>4 DEF TrySend

\* The Send that waits delivers to one that has room.
LEMMA SelectSendHolds ==
  ASSUME FeedInv, SelectSend PROVE FeedInv'
<1>1. /\ sending.at = "select" /\ sending.active \in Nat /\ UNCHANGED <<inbox, sent, subscribes>>
      /\ sending' = [at |-> "try", active |-> sending.active - 1, next |-> 1]
  BY DEF SelectSend, FeedInv, FeedTypes, Sendings
<1>2. PICK i \in 1..sending.active : Deliver(i) BY DEF SelectSend
<1>3. sending' \in Sendings /\ sending'.active = sending.active - 1 /\ sending'.at = "try" /\ sending'.next >= 1
  BY <1>1, <1>2 DEF Sendings, Ats
<1> QED BY <1>1, <1>2, <1>3, DeliverHolds

-----------------------------------------------------------------------------
(* Theorems.                                                               *)

\* Every step keeps the invariant.
LEMMA FeedStepHolds == FeedInv /\ [FeedNext]_feedVars => FeedInv'
<1> SUFFICES ASSUME FeedInv, [FeedNext]_feedVars PROVE FeedInv' OBVIOUS
<1>1. CASE UNCHANGED feedVars BY <1>1 DEF feedVars, FeedInv, FeedTypes, CasesSound, ValuesSound, ActiveCases
<1>2. ASSUME NEW s \in Subscribers,
             Subscribe(s) \/ Unsubscribe(s) \/ RemoveLocked(s) \/ SelectRemove(s) \/ Receive(s)
      PROVE  FeedInv' BY <1>2, SubscribeHolds, UnsubscribeHolds, RemoveLockedHolds, SelectRemoveHolds, ReceiveHolds
<1>3. CASE Lock \/ TakeInbox \/ TrySend \/ EndTry \/ SelectSend
  BY <1>3, LockHolds, TakeInboxHolds, TrySendHolds, EndTryHolds, SelectSendHolds
<1> QED BY <1>1, <1>2, <1>3 DEF FeedNext

\* However subscriptions come and go while a Send waits for slow receivers, a subscriber has
\* every value sent since it subscribed, once and in order, the Send in progress ends only when
\* all have its value, and remove finds its case where it looks (Send and remove of event/feed.go).
THEOREM DeliversOnce == FeedSpec => []DeliveredOnce
<1>1. FeedInv => DeliveredOnce
  <2> SUFFICES ASSUME FeedInv, NEW s \in Subscribers
               PROVE  LET sub == subscriber[s]
                      IN /\ sub.got = Values(sub.due, Len(sub.got))
                         /\ sub.at = "in" => sub.due + Len(sub.got) - 1 = (IF s \in ActiveCases THEN sent - 1 ELSE sent)
                         /\ sub.at = "in" => Holds(inbox, s) # Holds(sendCases, s)
                         /\ sub.at = "removing" => Holds(sendCases, s) /\ ~Holds(inbox, s)
                         /\ sub.at = "out" => ~Holds(sendCases, s) /\ ~Holds(inbox, s)
    BY DEF DeliveredOnce, Values
  <2>1. inbox \in Seq(Subscribers) /\ sendCases \in Seq(Subscribers) BY DEF FeedInv, FeedTypes
  <2>2. (Holds(inbox, s) <=> Among(inbox, s)) /\ (Holds(sendCases, s) <=> Among(sendCases, s)) BY <2>1, FindIs DEF Holds
  <2>3. Holds(inbox, s) \in BOOLEAN /\ Holds(sendCases, s) \in BOOLEAN BY DEF Holds
  <2>4. /\ ~(Among(inbox, s) /\ Among(sendCases, s))
        /\ subscriber[s].at = "in" => Among(inbox, s) \/ Among(sendCases, s)
        /\ subscriber[s].at = "removing" => Among(sendCases, s)
        /\ subscriber[s].at = "out" => ~Among(inbox, s) /\ ~Among(sendCases, s)
    BY DEF FeedInv, CasesSound
  <2>5. subscriber[s].got = Values(subscriber[s].due, Len(subscriber[s].got)) BY DEF FeedInv, ValuesSound
  <2>6. Among(sendCases, s) =>
          subscriber[s].due + Len(subscriber[s].got) - 1 = (IF s \in ActiveCases THEN sent - 1 ELSE sent)
    BY DEF FeedInv, ValuesSound
  <2>7. Among(inbox, s) =>
          subscriber[s].due + Len(subscriber[s].got) - 1 = (IF s \in ActiveCases THEN sent - 1 ELSE sent)
    <3>1. SUFFICES ASSUME Among(inbox, s)
                   PROVE  subscriber[s].due + Len(subscriber[s].got) - 1 = (IF s \in ActiveCases THEN sent - 1 ELSE sent)
      OBVIOUS
    <3>2. subscriber[s].due = sent + 1 /\ subscriber[s].got = <<>> /\ Len(<<>>) = 0 /\ sent \in Nat
      BY <3>1 DEF FeedInv, FeedTypes, ValuesSound
    <3>3. s \in ActiveCases => Among(sendCases, s) BY DEF ActiveCases, Among, FeedInv, FeedTypes, Sendings
    <3>4. s \notin ActiveCases BY <2>4, <3>1, <3>3
    <3> QED BY <3>2, <3>4
  <2> QED BY <2>2, <2>3, <2>4, <2>5, <2>6, <2>7
<1> QED BY FeedInitHolds, FeedStepHolds, <1>1, PTL DEF FeedSpec

-----------------------------------------------------------------------------
(* The server: the main loop, the dialer and the connections agree.        *)

\* What a connection and a dial task are.
Stages == {"encrypted", "checked", "launched", "running", "ended", "dropping", "gone"}
Conns == [node : Nodes \cup {Nobody}, flag : {"none", "dyn", "static", "inbound"}, trusted : BOOLEAN, at : Stages]
Tasks == [node : Nodes, flag : {"dyn", "static"}, at : {"run", "setup", "done"}]

PoolTypes == static \subseteq Nodes /\ staticPool \in Seq(Nodes) /\ poolIndex \in [Nodes -> Nat]

\* A connection that is not gone has a node.
Named(c) == c.at # "gone" => c.node \in Nodes /\ c.flag # "none"

\* The types of the fields.
PeerTypes ==
  /\ conns \in Seq(Conns) /\ srvPeers \in [Nodes -> Nat] /\ mainAt \in 0..Len(conns)
  /\ PoolTypes
  /\ tasks \subseteq Tasks /\ dialHistory \in Seq(Nodes)
  /\ \A i \in Ids : Named(conns[i])

\* A connection that runs is the one of its node in peers.
RunsOnce ==
  /\ \A i \in Ids : conns[i].at \in Live => srvPeers[conns[i].node] = i
  /\ \A n \in Nodes : srvPeers[n] # 0 =>
       srvPeers[n] \in Ids /\ conns[srvPeers[n]].node = n /\ conns[srvPeers[n]].at \in Live

Peers == {n \in Nodes : srvPeers[n] # 0}
Flagged(flags) == {n \in Nodes : srvPeers[n] # 0 /\ conns[srvPeers[n]].flag \in flags}

CountsSound ==
  /\ IsFiniteSet(Peers) /\ dsPeers = Peers
  /\ inboundCount = Cardinality(Flagged({"inbound"}))
  /\ dialPeers = Cardinality(Flagged({"dyn", "static"}))

\* The tasks are of different nodes.
TasksSound ==
  /\ IsFiniteSet(tasks) /\ IsFiniteSet(dialing)
  /\ dialing = {task.node : task \in tasks} /\ Cardinality(tasks) = Cardinality(dialing)
  /\ \A t, u \in tasks : t.node = u.node => t = u

\* A dialed connection that is being set up has a task that waits for it, of its own.
InSetup(i) == conns[i].at \in {"encrypted", "checked"} /\ Dialed(conns[i].flag)
TaskOf(i) == [node |-> conns[i].node, flag |-> conns[i].flag, at |-> "setup"]
SetupSound ==
  /\ \A i \in Ids : InSetup(i) => TaskOf(i) \in tasks
  /\ \A i, j \in Ids : InSetup(i) /\ InSetup(j) /\ conns[i].node = conns[j].node => i = j

\* The pool and the places that nodes remember.
PoolSound ==
  /\ \A i \in DOMAIN staticPool : staticPool[i] \in static /\ poolIndex[staticPool[i]] = i
  /\ \A n \in Nodes : poolIndex[n] > 0 => poolIndex[n] \in DOMAIN staticPool /\ staticPool[poolIndex[n]] = n

DialableKnown == \A n \in static : Dialable(n) <=> poolIndex[n] > 0

\* The inductive invariant, in parts that depend on different variables.
Books == RunsOnce /\ CountsSound
Dials == TasksSound /\ SetupSound
Pool == PoolSound /\ DialableKnown
PeerInv == PeerTypes /\ Books /\ Dials /\ Pool

-----------------------------------------------------------------------------
(* What the parts depend on.                                               *)

\* The books do not depend on the scheduler's tasks and pool.
LEMMA BooksKept ==
  ASSUME Books, UNCHANGED <<conns, srvPeers, inboundCount, dsPeers, dialPeers>>
  PROVE  Books' BY DEF Ids, Books, RunsOnce, CountsSound, Peers, Flagged

\* The dials do not depend on who is a peer.
LEMMA DialsKept ==
  ASSUME Dials, UNCHANGED <<conns, tasks, dialing>>
  PROVE  Dials' BY DEF Ids, Dials, TasksSound, SetupSound, InSetup, TaskOf

\* The pool depends on peers only through the set the scheduler keeps.
LEMMA PoolKept ==
  ASSUME Pool, UNCHANGED <<static, staticPool, poolIndex, dialing, dialHistory, dsPeers>>
  PROVE  Pool' BY DEF Pool, PoolSound, DialableKnown, Dialable, InHistory

\* One connection changes.
LEMMA ConnSet ==
  ASSUME conns \in Seq(Conns), NEW i \in Ids, NEW c \in Conns, conns' = [conns EXCEPT ![i] = c]
  PROVE  /\ conns' \in Seq(Conns) /\ Len(conns') = Len(conns) /\ Ids' = Ids /\ Ids = 1..Len(conns)
         /\ conns'[i] = c /\ \A j \in Ids : j # i => conns'[j] = conns[j]
<1>1. Ids = 1..Len(conns) /\ i \in 1..Len(conns) BY DEF Ids
<1>2. conns' \in Seq(Conns) /\ Len(conns') = Len(conns) BY <1>1
<1>3. Ids' = 1..Len(conns') BY <1>2 DEF Ids
<1> QED BY <1>1, <1>2, <1>3

\* One connection comes.
LEMMA ConnNew ==
  ASSUME conns \in Seq(Conns), NEW c \in Conns, conns' = Append(conns, c)
  PROVE  /\ conns' \in Seq(Conns) /\ Len(conns) \in Nat /\ Len(conns') = Len(conns) + 1
         /\ Ids = 1..Len(conns) /\ Ids' = Ids \cup {Len(conns) + 1} /\ Len(conns) + 1 \notin Ids
         /\ conns'[Len(conns) + 1] = c /\ \A j \in Ids : conns'[j] = conns[j]
  BY DEF Ids

\* The running connections stay as they are.
LEMMA BooksHold ==
  ASSUME Books, Ids \subseteq Ids', UNCHANGED <<srvPeers, inboundCount, dsPeers, dialPeers>>,
         \A i \in Ids : conns'[i].at \in Live <=> conns[i].at \in Live,
         \A i \in Ids : conns[i].at \in Live => conns'[i].node = conns[i].node /\ conns'[i].flag = conns[i].flag,
         \A i \in Ids' \ Ids : conns'[i].at \notin Live PROVE Books'
<1>1. RunsOnce' BY DEF Books, RunsOnce, Live
<1>2. Peers' = Peers BY DEF Peers
<1>3. \A flags : Flagged(flags)' = Flagged(flags) BY DEF Flagged, Books, RunsOnce
<1>4. CountsSound' BY <1>2, <1>3 DEF Books, CountsSound
<1> QED BY <1>1, <1>4 DEF Books

\* The server starts without connections, tasks and static nodes.
LEMMA PeerInitHolds == PeerInit => PeerInv
<1> SUFFICES ASSUME PeerInit PROVE PeerInv OBVIOUS
<1> USE DEF PeerInit
<1>1. Ids = {} /\ Len(conns) = 0 BY DEF Ids
<1>2. PeerTypes BY <1>1 DEF PeerTypes, PoolTypes
<1>3. Peers = {} /\ \A flags : Flagged(flags) = {} BY DEF Peers, Flagged
<1>4. Books BY <1>1, <1>3, FS_EmptySet DEF Books, RunsOnce, CountsSound
<1>5. Dials BY <1>1, FS_EmptySet DEF Dials, TasksSound, SetupSound
<1>6. Pool BY DEF Pool, PoolSound, DialableKnown
<1> QED BY <1>2, <1>4, <1>5, <1>6 DEF PeerInv

-----------------------------------------------------------------------------
(* The pool of static nodes.                                               *)

\* A node enters at the end.
LEMMA Entered ==
  ASSUME PoolTypes, PoolSound, NEW n \in Nodes, poolIndex[n] = 0, AddToStaticPool(n),
         static \subseteq static', n \in static', static' \subseteq Nodes
  PROVE  /\ PoolTypes' /\ PoolSound' /\ poolIndex'[n] > 0
         /\ \A m \in Nodes : m # n => poolIndex'[m] = poolIndex[m]
<1> DEFINE end == Len(staticPool)
<1>1. /\ end \in Nat /\ DOMAIN staticPool = 1..end /\ staticPool' \in Seq(Nodes) /\ Len(staticPool') = end + 1
      /\ staticPool'[end + 1] = n /\ \A k \in 1..end : staticPool'[k] = staticPool[k]
  BY DEF PoolTypes, AddToStaticPool
<1>2. DOMAIN staticPool' = 1..(end + 1) BY <1>1
<1>3. /\ poolIndex' \in [Nodes -> Nat] /\ poolIndex'[n] = end + 1
      /\ \A m \in Nodes : m # n => poolIndex'[m] = poolIndex[m]
  BY <1>1 DEF PoolTypes, AddToStaticPool
<1>4. \A k \in 1..end : staticPool[k] \in Nodes /\ staticPool[k] # n BY <1>1 DEF PoolTypes, PoolSound
<1>5. \A k \in DOMAIN staticPool' : staticPool'[k] \in static' /\ poolIndex'[staticPool'[k]] = k
  <2> TAKE k \in DOMAIN staticPool'
  <2>1. CASE k = end + 1 BY <2>1, <1>1, <1>3
  <2>2. CASE k \in 1..end BY <2>2, <1>1, <1>3, <1>4 DEF PoolSound
  <2> QED BY <2>1, <2>2, <1>1, <1>2
<1>6. \A m \in Nodes : poolIndex'[m] > 0 => poolIndex'[m] \in DOMAIN staticPool' /\ staticPool'[poolIndex'[m]] = m
  <2> SUFFICES ASSUME NEW m \in Nodes, poolIndex'[m] > 0
               PROVE  poolIndex'[m] \in DOMAIN staticPool' /\ staticPool'[poolIndex'[m]] = m OBVIOUS
  <2>1. CASE m = n BY <2>1, <1>1, <1>2, <1>3
  <2>2. CASE m # n BY <2>2, <1>1, <1>2, <1>3 DEF PoolSound
  <2> QED BY <2>1, <2>2
<1> QED BY <1>1, <1>3, <1>5, <1>6 DEF PoolTypes, PoolSound

\* The node at place i leaves, the last takes its place.
LEMMA Parted ==
  ASSUME PoolTypes, PoolSound, NEW i \in DOMAIN staticPool, RemoveFromStaticPool(i),
         static' \subseteq static, static \ {staticPool[i]} \subseteq static'
  PROVE  /\ PoolTypes' /\ PoolSound' /\ poolIndex'[staticPool[i]] = 0
         /\ \A m \in Nodes : m # staticPool[i] => (poolIndex'[m] > 0 <=> poolIndex[m] > 0)
<1> DEFINE end == Len(staticPool)
           n == staticPool[i]
           final == staticPool[end]
<1>1. end \in Nat \ {0} /\ DOMAIN staticPool = 1..end /\ i \in 1..end /\ n \in Nodes /\ final \in Nodes BY DEF PoolTypes
<1>2. \A k \in 1..end : staticPool[k] \in Nodes /\ staticPool[k] \in static /\ poolIndex[staticPool[k]] = k
  BY <1>1 DEF PoolTypes, PoolSound
<1>3. staticPool' = SubSeq([staticPool EXCEPT ![i] = final], 1, end - 1) BY DEF RemoveFromStaticPool
<1>4. [staticPool EXCEPT ![i] = final] \in Seq(Nodes) /\ Len([staticPool EXCEPT ![i] = final]) = end
  BY <1>1 DEF PoolTypes
<1>5. /\ staticPool' \in Seq(Nodes) /\ Len(staticPool') = end - 1
      /\ \A k \in 1..(end - 1) : staticPool'[k] = IF k = i THEN final ELSE staticPool[k]
  BY <1>1, <1>3, <1>4
<1>6. DOMAIN staticPool' = 1..(end - 1) BY <1>5
<1>7. /\ poolIndex' \in [Nodes -> Nat] /\ poolIndex'[n] = 0
      /\ \A m \in Nodes : m # n => poolIndex'[m] = IF m = final THEN i ELSE poolIndex[m]
  BY <1>1 DEF PoolTypes, RemoveFromStaticPool
<1>8. poolIndex[final] = end /\ poolIndex[n] = i BY <1>1, <1>2
<1>9. \A k \in 1..(end - 1) : staticPool'[k] \in static' /\ poolIndex'[staticPool'[k]] = k
  <2> TAKE k \in 1..(end - 1)
  <2>1. k \in 1..end /\ k # end
    <3>1. end \in Nat /\ k \in 1..(end - 1) BY <1>1
    <3> HIDE DEF end
    <3> QED BY <3>1
  <2>2. k \in 1..end /\ k # end /\ staticPool[k] \in Nodes /\ poolIndex[staticPool[k]] = k BY <2>1, <1>2
  <2>3. CASE k = i
    <3>1. staticPool'[k] = final /\ final # n BY <2>2, <2>3, <1>5, <1>8
    <3> QED BY <3>1, <2>3, <1>1, <1>2, <1>7
  <2>4. CASE k # i
    BY <2>2, <2>4, <1>5, <1>8, <1>2, <1>7
  <2> QED BY <2>3, <2>4
<1>10. \A m \in Nodes : poolIndex'[m] > 0 => poolIndex'[m] \in DOMAIN staticPool' /\ staticPool'[poolIndex'[m]] = m
  <2> SUFFICES ASSUME NEW m \in Nodes, poolIndex'[m] > 0
               PROVE  poolIndex'[m] \in 1..(end - 1) /\ staticPool'[poolIndex'[m]] = m BY <1>6
  <2>0. m # n BY <1>7
  <2>1. CASE m = final
    BY <2>0, <2>1, <1>7, <1>1, <1>5
  <2>2. CASE m # final
    <3>1. poolIndex'[m] = poolIndex[m] BY <2>0, <2>2, <1>7
    <3>2. poolIndex[m] \in 1..end /\ staticPool[poolIndex[m]] = m BY <3>1, <1>1 DEF PoolSound
    <3>3. poolIndex[m] # end /\ poolIndex[m] # i BY <3>2, <2>0, <2>2
    <3>4. poolIndex[m] \in 1..(end - 1) BY <3>2, <3>3, <1>1
    <3> QED BY <3>1, <3>2, <3>3, <3>4, <1>5
  <2> QED BY <2>1, <2>2
<1>11. \A m \in Nodes : m # n => (poolIndex'[m] > 0 <=> poolIndex[m] > 0) BY <1>1, <1>7, <1>8
<1>12. PoolTypes' /\ PoolSound' BY <1>5, <1>6, <1>7, <1>9, <1>10 DEF PoolTypes, PoolSound
<1> QED BY <1>7, <1>11, <1>12

\* A node that could not be dialed enters if it can be now.
LEMMA PoolUpdated ==
  ASSUME PoolTypes, Pool, NEW n \in Nodes, ~Dialable(n), UpdateStaticPool(n), static' = static,
         \A m \in Nodes \ {n} : Dialable(m)' <=> Dialable(m) PROVE PoolTypes' /\ Pool'
<1>1. poolIndex[n] = 0 BY DEF PoolTypes, Pool, PoolSound, DialableKnown
<1>2. Returns(n) <=> n \in static /\ Dialable(n)' BY <1>1 DEF Returns, Dialable, InHistory
<1>3. CASE Returns(n)
  BY <1>3, <1>2, <1>1, Entered DEF UpdateStaticPool, PoolTypes, Pool, DialableKnown
<1>4. CASE ~Returns(n)
  BY <1>4, <1>1, <1>2 DEF UpdateStaticPool, KeepPool, PoolTypes, Pool, PoolSound, DialableKnown
<1> QED BY <1>3, <1>4

\* A node leaves that cannot be dialed any more, or is not static any more.
LEMMA PoolLeft ==
  ASSUME PoolTypes, Pool, NEW n \in Nodes, LeavePool(n),
         static' \subseteq static, static \ {n} \subseteq static', n \in static' => ~Dialable(n)',
         \A m \in Nodes \ {n} : Dialable(m)' <=> Dialable(m) PROVE PoolTypes' /\ Pool'
<1>1. PoolTypes' /\ PoolSound' /\ poolIndex'[n] = 0 /\ \A m \in Nodes : m # n => (poolIndex'[m] > 0 <=> poolIndex[m] > 0)
  <2>1. CASE n \in static /\ poolIndex[n] > 0
    BY <2>1, Parted DEF Pool, PoolSound, LeavePool
  <2>2. CASE ~(n \in static /\ poolIndex[n] > 0)
    BY <2>2 DEF LeavePool, Pool, PoolTypes, PoolSound, KeepPool
  <2> QED BY <2>1, <2>2
<1>2. DialableKnown' BY <1>1 DEF DialableKnown, Pool, PoolTypes
<1> QED BY <1>1, <1>2 DEF Pool

-----------------------------------------------------------------------------
(* Dial tasks and the connections that they wait for.                      *)

\* A task takes the place of the task of the same node.
LEMMA TaskReplaced ==
  ASSUME tasks \subseteq Tasks, TasksSound, NEW t \in tasks, NEW u \in Tasks, u.node = t.node,
         tasks' = (tasks \ {t}) \cup {u}, dialing' = dialing
  PROVE  /\ tasks' \subseteq Tasks /\ TasksSound' /\ u \in tasks'
         /\ \A v \in tasks : v # t => v \in tasks'
<1>1. tasks' \subseteq Tasks /\ u \in tasks' /\ \A v \in tasks : v # t => v \in tasks' OBVIOUS
<1>2. CASE u = t
  <2>1. tasks' = tasks BY <1>2
  <2> QED BY <2>1, <1>1 DEF TasksSound
<1>3. CASE u # t
  <2>1. u \notin tasks \ {t} BY <1>3 DEF TasksSound
  <2>2. IsFiniteSet(tasks \ {t}) /\ Cardinality(tasks \ {t}) = Cardinality(tasks) - 1 /\ Cardinality(tasks) \in Nat
    BY FS_RemoveElement, FS_CardinalityType DEF TasksSound
  <2>3. IsFiniteSet(tasks') /\ Cardinality(tasks') = Cardinality(tasks \ {t}) + 1 BY <2>1, <2>2, FS_AddElement
  <2>4. Cardinality(tasks') = Cardinality(tasks) BY <2>2, <2>3
  <2>5. {v.node : v \in tasks'} = {v.node : v \in tasks} OBVIOUS
  <2>6. \A v, w \in tasks' : v.node = w.node => v = w BY DEF TasksSound
  <2>7. TasksSound' BY <2>3, <2>4, <2>5, <2>6 DEF TasksSound
  <2> QED BY <1>1, <2>7
<1> QED BY <1>2, <1>3

\* No connection begins its set-up.
LEMMA DialsHold ==
  ASSUME Dials, tasks' = tasks, dialing' = dialing,
         \A i \in Ids' : InSetup(i)' => i \in Ids /\ InSetup(i) /\ conns'[i].node = conns[i].node /\ conns'[i].flag = conns[i].flag
  PROVE  Dials'
<1>1. TasksSound' BY DEF Dials, TasksSound
<1>2. SetupSound' BY DEF Dials, SetupSound, TaskOf
<1> QED BY <1>1, <1>2 DEF Dials

\* A connection ends its set-up, and its task goes on.
LEMMA SetupEnds ==
  ASSUME PeerTypes, Dials, NEW i \in Ids, conns[i].at \in {"encrypted", "checked"}, tasks' = Returned(i), dialing' = dialing,
         Ids' = Ids, conns'[i].at \notin {"encrypted", "checked"}, \A j \in Ids : j # i => conns'[j] = conns[j]
  PROVE  tasks' \subseteq Tasks /\ Dials'
<1>1. \A j \in Ids' : InSetup(j)' => j \in Ids /\ j # i /\ InSetup(j) /\ conns'[j] = conns[j] /\ TaskOf(j)' = TaskOf(j)
  BY DEF InSetup, TaskOf
<1>2. CASE Dialed(conns[i].flag)
  <2> DEFINE done == [TaskOf(i) EXCEPT !.at = "done"]
  <2>1. InSetup(i) /\ TaskOf(i) \in tasks BY <1>2 DEF InSetup, Dials, SetupSound
  <2>2. TaskOf(i) \in Tasks /\ done \in Tasks /\ done.node = TaskOf(i).node BY <2>1 DEF PeerTypes, Tasks
  <2>3. tasks' = (tasks \ {TaskOf(i)}) \cup {done} BY <1>2 DEF Returned, TaskOf
  <2> HIDE DEF done
  <2>4. /\ tasks' \subseteq Tasks /\ TasksSound'
        /\ \A v \in tasks : v # TaskOf(i) => v \in tasks'
    BY <2>1, <2>2, <2>3, TaskReplaced DEF PeerTypes, Dials
  <2>5. \A j \in Ids : j # i /\ InSetup(j) => TaskOf(j) # TaskOf(i) BY <2>1 DEF Dials, SetupSound, TaskOf
  <2>6. SetupSound' BY <1>1, <2>4, <2>5 DEF Dials, SetupSound
  <2> QED BY <2>4, <2>6 DEF Dials
<1>3. CASE ~Dialed(conns[i].flag)
  BY <1>3, <1>1, DialsHold DEF Returned, PeerTypes
<1> QED BY <1>2, <1>3

\* A node is dialed that was not.
LEMMA DialStarts ==
  ASSUME PeerTypes, Dials, NEW n \in Nodes, NEW flag \in {"dyn", "static"}, n \notin dialing, StartDial(n, flag), conns' = conns
  PROVE  /\ tasks' \subseteq Tasks /\ dialHistory' \in Seq(Nodes) /\ Dials'
         /\ ~Dialable(n)' /\ \A m \in Nodes \ {n} : dsPeers' = dsPeers => (Dialable(m)' <=> Dialable(m))
<1> DEFINE t == [node |-> n, flag |-> flag, at |-> "run"]
<1>1. t \in Tasks /\ t.node = n /\ tasks' = tasks \cup {t} /\ dialing' = dialing \cup {n} /\ dialHistory' = Append(dialHistory, n)
  BY DEF StartDial, Tasks
<1> HIDE DEF t
<1>2. \A v \in tasks : v.node # n BY DEF Dials, TasksSound
<1>3. t \notin tasks BY <1>1, <1>2
<1>4. /\ IsFiniteSet(tasks') /\ Cardinality(tasks') = Cardinality(tasks) + 1
      /\ IsFiniteSet(dialing') /\ Cardinality(dialing') = Cardinality(dialing) + 1
  BY <1>1, <1>3, FS_AddElement DEF Dials, TasksSound
<1>5. Cardinality(tasks') = Cardinality(dialing') BY <1>4 DEF Dials, TasksSound
<1>6. dialing' = {v.node : v \in tasks'} BY <1>1 DEF Dials, TasksSound
<1>7. \A v, w \in tasks' : v.node = w.node => v = w BY <1>1, <1>2 DEF Dials, TasksSound
<1>8. TasksSound' BY <1>4, <1>5, <1>6, <1>7 DEF TasksSound
<1>9. SetupSound' BY <1>1 DEF Dials, SetupSound, Ids, InSetup, TaskOf
<1>10. /\ dialHistory' \in Seq(Nodes)
       /\ \A m : (\E k \in DOMAIN dialHistory' : dialHistory'[k] = m) <=> InHistory(m) \/ m = n
  <2>1. /\ dialHistory' \in Seq(Nodes) /\ Len(dialHistory) \in Nat /\ Len(dialHistory') = Len(dialHistory) + 1
        /\ dialHistory'[Len(dialHistory) + 1] = n /\ \A k \in 1..Len(dialHistory) : dialHistory'[k] = dialHistory[k]
    BY <1>1 DEF PeerTypes
  <2>2. DOMAIN dialHistory = 1..Len(dialHistory) /\ DOMAIN dialHistory' = 1..(Len(dialHistory) + 1)
    BY <2>1 DEF PeerTypes
  <2> QED BY <2>1, <2>2 DEF InHistory
<1>11. ~Dialable(n)' /\ \A m \in Nodes \ {n} : dsPeers' = dsPeers => (Dialable(m)' <=> Dialable(m))
  BY <1>1, <1>10 DEF Dialable, InHistory
<1> QED BY <1>1, <1>8, <1>9, <1>10, <1>11 DEF Dials, PeerTypes

-----------------------------------------------------------------------------
(* The scheduler's steps.                                                  *)

\* A step of the scheduler leaves the types of the server's state alone.
LEMMA TypesKept ==
  ASSUME PeerTypes, ServerKept, PoolTypes', tasks' \subseteq Tasks, dialHistory' \in Seq(Nodes)
  PROVE  PeerTypes' BY DEF PeerTypes, ServerKept, mainVars, Ids

\* With slots free, the loop waits for events only when no static node can be dialed.
LEMMA PoolDrained ==
  ASSUME PeerInv, Drained, FreeDialSlots > 0 PROVE \A n \in Nodes : poolIndex[n] = 0
<1>1. Flagged({"dyn", "static"}) \subseteq Peers BY DEF Flagged, Peers
<1>2. dialPeers \in Nat BY <1>1, FS_Subset, FS_CardinalityType DEF PeerInv, Books, CountsSound
<1>3. Cardinality(dialing) \in Nat BY FS_CardinalityType DEF PeerInv, Dials, TasksSound
<1>4. FreeDialSlots \in Int BY <1>2, <1>3, PeerAssumption DEF FreeDialSlots
<1>5. staticPool = <<>> BY <1>4 DEF Drained
<1> QED BY <1>5 DEF PeerInv, PeerTypes, PoolTypes, Pool, PoolSound

\* A static node leaves the pool for a dial: it cannot be dialed until dial and history end.
LEMMA StartStaticHolds ==
  ASSUME PeerInv, StartStatic PROVE PeerInv'
<1>1. PICK i \in DOMAIN staticPool : StartDial(staticPool[i], "static") /\ RemoveFromStaticPool(i) BY DEF StartStatic
<1>2. static' = static /\ dsPeers' = dsPeers /\ dialPeers' = dialPeers /\ ServerKept BY DEF StartStatic
<1>3. conns' = conns /\ srvPeers' = srvPeers /\ inboundCount' = inboundCount BY <1>2 DEF ServerKept, mainVars
<1>4. PICK n \in Nodes : n = staticPool[i] BY DEF PeerInv, PeerTypes, PoolTypes
<1>5. n \in static /\ poolIndex[n] = i /\ i > 0 BY <1>1, <1>4 DEF PeerInv, PeerTypes, PoolTypes, Pool, PoolSound
<1>6. n \notin dialing BY <1>5 DEF PeerInv, Pool, DialableKnown, Dialable
<1>7. StartDial(n, "static") /\ LeavePool(n) BY <1>1, <1>5, <1>4 DEF LeavePool
<1>8. /\ tasks' \subseteq Tasks /\ dialHistory' \in Seq(Nodes) /\ Dials'
      /\ ~Dialable(n)' /\ \A m \in Nodes \ {n} : Dialable(m)' <=> Dialable(m)
  BY <1>2, <1>3, <1>5, <1>6, <1>7, DialStarts DEF PeerInv
<1>9. PoolTypes' /\ Pool' BY <1>2, <1>5, <1>7, <1>8, PoolLeft DEF PeerInv, PeerTypes
<1>10. Books' BY <1>2, <1>3, BooksKept DEF PeerInv
<1> QED BY <1>2, <1>8, <1>9, <1>10, TypesKept DEF PeerInv

\* A node from discovery is dialed only with the pool empty, so it is not a static node that waits there.
LEMMA CandidateHolds ==
  ASSUME PeerInv, NEW n \in Nodes, Candidate(n) PROVE PeerInv'
<1>1. /\ Drained /\ FreeDialSlots > 0 /\ Dialable(n) /\ StartDial(n, "dyn") /\ KeepPool
      /\ static' = static /\ dsPeers' = dsPeers /\ dialPeers' = dialPeers /\ ServerKept
  BY DEF Candidate
<1>2. conns' = conns /\ srvPeers' = srvPeers /\ inboundCount' = inboundCount BY <1>1 DEF ServerKept, mainVars
<1>3. n \notin dialing BY <1>1 DEF Dialable
<1>4. /\ tasks' \subseteq Tasks /\ dialHistory' \in Seq(Nodes) /\ Dials'
      /\ ~Dialable(n)' /\ \A m \in Nodes \ {n} : Dialable(m)' <=> Dialable(m)
  BY <1>1, <1>2, <1>3, DialStarts DEF PeerInv
<1>5. n \notin static BY <1>1, PoolDrained DEF PeerInv, Pool, DialableKnown
<1>6. PoolTypes' /\ PoolSound' BY <1>1 DEF PeerInv, PeerTypes, Pool, PoolTypes, PoolSound, KeepPool
<1>7. DialableKnown' BY <1>1, <1>4, <1>5 DEF PeerInv, PeerTypes, Pool, PoolTypes, DialableKnown, KeepPool
<1>8. Books' BY <1>1, <1>2, BooksKept DEF PeerInv
<1> QED BY <1>1, <1>4, <1>6, <1>7, <1>8, TypesKept DEF PeerInv, Pool

\* A finished dial frees its node, which returns to the pool if the history and the peers allow.
LEMMA DialDoneHolds ==
  ASSUME PeerInv, NEW task \in tasks, DialDone(task) PROVE PeerInv'
<1>1. /\ task.at = "done" /\ tasks' = tasks \ {task} /\ dialing' = dialing \ {task.node}
      /\ static' = static /\ dialHistory' = dialHistory /\ dsPeers' = dsPeers /\ dialPeers' = dialPeers
      /\ UpdateStaticPool(task.node) /\ ServerKept
  BY DEF DialDone
<1>2. conns' = conns /\ srvPeers' = srvPeers /\ inboundCount' = inboundCount BY <1>1 DEF ServerKept, mainVars
<1>3. task \in Tasks /\ task.node \in Nodes /\ task.node \in dialing BY DEF PeerInv, PeerTypes, Tasks, Dials, TasksSound
<1>4. ~Dialable(task.node) /\ \A m \in Nodes \ {task.node} : Dialable(m)' <=> Dialable(m)
  BY <1>1, <1>3 DEF Dialable, InHistory
<1>5. PoolTypes' /\ Pool' BY <1>1, <1>3, <1>4, PoolUpdated DEF PeerInv, PeerTypes
<1>6. TasksSound'
  <2>1. /\ IsFiniteSet(tasks') /\ Cardinality(tasks') = Cardinality(tasks) - 1
        /\ IsFiniteSet(dialing') /\ Cardinality(dialing') = Cardinality(dialing) - 1
    BY <1>1, <1>3, FS_RemoveElement DEF PeerInv, Dials, TasksSound
  <2>2. dialing' = {v.node : v \in tasks'} BY <1>1 DEF PeerInv, Dials, TasksSound
  <2>3. \A v, w \in tasks' : v.node = w.node => v = w BY <1>1 DEF PeerInv, Dials, TasksSound
  <2>4. Cardinality(tasks') = Cardinality(dialing') BY <2>1 DEF PeerInv, Dials, TasksSound
  <2> QED BY <2>1, <2>2, <2>3, <2>4 DEF TasksSound
<1>7. SetupSound' BY <1>1, <1>2 DEF PeerInv, Dials, SetupSound, Ids, InSetup, TaskOf
<1>8. Books' BY <1>1, <1>2, BooksKept DEF PeerInv
<1>9. PeerTypes' BY <1>1, <1>5, TypesKept DEF PeerInv, PeerTypes
<1> QED BY <1>5, <1>6, <1>7, <1>8, <1>9 DEF PeerInv, Dials

\* The oldest dial is forgotten.
LEMMA ExpireHistoryHolds ==
  ASSUME PeerInv, ExpireHistory PROVE PeerInv'
<1>1. /\ dialHistory # <<>> /\ dialHistory' = Tail(dialHistory)
      /\ static' = static /\ tasks' = tasks /\ dialing' = dialing /\ dsPeers' = dsPeers /\ dialPeers' = dialPeers
      /\ UpdateStaticPool(Head(dialHistory)) /\ ServerKept
  BY DEF ExpireHistory
<1>2. conns' = conns /\ srvPeers' = srvPeers /\ inboundCount' = inboundCount BY <1>1 DEF ServerKept, mainVars
<1> DEFINE n == Head(dialHistory)
<1>3. /\ dialHistory \in Seq(Nodes) /\ Len(dialHistory) \in Nat \ {0} /\ n = dialHistory[1] /\ n \in Nodes
      /\ dialHistory' \in Seq(Nodes) /\ Len(dialHistory') = Len(dialHistory) - 1
      /\ \A k \in 1..(Len(dialHistory) - 1) : dialHistory'[k] = dialHistory[k + 1]
  BY <1>1 DEF PeerInv, PeerTypes
<1>4. DOMAIN dialHistory = 1..Len(dialHistory) /\ DOMAIN dialHistory' = 1..(Len(dialHistory) - 1) BY <1>3
<1>5. UpdateStaticPool(n) BY <1>1
<1> HIDE DEF n
<1>6. InHistory(n) BY <1>3, <1>4 DEF InHistory
<1>7. ASSUME NEW m \in Nodes \ {n} PROVE InHistory(m) <=> InHistory(m)'
  <2>1. ASSUME NEW k \in 1..Len(dialHistory), dialHistory[k] = m PROVE k - 1 \in 1..(Len(dialHistory) - 1) /\ dialHistory'[k - 1] = m
    BY <2>1, <1>3
  <2>2. ASSUME NEW k \in 1..(Len(dialHistory) - 1), dialHistory'[k] = m PROVE k + 1 \in 1..Len(dialHistory) /\ dialHistory[k + 1] = m
    BY <2>2, <1>3
  <2> QED BY <2>1, <2>2, <1>4 DEF InHistory
<1>8. ~Dialable(n) /\ \A m \in Nodes \ {n} : Dialable(m)' <=> Dialable(m) BY <1>1, <1>6, <1>7 DEF Dialable
<1>9. PoolTypes' /\ Pool' BY <1>1, <1>3, <1>5, <1>8, PoolUpdated DEF PeerInv, PeerTypes
<1>10. Books' /\ Dials' BY <1>1, <1>2, BooksKept, DialsKept DEF PeerInv
<1>11. PeerTypes' BY <1>1, <1>3, <1>9, TypesKept DEF PeerInv, PeerTypes
<1> QED BY <1>9, <1>10, <1>11 DEF PeerInv

\* A new static node enters the pool if it can be dialed.
LEMMA AddStaticHolds ==
  ASSUME PeerInv, NEW n \in Nodes, AddStatic(n) PROVE PeerInv'
<1>1. /\ n \notin static /\ static' = static \cup {n}
      /\ IF Dialable(n) THEN AddToStaticPool(n) ELSE KeepPool
      /\ tasks' = tasks /\ dialing' = dialing /\ dialHistory' = dialHistory /\ dsPeers' = dsPeers /\ dialPeers' = dialPeers
      /\ ServerKept
  BY DEF AddStatic
<1>2. conns' = conns /\ srvPeers' = srvPeers /\ inboundCount' = inboundCount BY <1>1 DEF ServerKept, mainVars
<1>3. \A m \in Nodes : Dialable(m)' <=> Dialable(m) BY <1>1 DEF Dialable, InHistory
<1>4. PoolTypes /\ Pool /\ PoolSound BY DEF PeerInv, PeerTypes, Pool
<1>5. poolIndex[n] = 0 BY <1>1, <1>4 DEF PoolTypes, PoolSound
<1>6. CASE Dialable(n)
  <2>1. AddToStaticPool(n) /\ static' \subseteq Nodes BY <1>1, <1>4, <1>6 DEF PoolTypes
  <2>2. /\ PoolTypes' /\ PoolSound' /\ poolIndex'[n] > 0
        /\ \A m \in Nodes : m # n => poolIndex'[m] = poolIndex[m]
    BY <1>1, <1>4, <1>5, <2>1, Entered
  <2>3. DialableKnown' BY <1>1, <1>3, <1>4, <1>6, <2>2 DEF Pool, PoolTypes, DialableKnown
  <2> QED BY <1>1, <1>2, <1>4, <2>2, <2>3, BooksKept, DialsKept, TypesKept DEF PeerInv, PeerTypes, Pool
<1>7. CASE ~Dialable(n)
  <2>1. staticPool' = staticPool /\ poolIndex' = poolIndex BY <1>1, <1>7 DEF KeepPool
  <2>2. PoolTypes' /\ PoolSound' BY <1>1, <1>4, <2>1 DEF PoolTypes, PoolSound
  <2>3. DialableKnown' BY <1>1, <1>3, <1>4, <1>5, <1>7, <2>1 DEF Pool, PoolTypes, DialableKnown
  <2> QED BY <1>1, <1>2, <1>4, <2>2, <2>3, BooksKept, DialsKept, TypesKept DEF PeerInv, PeerTypes, Pool
<1> QED BY <1>6, <1>7

-----------------------------------------------------------------------------
(* The steps of connections that the scheduler does not hear of.           *)

\* What connection i may become.
SamePeer(i, c) ==
  /\ c \in Conns /\ Named(c) /\ (c.at \in Live <=> conns[i].at \in Live)
  /\ c.at \in Live => c.node = conns[i].node /\ c.flag = conns[i].flag

\* A connection changes that stays a peer, or stays none.
LEMMA ConnStep ==
  ASSUME PeerInv, NEW i \in Ids, NEW c, SamePeer(i, c), conns' = [conns EXCEPT ![i] = c],
         UNCHANGED <<srvPeers, inboundCount, dsPeers, dialPeers>>
  PROVE  /\ Books' /\ conns' \in Seq(Conns) /\ Len(conns') = Len(conns) /\ Ids' = Ids /\ \A j \in Ids' : Named(conns'[j])
         /\ conns'[i] = c /\ \A j \in Ids : j # i => conns'[j] = conns[j]
<1>1. /\ conns' \in Seq(Conns) /\ Len(conns') = Len(conns) /\ Ids' = Ids
      /\ conns'[i] = c /\ \A j \in Ids : j # i => conns'[j] = conns[j]
  BY ConnSet DEF SamePeer, PeerInv, PeerTypes
<1>2. Books'
  BY <1>1, BooksHold DEF SamePeer, PeerInv
<1>3. \A j \in Ids' : Named(conns'[j]) BY <1>1 DEF SamePeer, PeerInv, PeerTypes
<1> QED BY <1>1, <1>2, <1>3

\* Such a step, when nothing else changes, preserves the invariant.
LEMMA PeerStep ==
  ASSUME PeerInv, NEW i \in Ids, NEW c, SamePeer(i, c), conns' = [conns EXCEPT ![i] = c],
         c.at \in {"encrypted", "checked"} => conns[i].at \in {"encrypted", "checked"} /\ c.node = conns[i].node /\ c.flag = conns[i].flag,
         UNCHANGED <<srvPeers, inboundCount, schedVars>>, mainAt' \in 0..Len(conns) PROVE PeerInv'
<1>0. UNCHANGED <<srvPeers, inboundCount, static, staticPool, poolIndex, tasks, dialing, dialHistory, dsPeers, dialPeers>>
  BY DEF schedVars
<1>1. /\ Books' /\ conns' \in Seq(Conns) /\ Len(conns') = Len(conns) /\ Ids' = Ids /\ \A j \in Ids' : Named(conns'[j])
      /\ conns'[i] = c /\ \A j \in Ids : j # i => conns'[j] = conns[j]
  BY <1>0, ConnStep
<1>2. Dials'
  BY <1>1, <1>0, DialsHold DEF InSetup, PeerInv
<1>3. Pool' BY <1>0, PoolKept DEF PeerInv
<1>4. PeerTypes' BY <1>0, <1>1 DEF PeerInv, PeerTypes, PoolTypes
<1> QED BY <1>1, <1>2, <1>3, <1>4 DEF PeerInv

\* A connection is closed before it is a peer.
LEMMA SetupGone ==
  ASSUME PeerInv, NEW i \in Ids, conns[i].at \in {"encrypted", "checked"},
         conns' = [conns EXCEPT ![i] = Closed], tasks' = Returned(i),
         UNCHANGED <<mainVars, static, staticPool, poolIndex, dialing, dialHistory, dsPeers, dialPeers>> PROVE PeerInv'
<1>1. SamePeer(i, Closed) /\ Closed.at = "gone" BY DEF SamePeer, Closed, Conn, Conns, Stages, Live, Named
<1>2. UNCHANGED <<srvPeers, inboundCount, mainAt>> BY DEF mainVars
<1>3. /\ Books' /\ conns' \in Seq(Conns) /\ Len(conns') = Len(conns) /\ Ids' = Ids /\ \A j \in Ids' : Named(conns'[j])
      /\ conns'[i] = Closed /\ \A j \in Ids : j # i => conns'[j] = conns[j]
  BY <1>1, <1>2, ConnStep
<1>4. tasks' \subseteq Tasks /\ Dials' BY <1>1, <1>3, SetupEnds DEF PeerInv
<1>5. Pool' BY PoolKept DEF PeerInv
<1>6. PeerTypes' BY <1>2, <1>3, <1>4 DEF PeerInv, PeerTypes, PoolTypes
<1> QED BY <1>3, <1>4, <1>5, <1>6 DEF PeerInv

\* A connection comes.
LEMMA ConnComes ==
  ASSUME PeerInv, NEW c \in Conns, Named(c), c.at = "encrypted", conns' = Append(conns, c),
         UNCHANGED <<mainVars, static, staticPool, poolIndex, dialing, dialHistory, dsPeers, dialPeers>>,
         tasks' \subseteq Tasks, TasksSound',
         \A j \in Ids : InSetup(j) => TaskOf(j) \in tasks',
         Dialed(c.flag) => /\ [node |-> c.node, flag |-> c.flag, at |-> "setup"] \in tasks'
                           /\ \A j \in Ids : InSetup(j) => conns[j].node # c.node
  PROVE  PeerInv'
<1>1. UNCHANGED <<srvPeers, inboundCount, mainAt>> BY DEF mainVars
<1> DEFINE new == Len(conns) + 1
<1>2. /\ conns' \in Seq(Conns) /\ Len(conns) \in Nat /\ Len(conns') = Len(conns) + 1
      /\ Ids = 1..Len(conns) /\ Ids' = Ids \cup {new} /\ new \notin Ids
      /\ conns'[new] = c /\ \A j \in Ids : conns'[j] = conns[j]
  BY ConnNew DEF PeerInv, PeerTypes
<1> HIDE DEF new
<1>3. Books'
  BY <1>2, <1>1, BooksHold DEF Live, PeerInv
<1>4. SetupSound'
  <2>1. \A j \in Ids : (InSetup(j)' <=> InSetup(j)) /\ TaskOf(j)' = TaskOf(j) BY <1>2 DEF InSetup, TaskOf
  <2>2. \A j \in Ids' : j \in Ids \/ j = new BY <1>2
  <2>3. \A j \in Ids' : InSetup(j)' => TaskOf(j)' \in tasks'
    <3> SUFFICES ASSUME NEW j \in Ids', InSetup(j)' PROVE TaskOf(j)' \in tasks' OBVIOUS
    <3>1. CASE j \in Ids BY <3>1, <2>1
    <3>2. CASE j = new
      BY <3>2, <1>2 DEF InSetup, TaskOf
    <3> QED BY <3>1, <3>2, <2>2
  <2>4. ASSUME NEW j \in Ids', NEW k \in Ids', InSetup(j)', InSetup(k)', conns'[j].node = conns'[k].node PROVE j = k
    <3>1. CASE j \in Ids /\ k \in Ids BY <3>1, <2>1, <2>4, <1>2 DEF PeerInv, Dials, SetupSound
    <3>2. CASE j = new /\ k \in Ids
      BY <3>2, <2>1, <2>4, <1>2 DEF InSetup
    <3>3. CASE j \in Ids /\ k = new
      BY <3>3, <2>1, <2>4, <1>2 DEF InSetup
    <3> QED BY <3>1, <3>2, <3>3, <2>2
  <2> QED BY <2>3, <2>4 DEF SetupSound
<1>5. Pool' BY PoolKept DEF PeerInv
<1>6. PeerTypes'
  <2>1. mainAt' \in 0..Len(conns') BY <1>1, <1>2 DEF PeerInv, PeerTypes
  <2>2. \A j \in Ids' : Named(conns'[j]) BY <1>2 DEF PeerInv, PeerTypes
  <2> QED BY <2>1, <2>2, <1>1, <1>2 DEF PeerInv, PeerTypes, PoolTypes
<1> QED BY <1>3, <1>4, <1>5, <1>6 DEF PeerInv, Dials

\* A dial fails, or becomes a connection that its task waits for.
LEMMA ConnectHolds ==
  ASSUME PeerInv, NEW task \in tasks, Connect(task) PROVE PeerInv'
<1>1. task.at = "run" /\ UNCHANGED <<mainVars, static, staticPool, poolIndex, dialing, dialHistory, dsPeers, dialPeers>>
  BY DEF Connect
<1>2. task \in Tasks /\ task.node \in Nodes /\ task.flag \in {"dyn", "static"} BY DEF PeerInv, PeerTypes, Tasks
<1>3. \A j \in Ids : InSetup(j) => TaskOf(j) \in tasks /\ TaskOf(j) # task /\ conns[j].node # task.node
  BY <1>1 DEF PeerInv, Dials, TasksSound, SetupSound, TaskOf
<1>4. UNCHANGED <<srvPeers, inboundCount, mainAt, trusted>> BY <1>1 DEF mainVars
<1>5. CASE tasks' = (tasks \ {task}) \cup {[task EXCEPT !.at = "done"]} /\ conns' = conns
  <2>1. [task EXCEPT !.at = "done"] \in Tasks /\ [task EXCEPT !.at = "done"].node = task.node BY <1>2 DEF Tasks
  <2>2. tasks' \subseteq Tasks /\ TasksSound' /\ \A v \in tasks : v # task => v \in tasks'
    BY <2>1, <1>1, <1>5, TaskReplaced DEF PeerInv, PeerTypes, Dials
  <2>3. SetupSound' BY <2>2, <1>3, <1>5 DEF PeerInv, Dials, SetupSound, Ids, InSetup, TaskOf
  <2>4. Books' /\ Pool' BY <1>1, <1>4, <1>5, BooksKept, PoolKept DEF PeerInv
  <2>5. PeerTypes' BY <2>2, <1>1, <1>4, <1>5 DEF PeerInv, PeerTypes, PoolTypes, Ids
  <2> QED BY <2>2, <2>3, <2>4, <2>5 DEF PeerInv, Dials
<1>6. CASE /\ conns' = Append(conns, Conn(task.node, task.flag, "encrypted"))
           /\ tasks' = (tasks \ {task}) \cup {[task EXCEPT !.at = "setup"]}
  <2> DEFINE c == Conn(task.node, task.flag, "encrypted")
             u == [task EXCEPT !.at = "setup"]
  <2>1. u \in Tasks /\ u.node = task.node /\ u = [node |-> c.node, flag |-> c.flag, at |-> "setup"]
    BY <1>2 DEF Tasks, Conn
  <2>2. c \in Conns /\ Named(c) /\ c.at = "encrypted" /\ c.node = task.node BY <1>2 DEF Conns, Named, Conn, Stages
  <2>3. tasks' = (tasks \ {task}) \cup {u} /\ conns' = Append(conns, c) BY <1>6
  <2> HIDE DEF c, u
  <2>4. tasks' \subseteq Tasks /\ TasksSound' /\ u \in tasks' /\ \A v \in tasks : v # task => v \in tasks'
    BY <2>1, <2>3, <1>1, TaskReplaced DEF PeerInv, PeerTypes, Dials
  <2>5. \A j \in Ids : InSetup(j) => TaskOf(j) \in tasks' /\ conns[j].node # c.node BY <2>2, <2>4, <1>3
  <2> QED BY <2>1, <2>2, <2>3, <2>4, <2>5, <1>1, ConnComes
<1> QED BY <1>5, <1>6 DEF Connect

\* A connection is accepted.
LEMMA InboundHolds ==
  ASSUME PeerInv, NEW n \in Nodes, Inbound(n) PROVE PeerInv'
<1> DEFINE c == Conn(n, "inbound", "encrypted")
<1>1. c \in Conns /\ Named(c) /\ c.at = "encrypted" /\ ~Dialed(c.flag) BY DEF Conns, Named, Conn, Stages, Dialed
<1>2. conns' = Append(conns, c) /\ UNCHANGED <<mainVars, schedVars>> BY DEF Inbound
<1> HIDE DEF c
<1>3. UNCHANGED <<static, staticPool, poolIndex, tasks, dialing, dialHistory, dsPeers, dialPeers>> BY <1>2 DEF schedVars
<1>4. tasks' \subseteq Tasks /\ TasksSound' /\ \A j \in Ids : InSetup(j) => TaskOf(j) \in tasks'
  BY <1>3 DEF PeerInv, PeerTypes, Dials, TasksSound, SetupSound
<1> QED BY <1>1, <1>2, <1>3, <1>4, ConnComes

\* The first checkpoint closes a connection or lets it go on.
LEMMA PostHandshakeHolds ==
  ASSUME PeerInv, NEW i \in Ids, PostHandshake(i) PROVE PeerInv'
<1>1. /\ conns[i].at = "encrypted"
      /\ UNCHANGED <<mainVars, static, staticPool, poolIndex, dialing, dialHistory, dsPeers, dialPeers>>
  BY DEF PostHandshake
<1> DEFINE isTrusted == conns[i].node \in trusted
<1>2. CASE Refused(conns[i], isTrusted)
  BY <1>2, <1>1, SetupGone DEF PostHandshake
<1>3. CASE ~Refused(conns[i], isTrusted)
  <2> DEFINE c == [conns[i] EXCEPT !.at = "checked", !.trusted = isTrusted]
  <2>1. conns' = [conns EXCEPT ![i] = c] /\ tasks' = tasks BY <1>3 DEF PostHandshake
  <2>2. conns[i] \in Conns /\ Named(conns[i]) BY DEF PeerInv, PeerTypes, Ids
  <2>3. isTrusted \in BOOLEAN OBVIOUS
  <2> HIDE DEF isTrusted
  <2>4. c \in Conns /\ c.at = "checked" /\ c.node = conns[i].node /\ c.flag = conns[i].flag
    BY <2>2, <2>3 DEF Conns, Stages
  <2> HIDE DEF c
  <2>5. SamePeer(i, c) BY <2>2, <2>4, <1>1 DEF SamePeer, Named, Live
  <2>6. UNCHANGED <<srvPeers, inboundCount, mainAt, schedVars>> /\ mainAt' \in 0..Len(conns)
    BY <1>1, <2>1 DEF mainVars, schedVars, PeerInv, PeerTypes
  <2> QED BY <2>1, <2>4, <2>5, <2>6, <1>1, PeerStep
<1> QED BY <1>2, <1>3

\* A handshake that fails closes the connection.
LEMMA HandshakeFailsHolds ==
  ASSUME PeerInv, NEW i \in Ids, HandshakeFails(i) PROVE PeerInv' BY SetupGone DEF HandshakeFails

\* A connection moves to another stage of the same kind.
LEMMA StageHolds ==
  ASSUME PeerInv, NEW i \in Ids, NEW stage \in Stages \ {"encrypted", "checked"}, conns[i].at # "gone",
         stage \in Live <=> conns[i].at \in Live, conns' = [conns EXCEPT ![i] = [@ EXCEPT !.at = stage]],
         UNCHANGED <<srvPeers, inboundCount, schedVars>>, mainAt' \in 0..Len(conns) PROVE PeerInv'
<1> DEFINE c == [conns[i] EXCEPT !.at = stage]
<1>1. conns[i] \in Conns /\ Named(conns[i]) BY DEF PeerInv, PeerTypes, Ids
<1>2. conns' = [conns EXCEPT ![i] = c] OBVIOUS
<1>3. c \in Conns /\ c.at = stage /\ c.node = conns[i].node /\ c.flag = conns[i].flag BY <1>1 DEF Conns
<1> HIDE DEF c
<1>4. SamePeer(i, c) BY <1>1, <1>3 DEF SamePeer, Named
<1> QED BY <1>2, <1>3, <1>4, PeerStep

\* The add event is sent and the peer runs.
LEMMA SendAddHolds ==
  ASSUME PeerInv, NEW i \in Ids, SendAdd(i) PROVE PeerInv'
<1>1. /\ conns[i].at = "launched" /\ conns' = [conns EXCEPT ![i] = [@ EXCEPT !.at = "running"]]
      /\ UNCHANGED <<srvPeers, inboundCount, mainAt, schedVars>>
  BY DEF SendAdd, mainVars
<1>2. mainAt' \in 0..Len(conns) BY <1>1 DEF PeerInv, PeerTypes
<1> QED BY <1>1, <1>2, StageHolds DEF Stages, Live

\* A peer ends by itself.
LEMMA PeerEndsHolds ==
  ASSUME PeerInv, NEW i \in Ids, PeerEnds(i) PROVE PeerInv'
  BY StageHolds DEF PeerEnds, mainVars, PeerInv, PeerTypes, Stages, Live

\* The drop event is sent, the last of a connection.
LEMMA SendDropHolds ==
  ASSUME PeerInv, NEW i \in Ids, SendDrop(i) PROVE PeerInv'
<1>1. /\ conns[i].at = "dropping" /\ conns' = [conns EXCEPT ![i] = Closed]
      /\ UNCHANGED <<srvPeers, inboundCount, mainAt, schedVars>>
  BY DEF SendDrop, mainVars
<1>2. mainAt' \in 0..Len(conns) BY <1>1 DEF PeerInv, PeerTypes
<1>3. SamePeer(i, Closed) /\ Closed.at = "gone" BY <1>1 DEF SamePeer, Closed, Conn, Conns, Stages, Live, Named
<1> QED BY <1>1, <1>2, <1>3, PeerStep

\* The peer takes the reason of the main loop.
LEMMA DisconnectedHolds ==
  ASSUME PeerInv, Disconnected PROVE PeerInv'
<1>1. PICK i \in Ids : i = mainAt BY DEF Disconnected, PeerInv, PeerTypes, Ids
<1>2. /\ conns[i].at \in {"running", "ended"} /\ conns' = [conns EXCEPT ![i] = [@ EXCEPT !.at = "ended"]]
      /\ mainAt' = 0 /\ UNCHANGED <<srvPeers, inboundCount, schedVars>>
  BY <1>1 DEF Disconnected
<1>3. mainAt' \in 0..Len(conns) BY <1>2 DEF PeerInv, PeerTypes
<1> QED BY <1>2, <1>3, StageHolds DEF Stages, Live

\* A node becomes trusted, or not, and its peer with it.
LEMMA SetTrustedHolds ==
  ASSUME PeerInv, NEW n \in Nodes, SetTrusted(n) PROVE PeerInv'
<1>1. UNCHANGED <<srvPeers, inboundCount, mainAt, schedVars>> /\ mainAt' \in 0..Len(conns)
  BY DEF SetTrusted, PeerInv, PeerTypes
<1>2. CASE srvPeers[n] # 0
  <2>1. PICK i \in Ids : i = srvPeers[n] BY <1>2 DEF PeerInv, Books, RunsOnce
  <2> DEFINE b == n \in trusted'
  <2>2. b \in BOOLEAN OBVIOUS
  <2>3. conns' = [conns EXCEPT ![i] = [@ EXCEPT !.trusted = b]] BY <1>2, <2>1 DEF SetTrusted
  <2> HIDE DEF b
  <2> DEFINE c == [conns[i] EXCEPT !.trusted = b]
  <2>4. conns' = [conns EXCEPT ![i] = c] BY <2>3
  <2>5. conns[i] \in Conns /\ Named(conns[i]) /\ conns[i].at \in Live
    BY <2>1, <1>2 DEF PeerInv, PeerTypes, Books, RunsOnce, Ids
  <2>6. c \in Conns /\ c.at = conns[i].at /\ c.node = conns[i].node /\ c.flag = conns[i].flag BY <2>2, <2>5 DEF Conns
  <2> HIDE DEF c
  <2>7. SamePeer(i, c) BY <2>5, <2>6 DEF SamePeer, Named
  <2> QED BY <1>1, <2>4, <2>6, <2>7, PeerStep
<1>3. CASE srvPeers[n] = 0
  BY <1>1, <1>3, BooksKept, DialsKept, PoolKept DEF SetTrusted, schedVars, PeerInv, PeerTypes, PoolTypes, Ids
<1> QED BY <1>2, <1>3

\* RemovePeer reads an event.
LEMMA ReadEventHolds ==
  ASSUME PeerInv, ReadEvent PROVE PeerInv'
<1>1. UNCHANGED <<conns, srvPeers, inboundCount, mainAt, static, staticPool, poolIndex, tasks, dialing, dialHistory, dsPeers, dialPeers>>
  BY DEF ReadEvent, mainVars, schedVars
<1>2. Books' /\ Dials' /\ Pool' BY <1>1, BooksKept, DialsKept, PoolKept DEF PeerInv
<1>3. PeerTypes' BY <1>1 DEF PeerInv, PeerTypes, PoolTypes, Ids
<1> QED BY <1>2, <1>3 DEF PeerInv

-----------------------------------------------------------------------------
(* The steps of the main loop that the scheduler hears of.                 *)

\* RemovePeer takes the node from the static ones and out of the pool.
LEMMA RemovePeerHolds ==
  ASSUME PeerInv, NEW n \in Nodes, RemovePeer(n) PROVE PeerInv'
  BY PoolLeft, BooksKept, DialsKept DEF RemovePeer, Dialable, InHistory, PeerInv, PeerTypes, Books, RunsOnce, Ids

\* One more peer, or one less, of those with some flags.
LEMMA CountMore ==
  ASSUME CountsSound, RunsOnce, NEW n \in Nodes, NEW f, n \notin Peers, Peers' = Peers \cup {n},
         \A flags : Flagged(flags)' = IF f \in flags THEN Flagged(flags) \cup {n} ELSE Flagged(flags),
         dsPeers' = dsPeers \cup {n},
         inboundCount' = IF f = "inbound" THEN inboundCount + 1 ELSE inboundCount,
         dialPeers' = IF Dialed(f) THEN dialPeers + 1 ELSE dialPeers PROVE CountsSound'
  BY FS_Subset, FS_AddElement DEF Flagged, Peers, CountsSound, Dialed

\* The counts when a peer leaves.
LEMMA CountLess ==
  ASSUME CountsSound, RunsOnce, NEW n \in Nodes, NEW f, n \in Peers, Peers' = Peers \ {n},
         \A flags : (n \in Flagged(flags) <=> f \in flags) /\ Flagged(flags)' = Flagged(flags) \ {n},
         dsPeers' = dsPeers \ {n},
         inboundCount' = IF f = "inbound" THEN inboundCount - 1 ELSE inboundCount,
         dialPeers' = IF Dialed(f) THEN dialPeers - 1 ELSE dialPeers PROVE CountsSound'
<1>1. \A flags : Flagged(flags) \subseteq Peers BY DEF Flagged, Peers
<1>2. \A flags : IsFiniteSet(Flagged(flags)) BY <1>1, FS_Subset DEF CountsSound
<1>3. \A flags : f \in flags => Cardinality(Flagged(flags) \ {n}) = Cardinality(Flagged(flags)) - 1
  BY <1>2, FS_RemoveElement
<1>4. \A flags : f \notin flags => Flagged(flags)' = Flagged(flags) OBVIOUS
<1>5. IsFiniteSet(Peers') BY FS_Subset DEF CountsSound
<1>6. inboundCount' = Cardinality(Flagged({"inbound"})') BY <1>3, <1>4 DEF CountsSound
<1>7. dialPeers' = Cardinality(Flagged({"dyn", "static"})') BY <1>3, <1>4 DEF CountsSound, Dialed
<1> QED BY <1>5, <1>6, <1>7 DEF CountsSound

\* The second checkpoint: the node had no peer, so the connection is its only one and the counts grow by it.
LEMMA AddPeerHolds ==
  ASSUME PeerInv, NEW i \in Ids, AddPeer(i) PROVE PeerInv'
<1>1. /\ conns[i].at = "checked" /\ tasks' = Returned(i)
      /\ UNCHANGED <<static, dialing, dialHistory, mainAt>>
  BY DEF AddPeer, mainVars
<1>2. CASE RefusedNow(conns[i])
  BY <1>2, <1>1, SetupGone DEF AddPeer, KeepPool
<1>3. CASE ~RefusedNow(conns[i])
  <2>1. conns \in Seq(Conns) /\ conns[i] \in Conns /\ Named(conns[i]) /\ Ids = 1..Len(conns)
    BY DEF PeerInv, PeerTypes, Ids
  <2>2. PICK n \in Nodes : n = conns[i].node BY <2>1, <1>1 DEF Named
  <2>3. PICK f : f = conns[i].flag OBVIOUS
  <2> DEFINE c == [conns[i] EXCEPT !.at = "launched"]
  <2>4. /\ conns' = [conns EXCEPT ![i] = c]
        /\ srvPeers' = [srvPeers EXCEPT ![n] = i] /\ srvPeers[n] = 0
        /\ inboundCount' = (IF f = "inbound" THEN inboundCount + 1 ELSE inboundCount)
        /\ dsPeers' = dsPeers \cup {n}
        /\ dialPeers' = (IF Dialed(f) THEN dialPeers + 1 ELSE dialPeers)
        /\ LeavePool(n)
    BY <1>3, <2>2, <2>3 DEF AddPeer, RefusedNow, Refused
  <2>5. c \in Conns /\ c.at = "launched" /\ c.node = n /\ c.flag = f /\ f # "none"
    BY <2>1, <2>2, <2>3, <1>1 DEF Conns, Stages, Named
  <2> HIDE DEF c
  <2>6. /\ conns' \in Seq(Conns) /\ Len(conns') = Len(conns) /\ Ids' = Ids
        /\ conns'[i] = c /\ \A j \in Ids : j # i => conns'[j] = conns[j]
    BY <2>1, <2>4, <2>5, ConnSet
  <2>7. /\ srvPeers \in [Nodes -> Nat] /\ srvPeers' \in [Nodes -> Nat] /\ srvPeers'[n] = i
        /\ i \in Nat \ {0} /\ \A m \in Nodes : m # n => srvPeers'[m] = srvPeers[m]
    BY <2>1, <2>4 DEF PeerInv, PeerTypes
  <2>8. \A m \in Nodes : srvPeers[m] # 0 => srvPeers[m] \in Ids /\ srvPeers[m] # i /\ conns'[srvPeers[m]] = conns[srvPeers[m]]
    BY <2>6, <1>1 DEF PeerInv, Books, RunsOnce, Live
  <2>9. RunsOnce'
    <3>1. ASSUME NEW j \in Ids, conns'[j].at \in Live PROVE srvPeers'[conns'[j].node] = j
      <4>1. CASE j = i BY <4>1, <2>5, <2>6, <2>7
      <4>2. CASE j # i
        BY <4>2, <3>1, <2>1, <2>6, <2>4, <2>7 DEF PeerInv, PeerTypes, Books, RunsOnce, Live, Named
      <4> QED BY <4>1, <4>2
    <3>2. ASSUME NEW m \in Nodes, srvPeers'[m] # 0
          PROVE  srvPeers'[m] \in Ids /\ conns'[srvPeers'[m]].node = m /\ conns'[srvPeers'[m]].at \in Live
      <4>1. CASE m = n BY <4>1, <2>5, <2>6, <2>7 DEF Live
      <4>2. CASE m # n
        BY <4>2, <3>2, <2>7, <2>8 DEF PeerInv, Books, RunsOnce
      <4> QED BY <4>1, <4>2
    <3> QED BY <3>1, <3>2, <2>6 DEF RunsOnce
  <2>10. CountsSound'
    BY <2>4, <2>7, <2>8, <2>5, <2>6, CountMore DEF Peers, Flagged, PeerInv, Books
  <2>11. tasks' \subseteq Tasks /\ Dials' BY <2>5, <2>6, <1>1, SetupEnds DEF PeerInv
  <2>12. PoolTypes' /\ Pool'
    BY <2>4, <1>1, PoolLeft DEF Dialable, InHistory, PeerInv, PeerTypes
  <2>13. \A j \in Ids' : Named(conns'[j]) BY <2>5, <2>6 DEF Named, PeerInv, PeerTypes
  <2>14. PeerTypes' BY <2>6, <2>7, <2>11, <2>12, <2>13, <1>1 DEF PeerInv, PeerTypes
  <2> QED BY <2>9, <2>10, <2>11, <2>12, <2>14 DEF PeerInv, Books
<1> QED BY <1>2, <1>3

\* A connection that ended is the one in peers, so deleting the node deletes it and the counts shrink by it.
LEMMA DelPeerHolds ==
  ASSUME PeerInv, NEW i \in Ids, DelPeer(i) PROVE PeerInv'
<1>1. conns \in Seq(Conns) /\ conns[i] \in Conns /\ Named(conns[i]) /\ Ids = 1..Len(conns) /\ conns[i].at = "ended"
  BY DEF PeerInv, PeerTypes, Ids, DelPeer
<1>2. PICK n \in Nodes : n = conns[i].node BY <1>1 DEF Named
<1>3. PICK f : f = conns[i].flag OBVIOUS
<1> DEFINE c == [conns[i] EXCEPT !.at = "dropping"]
<1>4. /\ conns' = [conns EXCEPT ![i] = c]
      /\ srvPeers' = [srvPeers EXCEPT ![n] = 0]
      /\ inboundCount' = (IF f = "inbound" THEN inboundCount - 1 ELSE inboundCount)
      /\ dsPeers' = dsPeers \ {n}
      /\ dialPeers' = (IF Dialed(f) THEN dialPeers - 1 ELSE dialPeers)
      /\ UNCHANGED <<static, dialing, dialHistory, tasks, mainAt>> /\ UpdateStaticPool(n)
  BY <1>2, <1>3 DEF DelPeer
<1>5. c \in Conns /\ c.at = "dropping" /\ c.node = n /\ c.flag = f /\ f # "none"
  BY <1>1, <1>2, <1>3 DEF Conns, Stages, Named
<1> HIDE DEF c
<1>6. /\ conns' \in Seq(Conns) /\ Len(conns') = Len(conns) /\ Ids' = Ids
      /\ conns'[i] = c /\ \A j \in Ids : j # i => conns'[j] = conns[j]
  BY <1>1, <1>4, <1>5, ConnSet
<1>7. /\ srvPeers \in [Nodes -> Nat] /\ srvPeers' \in [Nodes -> Nat] /\ srvPeers'[n] = 0 /\ srvPeers[n] = i /\ i # 0
      /\ \A m \in Nodes : m # n => srvPeers'[m] = srvPeers[m]
  BY <1>1, <1>2, <1>4 DEF PeerInv, PeerTypes, Books, RunsOnce, Live
<1>8. \A m \in Nodes : m # n /\ srvPeers[m] # 0 => srvPeers[m] \in Ids /\ conns'[srvPeers[m]] = conns[srvPeers[m]]
  BY <1>2, <1>6 DEF PeerInv, Books, RunsOnce
<1>9. RunsOnce'
  <2>1. ASSUME NEW j \in Ids, conns'[j].at \in Live PROVE srvPeers'[conns'[j].node] = j
    <3>1. j # i BY <2>1, <1>5, <1>6 DEF Live
    <3>2. conns'[j] = conns[j] /\ conns[j].node \in Nodes /\ srvPeers[conns[j].node] = j
      BY <3>1, <2>1, <1>6 DEF PeerInv, PeerTypes, Books, RunsOnce, Live, Named
    <3> QED BY <3>1, <3>2, <1>7
  <2>2. ASSUME NEW m \in Nodes, srvPeers'[m] # 0
        PROVE  srvPeers'[m] \in Ids /\ conns'[srvPeers'[m]].node = m /\ conns'[srvPeers'[m]].at \in Live
    BY <2>2, <1>7, <1>8 DEF PeerInv, Books, RunsOnce
  <2> QED BY <2>1, <2>2, <1>6 DEF RunsOnce
<1>10. CountsSound'
  BY <1>7, <1>8, <1>3, <1>4, CountLess DEF Peers, Flagged, PeerInv, Books
<1>11. Dials'
  BY <1>5, <1>6, <1>4, DialsHold DEF InSetup, PeerInv
<1>12. PoolTypes' /\ Pool'
  BY <1>7, <1>4, PoolUpdated DEF PeerInv, Books, CountsSound, Peers, Dialable, InHistory, PeerTypes
<1>13. \A j \in Ids' : Named(conns'[j]) BY <1>5, <1>6 DEF Named, PeerInv, PeerTypes
<1>14. PeerTypes' BY <1>4, <1>6, <1>7, <1>12, <1>13 DEF PeerInv, PeerTypes
<1> QED BY <1>9, <1>10, <1>11, <1>12, <1>14 DEF PeerInv, Books

-----------------------------------------------------------------------------
\* The invariant depends on these variables only.
LEMMA PeerStutterHolds ==
  ASSUME PeerInv, UNCHANGED peerVars PROVE PeerInv'
<1>1. UNCHANGED <<conns, srvPeers, inboundCount, mainAt, static, staticPool, poolIndex, tasks, dialing, dialHistory, dsPeers, dialPeers>>
  BY DEF peerVars, mainVars, schedVars
<1>2. Books' /\ Dials' /\ Pool' BY <1>1, BooksKept, DialsKept, PoolKept DEF PeerInv
<1>3. PeerTypes' BY <1>1 DEF PeerInv, PeerTypes, PoolTypes, Ids
<1> QED BY <1>2, <1>3 DEF PeerInv

\* Every step preserves the invariant.
LEMMA PeerStepHolds == PeerInv /\ [PeerNext]_peerVars => PeerInv'
<1> SUFFICES ASSUME PeerInv, [PeerNext]_peerVars PROVE PeerInv' OBVIOUS
<1>1. CASE StartStatic \/ ExpireHistory \/ Disconnected \/ ReadEvent
  BY <1>1, StartStaticHolds, ExpireHistoryHolds, DisconnectedHolds, ReadEventHolds
<1>2. ASSUME NEW n \in Nodes, Candidate(n) \/ AddStatic(n) \/ Inbound(n) \/ SetTrusted(n) \/ RemovePeer(n) PROVE PeerInv'
  BY <1>2, CandidateHolds, AddStaticHolds, InboundHolds, SetTrustedHolds, RemovePeerHolds
<1>3. ASSUME NEW task \in tasks, DialDone(task) \/ Connect(task) PROVE PeerInv' BY <1>3, DialDoneHolds, ConnectHolds
<1>4. ASSUME NEW i \in Ids, \/ PostHandshake(i) \/ HandshakeFails(i) \/ AddPeer(i) \/ DelPeer(i)
                            \/ SendAdd(i) \/ PeerEnds(i) \/ SendDrop(i)
      PROVE  PeerInv'
  BY <1>4, PostHandshakeHolds, HandshakeFailsHolds, AddPeerHolds, DelPeerHolds, SendAddHolds, PeerEndsHolds,
   SendDropHolds
<1>5. CASE UNCHANGED peerVars BY <1>5, PeerStutterHolds
<1> QED BY <1>1, <1>2, <1>3, <1>4, <1>5 DEF PeerNext

\* The invariant says more than the property.
LEMMA PeerInvSound == PeerInv => PeersSound
<1> SUFFICES ASSUME PeerInv PROVE PeersSound OBVIOUS
<1>1. ASSUME NEW n \in Nodes PROVE {i \in Ids : conns[i].node = n /\ conns[i].at \in Live} = {srvPeers[n]} \ {0}
  BY DEF PeerInv, PeerTypes, Ids, Books, RunsOnce
<1>2. PeersCounted BY <1>1 DEF PeersCounted, PeerInv, Books, CountsSound, Peers, Flagged
<1>3. DialsTracked BY DEF DialsTracked, PeerInv, PeerTypes, PoolTypes, Dials, TasksSound, Pool, PoolSound, DialableKnown
<1> QED BY <1>2, <1>3 DEF PeersSound

\* Whatever is dialed, accepted, removed and trusted in whatever order, a node has at most one
\* connection that runs, slots are counted exactly in the main loop and in the scheduler,
\* and a static node waits in the pool exactly if it may be dialed.
THEOREM PeersAreSound == PeerSpec => []PeersSound
<1>1. PeerSpec => []PeerInv BY PeerInitHolds, PeerStepHolds, PTL DEF PeerSpec
<1> QED BY <1>1, PeerInvSound, PTL

-----------------------------------------------------------------------------
(* Announced blocks: one fetch of each, and the timers for it.             *)

Notes == [peer : Announcers, number : Int, note : Nat]
Held == [peer : Announcers \cup {NoAnnouncer}, number : Int]
HeldMaps == {map \in [BlockIds -> Held] : \A b \in BlockIds : map[b].peer = NoAnnouncer => map[b] = NoNote}
Imports == [block : BlockIds, peer : Announcers \cup {NoAnnouncer}, at : {"run", "done"}]
Requests == [what : {"header", "body"}, peer : Announcers, blocks : SUBSET BlockIds]

\* The types of what is announced and fetched, and of what is queued and asked for; the header
\* of one block is asked for at a time.
FetchTypes ==
  /\ announces \in [Announcers -> Nat] /\ notes \in Nat
  /\ announced \in [BlockIds -> SUBSET Notes]
  /\ fetching \in HeldMaps /\ fetched \in HeldMaps /\ completing \in HeldMaps
  /\ headerTimer \in BOOLEAN /\ bodyTimer \in BOOLEAN
QueueTypes ==
  /\ queues \in [Announcers -> Int] /\ queued \in [BlockIds -> Announcers \cup {NoAnnouncer}]
  /\ waiting \subseteq BlockIds /\ importing \subseteq Imports /\ asked \subseteq Requests
  /\ \A r \in asked : r.what = "header" => \E b \in BlockIds : r.blocks = {b}

\* No two notes are the same, so that counting them counts the traces.
NotesApart ==
  \A b \in BlockIds :
    /\ IsFiniteSet(announced[b])
    /\ \A x \in announced[b] : x.note < notes
    /\ \A c \in BlockIds \ {b} : announced[b] \cap announced[c] = {}

\* The inductive invariant, in the parts that depend on different variables.
TimersSet ==
  /\ (\E b \in BlockIds : announced[b] # {}) => headerTimer
  /\ Some(fetched) # {} => bodyTimer
Counted == \A p \in Announcers : announces[p] <= Traces(BlockIds, p)
FetchSide == FetchTypes /\ NotesApart /\ TimersSet /\ Counted
QueueSide == QueueTypes /\ QueuedOnce
BlockInv == FetchSide /\ QueueSide

-----------------------------------------------------------------------------
(* Counting.                                                               *)

\* The blocks are finite many.
LEMMA BlocksFinite == IsFiniteSet(BlockIds) /\ BlockIds \subseteq Nat
  BY FS_Interval, BlockFetcherAssumption DEF BlockIds

\* Two sets that share nothing are counted together.
LEMMA CountApart ==
  ASSUME NEW S, NEW T, IsFiniteSet(S), IsFiniteSet(T), S \cap T = {}
  PROVE  /\ IsFiniteSet(S \cup T) /\ Cardinality(S) \in Nat /\ Cardinality(T) \in Nat
         /\ Cardinality(S \cup T) = Cardinality(S) + Cardinality(T)
  BY FS_Union, FS_EmptySet, FS_CardinalityType

\* The entries of a map that name a peer, of some blocks and of the others.
LEMMA HeldSplits ==
  ASSUME NEW map, NEW B, B \subseteq BlockIds, NEW p
  PROVE  /\ HeldOf(map, B, p) \in Nat /\ HeldOf(map, BlockIds, p) \in Nat /\ HeldOf(map, BlockIds \ B, p) \in Nat
         /\ HeldOf(map, BlockIds, p) = HeldOf(map, B, p) + HeldOf(map, BlockIds \ B, p)
<1> DEFINE S == {b \in B : map[b].peer = p}
           T == {b \in BlockIds \ B : map[b].peer = p}
<1>1. IsFiniteSet(S) /\ IsFiniteSet(T) /\ S \cap T = {} BY BlocksFinite, FS_Subset
<1>2. {b \in BlockIds : map[b].peer = p} = S \cup T OBVIOUS
<1>3. /\ Cardinality(S) \in Nat /\ Cardinality(T) \in Nat
      /\ Cardinality(S \cup T) = Cardinality(S) + Cardinality(T)
  <2> HIDE DEF S, T
  <2> QED BY <1>1, CountApart
<1>4. HeldOf(map, B, p) = Cardinality(S) /\ HeldOf(map, BlockIds \ B, p) = Cardinality(T) BY DEF HeldOf
<1>5. HeldOf(map, BlockIds, p) = Cardinality(S \cup T) BY <1>2 DEF HeldOf
<1> HIDE DEF S, T
<1> QED BY <1>3, <1>4, <1>5

\* The notes of all blocks are finite many.
LEMMA NotesFinite ==
  ASSUME FetchTypes, NotesApart, NEW B, B \subseteq BlockIds, NEW p
  PROVE  IsFiniteSet({x \in UNION {announced[b] : b \in B} : x.peer = p})
<1>1. IsFiniteSet(B) BY BlocksFinite, FS_Subset
<1>2. IsFiniteSet({announced[b] : b \in B})
  <2> DEFINE T == {announced[b] : b \in B}
             g == [b \in B |-> announced[b]]
  <2>1. g \in Surjection(B, T) BY DEF Surjection
  <2> HIDE DEF T, g
  <2>2. IsFiniteSet(T) BY <1>1, <2>1, FS_Surjection
  <2> QED BY <2>2 DEF T
<1>3. \A T \in {announced[b] : b \in B} : IsFiniteSet(T) BY DEF NotesApart
<1>4. IsFiniteSet(UNION {announced[b] : b \in B}) BY <1>2, <1>3, FS_UNION
<1> QED BY <1>4, FS_Subset

\* The notes that name a peer, of some blocks and of the others.
LEMMA NotesSplit ==
  ASSUME FetchTypes, NotesApart, NEW B, B \subseteq BlockIds, NEW p
  PROVE  /\ NotesOf(B, p) \in Nat /\ NotesOf(BlockIds, p) \in Nat /\ NotesOf(BlockIds \ B, p) \in Nat
         /\ NotesOf(BlockIds, p) = NotesOf(B, p) + NotesOf(BlockIds \ B, p)
<1> DEFINE S == {x \in UNION {announced[b] : b \in B} : x.peer = p}
           T == {x \in UNION {announced[b] : b \in BlockIds \ B} : x.peer = p}
<1>1. IsFiniteSet(S) /\ IsFiniteSet(T) BY NotesFinite, BlockIds \ B \subseteq BlockIds
<1>2. S \cap T = {} BY DEF NotesApart
<1>3. {x \in UNION {announced[b] : b \in BlockIds} : x.peer = p} = S \cup T OBVIOUS
<1>4. /\ Cardinality(S) \in Nat /\ Cardinality(T) \in Nat
      /\ Cardinality(S \cup T) = Cardinality(S) + Cardinality(T)
  <2> HIDE DEF S, T
  <2> QED BY <1>1, <1>2, CountApart
<1>5. NotesOf(B, p) = Cardinality(S) /\ NotesOf(BlockIds \ B, p) = Cardinality(T) BY DEF NotesOf
<1>6. NotesOf(BlockIds, p) = Cardinality(S \cup T) BY <1>3 DEF NotesOf
<1> HIDE DEF S, T
<1> QED BY <1>4, <1>5, <1>6

\* The traces of a peer, of some blocks and of the others.
TracesAdd(B, p) ==
  /\ Traces(B, p) \in Nat /\ Traces(BlockIds, p) \in Nat /\ Traces(BlockIds \ B, p) \in Nat
  /\ Traces(BlockIds, p) = Traces(B, p) + Traces(BlockIds \ B, p)
AllAdd == \A B \in SUBSET BlockIds, p \in Announcers : TracesAdd(B, p)
LEMMA TracesSplit == FetchTypes /\ NotesApart => AllAdd
<1> SUFFICES ASSUME FetchTypes, NotesApart, NEW B \in SUBSET BlockIds, NEW p \in Announcers PROVE TracesAdd(B, p)
  BY DEF AllAdd
<1>1. /\ NotesOf(B, p) \in Nat /\ NotesOf(BlockIds, p) \in Nat /\ NotesOf(BlockIds \ B, p) \in Nat
      /\ NotesOf(BlockIds, p) = NotesOf(B, p) + NotesOf(BlockIds \ B, p)
  BY NotesSplit
<1>2. ASSUME NEW map
      PROVE  /\ HeldOf(map, B, p) \in Nat /\ HeldOf(map, BlockIds, p) \in Nat /\ HeldOf(map, BlockIds \ B, p) \in Nat
             /\ HeldOf(map, BlockIds, p) = HeldOf(map, B, p) + HeldOf(map, BlockIds \ B, p)
  BY HeldSplits
<1> QED BY <1>1, <1>2 DEF Traces, TracesAdd

\* What is counted down is the traces that go: as many stay as are counted.
LEMMA UncountedSound ==
  ASSUME FetchTypes, NotesApart, Counted, NEW B, B \subseteq BlockIds
  PROVE  /\ Uncounted(B) \in [Announcers -> Nat]
         /\ \A p \in Announcers : Uncounted(B)[p] <= Traces(BlockIds \ B, p)
<1>1. ASSUME NEW p \in Announcers
      PROVE  /\ Traces(B, p) \in Nat /\ Traces(BlockIds, p) \in Nat /\ Traces(BlockIds \ B, p) \in Nat
             /\ Traces(BlockIds, p) = Traces(B, p) + Traces(BlockIds \ B, p)
             /\ announces[p] \in Nat /\ announces[p] <= Traces(BlockIds, p)
  BY TracesSplit DEF Counted, FetchTypes, TracesAdd, AllAdd
<1>2. ASSUME NEW p \in Announcers PROVE Uncounted(B)[p] \in Nat /\ Uncounted(B)[p] <= Traces(BlockIds \ B, p)
  <2> DEFINE n == Traces(B, p)
             k == announces[p]
             m == Traces(BlockIds \ B, p)
  <2>1. Uncounted(B)[p] = IF k > n THEN k - n ELSE 0 BY DEF Uncounted
  <2>2. n \in Nat /\ k \in Nat /\ m \in Nat /\ k <= n + m BY <1>1
  <2> HIDE DEF n, k, m
  <2>3. Uncounted(B)[p] \in Nat /\ Uncounted(B)[p] <= m BY <2>1, <2>2
  <2> QED BY <2>3 DEF m
<1>3. Uncounted(B) = [p \in Announcers |-> Uncounted(B)[p]] BY DEF Uncounted
<1> QED BY <1>2, <1>3

\* The traces of other blocks are what they were.
LEMMA TracesKept ==
  ASSUME NEW B, NEW p,
         \A b \in B : announced'[b] = announced[b] /\ fetching'[b] = fetching[b]
                      /\ fetched'[b] = fetched[b] /\ completing'[b] = completing[b]
  PROVE  Traces(B, p)' = Traces(B, p)
<1>1. {announced'[b] : b \in B} = {announced[b] : b \in B} OBVIOUS
<1>2. NotesOf(B, p)' = NotesOf(B, p) BY <1>1 DEF NotesOf
<1>3. /\ {b \in B : fetching'[b].peer = p} = {b \in B : fetching[b].peer = p}
      /\ {b \in B : fetched'[b].peer = p} = {b \in B : fetched[b].peer = p}
      /\ {b \in B : completing'[b].peer = p} = {b \in B : completing[b].peer = p}
  OBVIOUS
<1> QED BY <1>2, <1>3 DEF Traces, HeldOf

\* When the traces of some blocks go, are counted down, and other traces of them come, the counts stay sound.
LEMMA CountsHold ==
  ASSUME FetchTypes, NotesApart, Counted, FetchTypes', NotesApart', NEW B, B \subseteq BlockIds,
         \A p \in Announcers : announces'[p] <= Uncounted(B)[p],
         \A b \in BlockIds \ B : announced'[b] = announced[b] /\ fetching'[b] = fetching[b]
                      /\ fetched'[b] = fetched[b] /\ completing'[b] = completing[b]
  PROVE  Counted'
<1> SUFFICES ASSUME NEW p \in Announcers PROVE announces'[p] <= Traces(BlockIds, p)' BY DEF Counted
<1>1. TracesAdd(B, p) BY TracesSplit DEF AllAdd
<1>2. TracesAdd(B, p)'
  <2>1. (FetchTypes /\ NotesApart)' OBVIOUS
  <2>2. AllAdd' BY <2>1, TracesSplit, PTL
  <2> QED BY <2>2 DEF AllAdd
<1>3. Traces(BlockIds \ B, p)' = Traces(BlockIds \ B, p) BY TracesKept
<1>4. Uncounted(B)[p] \in Nat /\ Uncounted(B)[p] <= Traces(BlockIds \ B, p) BY UncountedSound
<1>5. announces'[p] \in Nat /\ announces'[p] <= Uncounted(B)[p] BY DEF FetchTypes
<1> QED BY <1>1, <1>2, <1>3, <1>4, <1>5 DEF TracesAdd

-----------------------------------------------------------------------------
(* Forgetting and queueing.                                                *)

\* A map without some entries is a map.
LEMMA WithoutSound ==
  ASSUME NEW map \in HeldMaps, NEW B
  PROVE  /\ Without(map, B) \in HeldMaps
         /\ \A b \in BlockIds : Without(map, B)[b] = IF b \in B THEN NoNote ELSE map[b]
<1>1. NoNote \in Held BY DEF NoNote, Held
<1>2. \A b \in BlockIds : Without(map, B)[b] = IF b \in B THEN NoNote ELSE map[b] BY DEF Without
<1>3. Without(map, B) \in [BlockIds -> Held] BY <1>1 DEF Without, HeldMaps
<1> QED BY <1>2, <1>3 DEF HeldMaps

\* An entry with a peer is an entry.
LEMMA HeldBy ==
  ASSUME NEW map \in HeldMaps, NEW b \in BlockIds
  PROVE  /\ map[b] \in Held
         /\ map[b] = NoNote <=> map[b].peer = NoAnnouncer
         /\ map[b] # NoNote => map[b].peer \in Announcers
  BY DEF HeldMaps, Held, NoNote

\* A block that is forgotten leaves no trace and is not counted.
LEMMA ForgetHolds ==
  ASSUME FetchSide, NEW B, B \subseteq BlockIds, Forget(B), UNCHANGED <<headerTimer, bodyTimer, notes>> PROVE FetchSide'
<1>1. FetchTypes /\ NotesApart /\ Counted /\ TimersSet BY DEF FetchSide
<1>2. Uncounted(B) \in [Announcers -> Nat] BY <1>1, UncountedSound
<1>3. FetchTypes' BY <1>1, <1>2, WithoutSound DEF FetchTypes, Forget
<1>4. \A b \in BlockIds : announced'[b] = IF b \in B THEN {} ELSE announced[b] BY DEF Forget
<1>5. \A b \in BlockIds : fetched'[b] = (IF b \in B THEN NoNote ELSE fetched[b])
        /\ fetching'[b] = (IF b \in B THEN NoNote ELSE fetching[b])
        /\ completing'[b] = (IF b \in B THEN NoNote ELSE completing[b])
  BY <1>1, WithoutSound DEF Forget, FetchTypes
<1>6. NotesApart' BY <1>1, <1>4, FS_EmptySet DEF NotesApart
<1>7. TimersSet' BY <1>1, <1>4, <1>5 DEF TimersSet, Some
<1>8. Counted'
  <2>1. \A p \in Announcers : announces'[p] <= Uncounted(B)[p] BY <1>2 DEF Forget
  <2> QED BY <1>1, <1>3, <1>4, <1>5, <1>6, <2>1, CountsHold
<1> QED BY <1>3, <1>6, <1>7, <1>8 DEF FetchSide

\* The blocks of a peer that are queued.
QueuedBy(p) == {b \in BlockIds : queued[b] = p}

\* Blocks that leave the queue are given back to their peers.
LEMMA UnqueueCounts ==
  ASSUME QueueSide, NEW B, B \subseteq BlockIds, Unqueue(B)
  PROVE  /\ queues' \in [Announcers -> Int] /\ queued' \in [BlockIds -> Announcers \cup {NoAnnouncer}]
         /\ \A b \in BlockIds : queued'[b] = IF b \in B THEN NoAnnouncer ELSE queued[b]
         /\ \A p \in Announcers : queues'[p] = Cardinality({b \in BlockIds : queued'[b] = p})
<1>1. \A b \in BlockIds : queued'[b] = IF b \in B THEN NoAnnouncer ELSE queued[b] BY DEF Unqueue
<1>2. ASSUME NEW p \in Announcers
      PROVE  queues'[p] \in Int /\ queues'[p] = Cardinality({b \in BlockIds : queued'[b] = p})
  <2> DEFINE S == {b \in B : queued[b] = p}
             T == {b \in BlockIds : queued'[b] = p}
  <2>1. IsFiniteSet(S) /\ IsFiniteSet(T) BY BlocksFinite, FS_Subset
  <2>2. S \cap T = {} /\ QueuedBy(p) = S \cup T BY <1>1, BlockFetcherAssumption DEF QueuedBy
  <2>3. queues'[p] = queues[p] - Cardinality(S) /\ queues[p] = Cardinality(QueuedBy(p))
    BY DEF Unqueue, QueueSide, QueuedOnce, QueuedBy
  <2> HIDE DEF S, T
  <2>4. /\ Cardinality(S) \in Nat /\ Cardinality(T) \in Nat
        /\ Cardinality(S \cup T) = Cardinality(S) + Cardinality(T)
    BY <2>1, <2>2, CountApart
  <2>5. queues'[p] = Cardinality(T) /\ queues'[p] \in Int BY <2>2, <2>3, <2>4
  <2> QED BY <2>5 DEF T
<1>3. queues' \in [Announcers -> Int] BY <1>2 DEF Unqueue
<1>4. queued' \in [BlockIds -> Announcers \cup {NoAnnouncer}] BY DEF Unqueue, QueueSide, QueueTypes
<1> QED BY <1>1, <1>2, <1>3, <1>4

\* Blocks that are not queued join the queue, on the account of their peer.
LEMMA EnqueueHolds ==
  ASSUME QueueSide, NEW Q, Q \subseteq BlockIds, NEW p \in Announcers, \A b \in Q : queued[b] = NoAnnouncer,
         Enqueue(Q, p), importing' = importing, asked' \subseteq asked PROVE QueueSide'
<1>1. \A b \in BlockIds : queued'[b] = IF b \in Q THEN p ELSE queued[b] BY DEF Enqueue
<1>2. QueueTypes /\ QueuedOnce BY DEF QueueSide
<1>3. waiting' = waiting \cup Q /\ queued' \in [BlockIds -> Announcers \cup {NoAnnouncer}]
  BY <1>2 DEF Enqueue, QueueTypes
<1>4. ASSUME NEW q \in Announcers
      PROVE  queues'[q] \in Int /\ queues'[q] = Cardinality({b \in BlockIds : queued'[b] = q})
  <2> DEFINE T == {b \in BlockIds : queued'[b] = q}
  <2>1. queues[q] = Cardinality(QueuedBy(q)) /\ IsFiniteSet(QueuedBy(q)) /\ IsFiniteSet(Q)
    BY <1>2, BlocksFinite, FS_Subset DEF QueuedOnce, QueuedBy
  <2>2. CASE q = p
    <3>1. T = QueuedBy(q) \cup Q /\ QueuedBy(q) \cap Q = {} BY <1>1, <2>2, BlockFetcherAssumption DEF QueuedBy
    <3>2. queues'[q] = queues[q] + Cardinality(Q) BY <1>2, <2>2 DEF Enqueue, QueueTypes
    <3> HIDE DEF T
    <3>3. /\ Cardinality(QueuedBy(q)) \in Nat /\ Cardinality(Q) \in Nat
          /\ Cardinality(QueuedBy(q) \cup Q) = Cardinality(QueuedBy(q)) + Cardinality(Q)
      BY <2>1, <3>1, CountApart
    <3>4. queues'[q] = Cardinality(T) /\ queues'[q] \in Int BY <2>1, <3>1, <3>2, <3>3
    <3> QED BY <3>4 DEF T
  <2>3. CASE q # p
    <3>1. T = QueuedBy(q) BY <1>1, <2>3, BlockFetcherAssumption DEF QueuedBy
    <3>2. queues'[q] = queues[q] BY <1>2, <2>3 DEF Enqueue, QueueTypes
    <3> HIDE DEF T
    <3>3. queues'[q] = Cardinality(T) /\ queues'[q] \in Int BY <2>1, <3>1, <3>2, FS_CardinalityType
    <3> QED BY <3>3 DEF T
  <2> QED BY <2>2, <2>3
<1>5. queues' \in [Announcers -> Int]
  BY <1>2, <1>4 DEF Enqueue, QueueTypes
<1>6. QueueTypes' BY <1>2, <1>3, <1>5 DEF QueueTypes
<1>7. \A b \in Q : b \notin waiting /\ ~ \E x \in importing : x.block = b BY <1>2 DEF QueuedOnce
<1>8. QueuedOnce'
  BY <1>1, <1>2, <1>3, BlockFetcherAssumption, <1>7, <1>4 DEF QueuedOnce
<1> QED BY <1>6, <1>8 DEF QueueSide

\* The queue stays if nothing but an answer is gone.
LEMMA QueueKept ==
  ASSUME QueueSide, UNCHANGED <<queueMaps, importing>>, asked' \subseteq asked
  PROVE  QueueSide' BY DEF QueueSide, QueueTypes, QueuedOnce, queueMaps

\* What is fetched stays.
LEMMA FetchKept ==
  ASSUME FetchSide, UNCHANGED <<fetchMaps, headerTimer, bodyTimer, notes>> PROVE FetchSide'
<1>1. UNCHANGED <<announces, announced, fetching, fetched, completing, headerTimer, bodyTimer, notes>> BY DEF fetchMaps
<1>2. FetchTypes' /\ NotesApart' /\ TimersSet' BY <1>1 DEF FetchSide, FetchTypes, NotesApart, TimersSet, Some
<1>3. Counted' BY <1>1 DEF FetchSide, Counted, Traces, NotesOf, HeldOf
<1> QED BY <1>2, <1>3 DEF FetchSide

-----------------------------------------------------------------------------
(* The loop and the goroutines.                                            *)

\* Nothing is announced and nothing queued.
LEMMA BlockInitHolds ==
  ASSUME BlockFetcherInit PROVE BlockInv
<1>1. /\ fetching = [b \in BlockIds |-> NoNote] /\ fetched = fetching /\ completing = fetching
      /\ announced = [b \in BlockIds |-> {}] /\ announces = [p \in Announcers |-> 0] /\ notes = 0
      /\ headerTimer = FALSE /\ bodyTimer = FALSE
      /\ queues = [p \in Announcers |-> 0] /\ queued = [b \in BlockIds |-> NoAnnouncer]
      /\ waiting = {} /\ importing = {} /\ asked = {}
  BY DEF BlockFetcherInit
<1>2. NoNote \in Held /\ [b \in BlockIds |-> NoNote] \in HeldMaps BY DEF NoNote, Held, HeldMaps
<1>3. FetchTypes BY <1>1, <1>2 DEF FetchTypes
<1>4. NotesApart BY <1>1, FS_EmptySet DEF NotesApart
<1>5. TimersSet BY <1>1 DEF TimersSet, Some
<1>6. Counted BY <1>1, <1>3, <1>4, TracesSplit DEF Counted, AllAdd, TracesAdd
<1>7. QueueTypes BY <1>1 DEF QueueTypes
<1>8. QueuedOnce
  <2>1. ASSUME NEW p \in Announcers PROVE queues[p] = Cardinality({b \in BlockIds : queued[b] = p})
    BY <1>1, BlockFetcherAssumption, FS_EmptySet
  <2> QED BY <1>1, <2>1 DEF QueuedOnce
<1> QED BY <1>3, <1>4, <1>5, <1>6, <1>7, <1>8 DEF BlockInv, FetchSide, QueueSide

\* What fits the chain leaves the queue, to be imported or dropped.
LEMMA LoopTopHolds ==
  ASSUME BlockInv, LoopTop PROVE BlockInv'
<1> DEFINE fit == {b \in waiting : b <= imported + 1}
           fresh == {b \in fit : b + UncleDist >= imported /\ ~Have(b)}
           started == {[block |-> b, peer |-> queued[b], at |-> "run"] : b \in fresh}
<1>1. PICK late \in SUBSET Some(fetching) : Forget(late) BY DEF LoopTop
<1>2. FetchSide'
  BY <1>1, ForgetHolds DEF LoopTop, Some, BlockInv
<1>3. /\ waiting' = waiting \ fit /\ Unqueue(fit \ fresh)
      /\ importing' = importing \cup started /\ asked' = asked
  BY DEF LoopTop, ForgottenBlocks
<1>4. QueueTypes /\ QueuedOnce BY DEF BlockInv, QueueSide
<1>5. fit \subseteq waiting /\ fresh \subseteq fit /\ waiting \subseteq BlockIds BY <1>4 DEF QueueTypes
<1>6. /\ queues' \in [Announcers -> Int] /\ queued' \in [BlockIds -> Announcers \cup {NoAnnouncer}]
      /\ \A b \in BlockIds : queued'[b] = IF b \in fit \ fresh THEN NoAnnouncer ELSE queued[b]
      /\ \A p \in Announcers : queues'[p] = Cardinality({b \in BlockIds : queued'[b] = p})
  <2>1. QueueSide /\ fit \ fresh \subseteq BlockIds BY <1>5 DEF BlockInv
  <2> HIDE DEF fit, fresh
  <2> QED BY <1>3, <2>1, UnqueueCounts
<1>7. /\ \A x \in started : x \in Imports /\ x.block \in fresh
      /\ \A x, y \in started : x.block = y.block => x = y
      /\ \A b \in fresh : \E x \in started : x.block = b
  <2> DEFINE Start(b) == [block |-> b, peer |-> queued[b], at |-> "run"]
  <2>1. \A b \in fresh : Start(b) \in Imports /\ Start(b).block = b BY <1>4, <1>5 DEF Imports, QueueTypes
  <2>2. started = {Start(b) : b \in fresh} OBVIOUS
  <2> HIDE DEF started, fresh, Start
  <2>3. \A x \in started : \E b \in fresh : x = Start(b) BY <2>2
  <2>4. \A b \in fresh : Start(b) \in started BY <2>2
  <2> QED BY <2>1, <2>3, <2>4
<1> HIDE DEF fit, fresh, started
<1>8. QueueTypes' BY <1>3, <1>4, <1>5, <1>6, <1>7 DEF QueueTypes
<1>9. QueuedOnce'
  <2>1. \A x \in importing : x.block \notin waiting /\ x.block \in BlockIds BY <1>4 DEF QueuedOnce, QueueTypes, Imports
  <2>2. ASSUME NEW b \in BlockIds PROVE queued'[b] # NoAnnouncer <=> b \in waiting' \/ \E x \in importing' : x.block = b
    <3>1. queued[b] # NoAnnouncer <=> b \in waiting \/ \E x \in importing : x.block = b BY <1>4 DEF QueuedOnce
    <3>2. CASE b \in fit \ fresh BY <1>3, <1>5, <1>6, <1>7, <2>1, <3>2
    <3>3. CASE b \in fresh BY <1>3, <1>5, <1>6, <1>7, <2>1, <3>1, <3>3
    <3>4. CASE b \notin fit BY <1>3, <1>5, <1>6, <1>7, <2>1, <3>1, <3>4
    <3> QED BY <3>2, <3>3, <3>4
  <2>3. ASSUME NEW x \in importing' PROVE x.block \notin waiting' /\ \A y \in importing' : y.block = x.block => y = x
    BY <1>3, <1>4, <1>5, <1>7, <2>1 DEF QueuedOnce
  <2> QED BY <1>6, <2>2, <2>3 DEF QueuedOnce
<1> QED BY <1>2, <1>8, <1>9 DEF BlockInv, QueueSide

\* The goroutine of a block is still the one of its block when it is done.
LEMMA ImportRunsHolds ==
  ASSUME BlockInv, NEW x, ImportRuns(x) PROVE BlockInv'
<1>1. FetchSide' BY FetchKept DEF BlockInv, ImportRuns
<1>2. QueueTypes /\ QueuedOnce /\ x \in importing /\ UNCHANGED queueMaps /\ asked' = asked
  BY DEF BlockInv, QueueSide, ImportRuns
<1>3. PICK z : z = [x EXCEPT !.at = "done"] OBVIOUS
<1>4. z \in Imports /\ z.block = x.block BY <1>2, <1>3 DEF QueueTypes, Imports
<1>5. importing' = (importing \ {x}) \cup {z} BY <1>3 DEF ImportRuns
<1>6. QueueTypes' BY <1>2, <1>4, <1>5 DEF QueueTypes, queueMaps
<1>7. QueuedOnce'
  <2>1. \A b : (\E y \in importing : y.block = b) <=> (\E y \in importing' : y.block = b) BY <1>2, <1>4, <1>5
  <2>2. ASSUME NEW y \in importing' PROVE y.block \notin waiting' /\ \A w \in importing' : w.block = y.block => w = y
    BY <1>2, <1>4, <1>5 DEF QueuedOnce, queueMaps
  <2> QED BY <1>2, <2>1, <2>2 DEF QueuedOnce, queueMaps
<1> QED BY <1>1, <1>6, <1>7 DEF BlockInv, QueueSide

\* A block that is imported leaves no trace.
LEMMA ImportDoneHolds ==
  ASSUME BlockInv, NEW x, ImportDone(x) PROVE BlockInv'
<1>1. QueueTypes /\ QueuedOnce /\ x \in importing /\ importing' = importing \ {x}
      /\ waiting' = waiting /\ asked' = asked
  BY DEF BlockInv, QueueSide, ImportDone
<1>2. x \in Imports /\ x.block \in BlockIds BY <1>1 DEF QueueTypes, Imports
<1>3. PICK B : B = {x.block} OBVIOUS
<1>4. B \subseteq BlockIds /\ Forget(B) /\ Unqueue(B) BY <1>2, <1>3 DEF ImportDone
<1>5. FetchSide' BY <1>4, ForgetHolds DEF BlockInv, ImportDone
<1>6. /\ queues' \in [Announcers -> Int] /\ queued' \in [BlockIds -> Announcers \cup {NoAnnouncer}]
      /\ \A b \in BlockIds : queued'[b] = IF b \in B THEN NoAnnouncer ELSE queued[b]
      /\ \A p \in Announcers : queues'[p] = Cardinality({b \in BlockIds : queued'[b] = p})
  BY <1>4, UnqueueCounts DEF BlockInv
<1>7. QueueTypes' BY <1>1, <1>6 DEF QueueTypes
<1>8. QueuedOnce'
  <2>1. x.block \notin waiting /\ \A y \in importing : y.block = x.block => y = x BY <1>1 DEF QueuedOnce
  <2>2. ASSUME NEW b \in BlockIds PROVE queued'[b] # NoAnnouncer <=> b \in waiting' \/ \E y \in importing' : y.block = b
    BY <1>1, <1>3, <1>6, <2>1 DEF QueuedOnce
  <2>3. ASSUME NEW z \in importing'
        PROVE  z.block \notin waiting' /\ \A y \in importing' : y.block = z.block => y = z BY <1>1 DEF QueuedOnce
  <2> QED BY <1>6, <2>2, <2>3 DEF QueuedOnce
<1> QED BY <1>5, <1>7, <1>8 DEF BlockInv, QueueSide

\* Other imports and failed requests change nothing here.
LEMMA ElsewhereHolds ==
  ASSUME BlockInv, ImportedElsewhere
  PROVE  BlockInv' BY FetchKept, QueueKept DEF BlockInv, ImportedElsewhere

\* A request that fails is not waited for.
LEMMA FetchFailsHolds ==
  ASSUME BlockInv, NEW r, FetchFails(r) PROVE BlockInv'
<1>1. asked' \subseteq asked BY DEF FetchFails
<1> QED BY <1>1, FetchKept, QueueKept DEF BlockInv, FetchFails

-----------------------------------------------------------------------------
(* Announcements.                                                          *)

\* A note that is counted is new, and starts the timer if it is the first.
LEMMA NotifyHolds ==
  ASSUME BlockInv, NEW b \in BlockIds, NEW p \in Announcers, NEW number \in Int, Notify(b, p, number) PROVE BlockInv'
<1>1. QueueSide'
  BY QueueKept DEF Notify, BlockInv
<1>2. FetchTypes /\ NotesApart /\ TimersSet /\ Counted BY DEF BlockInv, FetchSide
<1>3. notes' = notes + 1 /\ UNCHANGED <<fetching, fetched, completing, bodyTimer>> BY DEF Notify
<1>4. CASE UNCHANGED <<announces, announced, headerTimer>>
  <2>1. FetchTypes' /\ TimersSet' BY <1>2, <1>3, <1>4 DEF FetchTypes, TimersSet, Some
  <2>2. NotesApart'
    <3>1. ASSUME NEW c \in BlockIds, NEW x \in announced[c] PROVE x.note < notes + 1
      BY <1>2 DEF NotesApart, FetchTypes, Notes
    <3> QED BY <1>2, <1>3, <1>4, <3>1 DEF NotesApart
  <2>3. Counted' BY <1>2, <1>3, <1>4 DEF Counted, Traces, NotesOf, HeldOf
  <2> QED BY <1>1, <2>1, <2>2, <2>3 DEF BlockInv, FetchSide
<1>5. CASE ~ UNCHANGED <<announces, announced, headerTimer>>
  <2>1. PICK x : x = [peer |-> p, number |-> number, note |-> notes] OBVIOUS
  <2>2. x \in Notes /\ x.peer = p /\ x.note = notes BY <1>2, <2>1 DEF Notes, FetchTypes
  <2>3. /\ announces' = [announces EXCEPT ![p] = @ + 1]
        /\ announced' = [announced EXCEPT ![b] = @ \cup {x}]
        /\ headerTimer' = (headerTimer \/ Cardinality({c \in BlockIds : announced'[c] # {}}) = 1)
    BY <1>5, <2>1 DEF Notify
  <2>4. \A c \in BlockIds : announced'[c] = IF c = b THEN announced[c] \cup {x} ELSE announced[c]
    BY <1>2, <2>3 DEF FetchTypes
  <2>5. FetchTypes' BY <1>2, <1>3, <2>2, <2>3 DEF FetchTypes
  <2>6. \A c \in BlockIds : x \notin announced[c] /\ \A y \in announced[c] : y.note < notes /\ y.note \in Nat
    BY <1>2, <2>2 DEF NotesApart, FetchTypes, Notes
  <2>7. NotesApart'
    <3>1. ASSUME NEW c \in BlockIds PROVE IsFiniteSet(announced'[c])
      <4>1. IsFiniteSet(announced[c]) /\ IsFiniteSet(announced[c] \cup {x}) BY <1>2, FS_AddElement DEF NotesApart
      <4> QED BY <2>4, <4>1
    <3>2. ASSUME NEW c \in BlockIds, NEW y \in announced'[c] PROVE y.note < notes'
      <4>1. notes \in Nat /\ (y \in announced[c] \/ y = x) BY <1>2, <2>4 DEF FetchTypes
      <4>2. CASE y \in announced[c] BY <1>3, <2>6, <4>1, <4>2
      <4>3. CASE y = x BY <1>3, <2>2, <4>1, <4>3
      <4> QED BY <4>1, <4>2, <4>3
    <3>3. ASSUME NEW c \in BlockIds, NEW d \in BlockIds \ {c} PROVE announced'[c] \cap announced'[d] = {}
      BY <1>2, <2>4, <2>6 DEF NotesApart
    <3> QED BY <3>1, <3>2, <3>3 DEF NotesApart
  <2>8. TimersSet'
    <3>1. CASE headerTimer BY <1>2, <1>3, <2>3, <3>1 DEF TimersSet, Some
    <3>2. CASE ~ headerTimer
      <4>1. {c \in BlockIds : announced'[c] # {}} = {b} BY <1>2, <2>4, <3>2 DEF TimersSet
      <4> QED BY <1>2, <1>3, <2>3, <4>1, FS_Singleton DEF TimersSet, Some
    <3> QED BY <3>1, <3>2
  <2>9. Counted'
    <3> SUFFICES ASSUME NEW q \in Announcers PROVE announces'[q] <= Traces(BlockIds, q)' BY DEF Counted
    <3> DEFINE S == {y \in UNION {announced[c] : c \in BlockIds} : y.peer = q}
               T == {y \in UNION {announced'[c] : c \in BlockIds} : y.peer = q}
    <3>1. IsFiniteSet(S) BY <1>2, NotesFinite
    <3>2. NotesOf(BlockIds, q) = Cardinality(S) /\ NotesOf(BlockIds, q)' = Cardinality(T) BY DEF NotesOf
    <3>3. T = (IF q = p THEN S \cup {x} ELSE S) /\ x \notin S
      <4>1. x \notin S BY <2>2, <2>4, <2>6
      <4>2. CASE q = p BY <2>2, <2>4, <2>6, <4>2
      <4>3. CASE q # p BY <2>2, <2>4, <2>6, <4>3
      <4> QED BY <4>1, <4>2, <4>3
    <3> HIDE DEF S, T
    <3>4. /\ NotesOf(BlockIds, q) \in Nat
          /\ NotesOf(BlockIds, q)' = IF q = p THEN NotesOf(BlockIds, q) + 1 ELSE NotesOf(BlockIds, q)
      BY <3>1, <3>2, <3>3, FS_AddElement, FS_CardinalityType
    <3>5. ASSUME NEW map PROVE HeldOf(map, BlockIds, q) \in Nat BY HeldSplits
    <3>6. UNCHANGED <<HeldOf(fetching, BlockIds, q), HeldOf(fetched, BlockIds, q), HeldOf(completing, BlockIds, q)>>
      BY <1>3 DEF HeldOf
    <3>7. announces[q] \in Nat /\ announces[q] <= Traces(BlockIds, q)
          /\ announces'[q] = IF q = p THEN announces[q] + 1 ELSE announces[q]
      BY <1>2, <2>3 DEF Counted, FetchTypes
    <3> QED BY <3>4, <3>5, <3>6, <3>7 DEF Traces
  <2> QED BY <1>1, <2>5, <2>7, <2>8, <2>9 DEF BlockInv, FetchSide
<1> QED BY <1>4, <1>5

\* A block that comes whole is queued unless it was, or forgotten.
LEMMA InjectHolds ==
  ASSUME BlockInv, NEW b \in BlockIds, NEW p \in Announcers, Inject(b, p) PROVE BlockInv'
<1>1. UNCHANGED <<headerTimer, bodyTimer, notes, importing>> /\ asked' = asked BY DEF Inject
<1>2. CASE UNCHANGED <<fetchMaps, queueMaps>> BY <1>1, <1>2, FetchKept, QueueKept DEF BlockInv
<1>3. CASE ~ UNCHANGED <<fetchMaps, queueMaps>>
  <2>1. PICK Q \in SUBSET {b} :
          /\ Enqueue({x \in Q : queued[x] = NoAnnouncer}, p)
          /\ IF Q = {} THEN Forget({b}) ELSE UNCHANGED fetchMaps
    BY <1>3 DEF Inject
  <2>2. PICK N : N = {x \in Q : queued[x] = NoAnnouncer} OBVIOUS
  <2>3. QueueSide'
    BY <2>1, <2>2, <1>1, EnqueueHolds DEF BlockInv
  <2>4. FetchSide'
    <3>1. CASE Q = {}
      <4>1. PICK B : B = {b} OBVIOUS
      <4>2. B \subseteq BlockIds /\ Forget(B) BY <2>1, <3>1, <4>1
      <4> QED BY <1>1, <4>2, ForgetHolds DEF BlockInv
    <3>2. CASE Q # {} BY <1>1, <2>1, <3>2, FetchKept DEF BlockInv
    <3> QED BY <3>1, <3>2
  <2> QED BY <2>3, <2>4 DEF BlockInv
<1> QED BY <1>2, <1>3

-----------------------------------------------------------------------------
(* The timers.                                                             *)

\* Requests of the right type may be added.
LEMMA AskedHolds ==
  ASSUME QueueSide, UNCHANGED <<queueMaps, importing>>, asked' \subseteq Requests,
         \A r \in asked' : r \in asked \/ r.what # "header" \/ \E b \in BlockIds : r.blocks = {b}
  PROVE  QueueSide' BY DEF QueueSide, QueueTypes, QueuedOnce, queueMaps

\* Of the announced hashes that are due one announcer of each is asked, and the others are
\* forgotten and counted down.
LEMMA FetchHeadersHolds ==
  ASSUME BlockInv, FetchHeaders PROVE BlockInv'
<1>1. PICK due \in SUBSET {b \in BlockIds : announced[b] # {}} :
        \E pick \in [due -> UNION {announced[b] : b \in due}] :
         LET need == {b \in due : ~Have(b)}
         IN /\ \A b \in due : pick[b] \in announced[b]
            /\ announces' = Uncounted(due)
            /\ announced' = [b \in BlockIds |-> IF b \in due THEN {} ELSE announced[b]]
            /\ fetching' = [b \in BlockIds |-> IF b \in need THEN [peer |-> pick[b].peer, number |-> pick[b].number]
                                               ELSE IF b \in due THEN NoNote ELSE fetching[b]]
            /\ fetched' = Without(fetched, due) /\ completing' = Without(completing, due)
            /\ asked' = asked \cup {[what |-> "header", peer |-> pick[b].peer, blocks |-> {b}] : b \in need}
  BY DEF FetchHeaders
<1>a. PICK pick \in [due -> UNION {announced[b] : b \in due}] :
         LET need == {b \in due : ~Have(b)}
         IN /\ \A b \in due : pick[b] \in announced[b]
            /\ announces' = Uncounted(due)
            /\ announced' = [b \in BlockIds |-> IF b \in due THEN {} ELSE announced[b]]
            /\ fetching' = [b \in BlockIds |-> IF b \in need THEN [peer |-> pick[b].peer, number |-> pick[b].number]
                                               ELSE IF b \in due THEN NoNote ELSE fetching[b]]
            /\ fetched' = Without(fetched, due) /\ completing' = Without(completing, due)
            /\ asked' = asked \cup {[what |-> "header", peer |-> pick[b].peer, blocks |-> {b}] : b \in need}
  BY <1>1
<1> DEFINE Note(p, b) == [peer |-> p[b].peer, number |-> p[b].number]
<1> DEFINE need == {b \in due : ~Have(b)}
           Ask(b) == [what |-> "header", peer |-> pick[b].peer, blocks |-> {b}]
<1>2. /\ \A b \in due : pick[b] \in announced[b]
      /\ announces' = Uncounted(due)
      /\ announced' = [b \in BlockIds |-> IF b \in due THEN {} ELSE announced[b]]
      /\ fetching' = [b \in BlockIds |-> IF b \in need THEN Note(pick, b) ELSE IF b \in due THEN NoNote ELSE fetching[b]]
      /\ fetched' = Without(fetched, due) /\ completing' = Without(completing, due)
      /\ asked' = asked \cup {Ask(b) : b \in need}
  BY <1>a
<1>3. /\ headerTimer' = (\E b \in BlockIds : announced'[b] # {})
      /\ UNCHANGED <<bodyTimer, queueMaps, importing, notes>>
  BY DEF FetchHeaders
<1>4. FetchTypes /\ NotesApart /\ TimersSet /\ Counted /\ QueueTypes BY DEF BlockInv, FetchSide, QueueSide
<1>5. due \subseteq BlockIds /\ need \subseteq due OBVIOUS
<1>6. \A b \in need : b \in BlockIds /\ pick[b] \in Notes BY <1>2, <1>4 DEF FetchTypes
<1>7. \A b \in need : Note(pick, b) \in Held /\ Note(pick, b).peer # NoAnnouncer
  BY <1>6, BlockFetcherAssumption DEF Held, Notes
<1>8. \A b \in need : Ask(b) \in Requests /\ Ask(b).blocks = {b} BY <1>6 DEF Requests, Notes
<1> HIDE DEF need, Note, Ask
<1>9. QueueSide'
  BY <1>2, <1>4, <1>8, <1>6, <1>3, AskedHolds DEF QueueTypes, BlockInv
<1>10. Uncounted(due) \in [Announcers -> Nat] BY <1>4, <1>5, UncountedSound
<1>11. fetched' \in HeldMaps /\ completing' \in HeldMaps
       /\ \A b \in BlockIds : fetched'[b] = (IF b \in due THEN NoNote ELSE fetched[b])
            /\ completing'[b] = (IF b \in due THEN NoNote ELSE completing[b])
  BY <1>2, <1>4, WithoutSound DEF FetchTypes
<1>12. \A b \in BlockIds : announced'[b] = IF b \in due THEN {} ELSE announced[b] BY <1>2
<1>13. \A b \in BlockIds : fetching'[b] = IF b \in need THEN Note(pick, b) ELSE IF b \in due THEN NoNote ELSE fetching[b]
  BY <1>2
<1>14. fetching' \in HeldMaps
  <2>1. \A b \in BlockIds : fetching[b] \in Held /\ (fetching[b].peer = NoAnnouncer => fetching[b] = NoNote)
    BY <1>4 DEF FetchTypes, HeldMaps
  <2>2. \A b \in BlockIds : fetching'[b] \in Held /\ (fetching'[b].peer = NoAnnouncer => fetching'[b] = NoNote)
    BY <1>7, <1>13, <2>1 DEF NoNote, Held
  <2>3. fetching' = [b \in BlockIds |-> fetching'[b]] BY <1>2
  <2> QED BY <2>2, <2>3 DEF HeldMaps
<1>15. FetchTypes'
  BY <1>2, <1>4, <1>3, <1>10, <1>11, <1>14 DEF FetchTypes
<1>16. NotesApart' BY <1>3, <1>4, <1>12, FS_EmptySet DEF NotesApart
<1>17. TimersSet' BY <1>3, <1>4, <1>11 DEF TimersSet, Some
<1>18. Counted'
  <2>1. \A p \in Announcers : announces'[p] <= Uncounted(due)[p] BY <1>2, <1>10
  <2>2. \A b \in BlockIds \ due : announced'[b] = announced[b] /\ fetching'[b] = fetching[b]
                      /\ fetched'[b] = fetched[b] /\ completing'[b] = completing[b]
    BY <1>5, <1>11, <1>12, <1>13
  <2> QED BY <1>4, <1>5, <1>15, <1>16, <2>1, <2>2, CountsHold
<1> QED BY <1>9, <1>15, <1>16, <1>17, <1>18 DEF BlockInv, FetchSide

\* All bodies are asked for, and the timer rests.
LEMMA FetchBodiesHolds ==
  ASSUME BlockInv, FetchBodies PROVE BlockInv'
<1> PICK due : due = Some(fetched) OBVIOUS
<1> DEFINE need == {b \in due : ~Have(b)}
           Ask(p) == [what |-> "body", peer |-> p, blocks |-> {b \in need : fetched[b].peer = p}]
<1>2. /\ announces' = Uncounted(due)
      /\ announced' = [b \in BlockIds |-> IF b \in due THEN {} ELSE announced[b]]
      /\ fetching' = Without(fetching, due) /\ fetched' = Without(fetched, due)
      /\ completing' = [b \in BlockIds |-> IF b \in need THEN fetched[b] ELSE IF b \in due THEN NoNote ELSE completing[b]]
      /\ asked' = asked \cup {Ask(p) : p \in {fetched[b].peer : b \in need}}
  BY DEF FetchBodies
<1>3. bodyTimer' = FALSE /\ UNCHANGED <<headerTimer, queueMaps, importing, notes>> BY DEF FetchBodies
<1>4. FetchTypes /\ NotesApart /\ TimersSet /\ Counted /\ QueueTypes BY DEF BlockInv, FetchSide, QueueSide
<1>5. due \subseteq BlockIds /\ need \subseteq due BY DEF Some
<1>6. \A b \in need : b \in BlockIds /\ fetched[b] \in Held /\ fetched[b].peer \in Announcers
  BY <1>4, <1>5, HeldBy DEF Some, FetchTypes
<1>8. \A p \in {fetched[b].peer : b \in need} : Ask(p) \in Requests /\ Ask(p).what = "body"
  BY <1>5, <1>6 DEF Requests
<1> HIDE DEF need, Ask
<1>9. QueueSide'
  BY <1>2, <1>4, <1>8, <1>3, AskedHolds DEF QueueTypes, BlockInv
<1>10. Uncounted(due) \in [Announcers -> Nat] BY <1>4, <1>5, UncountedSound
<1>11. fetched' \in HeldMaps /\ fetching' \in HeldMaps
       /\ \A b \in BlockIds : fetched'[b] = (IF b \in due THEN NoNote ELSE fetched[b])
            /\ fetching'[b] = (IF b \in due THEN NoNote ELSE fetching[b])
  BY <1>2, <1>4, WithoutSound DEF FetchTypes
<1>12. \A b \in BlockIds : announced'[b] = IF b \in due THEN {} ELSE announced[b] BY <1>2
<1>13. \A b \in BlockIds : completing'[b] = IF b \in need THEN fetched[b] ELSE IF b \in due THEN NoNote ELSE completing[b]
  BY <1>2
<1>14. completing' \in HeldMaps
  <2>1. \A b \in BlockIds : completing[b] \in Held /\ (completing[b].peer = NoAnnouncer => completing[b] = NoNote)
    BY <1>4 DEF FetchTypes, HeldMaps
  <2>2. \A b \in BlockIds : completing'[b] \in Held /\ (completing'[b].peer = NoAnnouncer => completing'[b] = NoNote)
    BY <1>6, <1>13, <2>1, BlockFetcherAssumption DEF NoNote, Held
  <2>3. completing' = [b \in BlockIds |-> completing'[b]] BY <1>2
  <2> QED BY <2>2, <2>3 DEF HeldMaps
<1>15. FetchTypes'
  BY <1>2, <1>4, <1>3, <1>10, <1>11, <1>14 DEF FetchTypes
<1>16. NotesApart' BY <1>3, <1>4, <1>12, FS_EmptySet DEF NotesApart
<1>17. TimersSet'
  BY <1>11, <1>3, <1>4, <1>12 DEF Some, TimersSet
<1>18. Counted'
  <2>1. \A p \in Announcers : announces'[p] <= Uncounted(due)[p] BY <1>2, <1>10
  <2>2. \A b \in BlockIds \ due : announced'[b] = announced[b] /\ fetching'[b] = fetching[b]
                      /\ fetched'[b] = fetched[b] /\ completing'[b] = completing[b]
    BY <1>5, <1>11, <1>12, <1>13
  <2> QED BY <1>4, <1>5, <1>15, <1>16, <2>1, <2>2, CountsHold
<1> QED BY <1>9, <1>15, <1>16, <1>17, <1>18 DEF BlockInv, FetchSide

-----------------------------------------------------------------------------
(* Answers.                                                                *)

\* A map with more entries of a peer.
LEMMA HeldGrows ==
  ASSUME NEW map, NEW more, NEW p, \A b \in BlockIds : map[b].peer = p => more[b].peer = p
  PROVE  HeldOf(map, BlockIds, p) <= HeldOf(more, BlockIds, p)
<1> DEFINE S == {b \in BlockIds : map[b].peer = p}
           T == {b \in BlockIds : more[b].peer = p}
<1>1. S \subseteq T /\ IsFiniteSet(T) BY BlocksFinite, FS_Subset
<1>2. HeldOf(map, BlockIds, p) = Cardinality(S) /\ HeldOf(more, BlockIds, p) = Cardinality(T) BY DEF HeldOf
<1> HIDE DEF S, T
<1> QED BY <1>1, <1>2, FS_Subset

\* A note that is kept in one more map is one more trace.
LEMMA NoteMoves ==
  ASSUME FetchSide, NEW b \in BlockIds, UNCHANGED <<announces, announced, fetching, headerTimer, notes>>,
         fetching[b] # NoNote, bodyTimer' \in BOOLEAN, Some(fetched') # {} => bodyTimer',
         \/ /\ completing[b] = NoNote /\ completing' = [completing EXCEPT ![b] = fetching[b]] /\ fetched' = fetched
         \/ /\ fetched[b] = NoNote /\ fetched' = [fetched EXCEPT ![b] = fetching[b]] /\ completing' = completing
  PROVE  FetchSide'
<1>1. FetchTypes /\ NotesApart /\ TimersSet /\ Counted BY DEF FetchSide
<1>2. fetching[b] \in Held /\ fetching[b].peer # NoAnnouncer BY <1>1, HeldBy DEF FetchTypes
<1>3. ASSUME NEW map \in HeldMaps, map[b] = NoNote
      PROVE  /\ [map EXCEPT ![b] = fetching[b]] \in HeldMaps
             /\ \A c \in BlockIds, p \in Announcers : map[c].peer = p => [map EXCEPT ![b] = fetching[b]][c].peer = p
  BY <1>2, <1>3, BlockFetcherAssumption DEF HeldMaps, NoNote
<1>4. /\ fetched' \in HeldMaps /\ completing' \in HeldMaps
      /\ \A c \in BlockIds, p \in Announcers : fetched[c].peer = p => fetched'[c].peer = p
      /\ \A c \in BlockIds, p \in Announcers : completing[c].peer = p => completing'[c].peer = p
  <2>0. fetched \in HeldMaps /\ completing \in HeldMaps BY <1>1 DEF FetchTypes
  <2>1. CASE completing[b] = NoNote /\ completing' = [completing EXCEPT ![b] = fetching[b]] /\ fetched' = fetched
    BY <1>3, <2>0, <2>1
  <2>2. CASE fetched[b] = NoNote /\ fetched' = [fetched EXCEPT ![b] = fetching[b]] /\ completing' = completing
    <3>1. /\ [fetched EXCEPT ![b] = fetching[b]] \in HeldMaps
          /\ \A c \in BlockIds, p \in Announcers :
               fetched[c].peer = p => [fetched EXCEPT ![b] = fetching[b]][c].peer = p BY <1>3, <2>0, <2>2
    <3> QED BY <2>0, <2>2, <3>1
  <2> QED BY <2>1, <2>2
<1>5. FetchTypes' /\ NotesApart' BY <1>1, <1>4 DEF FetchTypes, NotesApart
<1>6. TimersSet' BY <1>1 DEF TimersSet, Some
<1>7. Counted'
  <2> SUFFICES ASSUME NEW p \in Announcers PROVE announces'[p] <= Traces(BlockIds, p)' BY DEF Counted
  <2>1. /\ HeldOf(fetched, BlockIds, p) <= HeldOf(fetched', BlockIds, p)
        /\ HeldOf(completing, BlockIds, p) <= HeldOf(completing', BlockIds, p)
    BY <1>4, HeldGrows
  <2>2. ASSUME NEW map PROVE HeldOf(map, BlockIds, p) \in Nat BY HeldSplits
  <2>3. NotesOf(BlockIds, p) \in Nat /\ NotesOf(BlockIds, p)' = NotesOf(BlockIds, p) BY <1>1, NotesSplit DEF NotesOf
  <2>4. announces'[p] = announces[p] /\ announces[p] \in Nat /\ announces[p] <= Traces(BlockIds, p)
    BY <1>1 DEF Counted, FetchTypes
  <2>5. Traces(BlockIds, p) = NotesOf(BlockIds, p) + HeldOf(fetching, BlockIds, p)
          + HeldOf(fetched, BlockIds, p) + HeldOf(completing, BlockIds, p) BY DEF Traces
  <2>6. Traces(BlockIds, p)' = NotesOf(BlockIds, p) + HeldOf(fetching, BlockIds, p)
          + HeldOf(fetched', BlockIds, p) + HeldOf(completing', BlockIds, p) BY <2>3 DEF Traces, HeldOf
  <2> QED BY <2>1, <2>2, <2>3, <2>4, <2>5, <2>6
<1> QED BY <1>5, <1>6, <1>7 DEF FetchSide

\* A block that is refused is counted down twice.
LEMMA RefusedHolds ==
  ASSUME FetchSide, NEW b \in BlockIds, NEW p \in Announcers, UNCHANGED <<fetched, completing, headerTimer, bodyTimer, notes>>,
         announces' = [Uncounted({b}) EXCEPT ![p] = IF @ > 0 THEN @ - 1 ELSE 0],
         announced' = [announced EXCEPT ![b] = {}], fetching' = Without(fetching, {b}) PROVE FetchSide'
<1>1. FetchTypes /\ NotesApart /\ TimersSet /\ Counted BY DEF FetchSide
<1>2. PICK B : B = {b} OBVIOUS
<1>3. PICK u : u = Uncounted(B) OBVIOUS
<1>4. u \in [Announcers -> Nat] BY <1>1, <1>2, <1>3, UncountedSound
<1>5. announces' = [u EXCEPT ![p] = IF @ > 0 THEN @ - 1 ELSE 0] BY <1>2, <1>3
<1>6. announces' \in [Announcers -> Nat] /\ \A q \in Announcers : announces'[q] <= u[q]
  <2>1. PICK n \in Nat : n <= u[p] /\ announces' = [u EXCEPT ![p] = n]
    <3>1. (IF u[p] > 0 THEN u[p] - 1 ELSE 0) \in Nat /\ (IF u[p] > 0 THEN u[p] - 1 ELSE 0) <= u[p] BY <1>4
    <3> QED BY <1>5, <3>1
  <2>2. \A q \in Announcers : announces'[q] = IF q = p THEN n ELSE u[q] BY <1>4, <2>1
  <2>3. announces' \in [Announcers -> Nat] BY <1>4, <2>1
  <2>4. ASSUME NEW q \in Announcers PROVE announces'[q] <= u[q]
    BY <1>4, <2>2, <2>1
  <2> QED BY <2>3, <2>4
<1>7. \A c \in BlockIds : announced'[c] = IF c = b THEN {} ELSE announced[c] BY <1>1 DEF FetchTypes
<1>8. fetching' \in HeldMaps /\ \A c \in BlockIds : fetching'[c] = IF c = b THEN NoNote ELSE fetching[c]
  BY <1>1, WithoutSound DEF FetchTypes
<1>9. FetchTypes' BY <1>1, <1>6, <1>8 DEF FetchTypes
<1>10. NotesApart' BY <1>1, <1>7, FS_EmptySet DEF NotesApart
<1>11. TimersSet' BY <1>1, <1>7 DEF TimersSet, Some
<1>12. Counted'
  <2>1. B \subseteq BlockIds /\ \A q \in Announcers : announces'[q] <= Uncounted(B)[q] BY <1>2, <1>3, <1>6
  <2>2. \A c \in BlockIds \ B : announced'[c] = announced[c] /\ fetching'[c] = fetching[c]
                      /\ fetched'[c] = fetched[c] /\ completing'[c] = completing[c]
    BY <1>2, <1>7, <1>8
  <2> QED BY <1>1, <1>9, <1>10, <2>1, <2>2, CountsHold
<1> QED BY <1>9, <1>10, <1>11, <1>12 DEF FetchSide

\* A header that is expected leads to a request for its body, to the queue, or nowhere.
LEMMA HeaderComesHolds ==
  ASSUME BlockInv, NEW r, HeaderComes(r) PROVE BlockInv'
<1>1. r \in asked /\ r.what = "header" /\ asked' = asked \ {r} /\ UNCHANGED <<headerTimer, importing, notes>>
  BY DEF HeaderComes
<1>2. FetchTypes /\ NotesApart /\ TimersSet /\ Counted /\ FetchSide /\ QueueSide /\ QueueTypes
  BY DEF BlockInv, FetchSide, QueueSide
<1>3. PICK b \in BlockIds : r.blocks = {b} BY <1>1, <1>2 DEF QueueTypes
<1>4. r.peer \in Announcers BY <1>1, <1>2 DEF QueueTypes, Requests
<1> DEFINE wanted == Expected(b, r.peer) /\ fetching[b].number = b /\ ~Have(b)
<1>5. PICK Q \in SUBSET {b} :
          \/ /\ ~Expected(b, r.peer)
             /\ UNCHANGED <<fetchMaps, queueMaps, bodyTimer>>
          \/ /\ Expected(b, r.peer) /\ ~wanted
             /\ Forget({b}) /\ UNCHANGED <<queueMaps, bodyTimer>>
          \/ /\ wanted /\ headersOnly
             /\ Forget({b}) /\ Enqueue(Q, r.peer) /\ UNCHANGED bodyTimer
          \/ /\ wanted /\ ~headersOnly /\ b \in EmptyBlocks /\ Q # {}
             /\ completing' = [completing EXCEPT ![b] = fetching[b]] /\ Enqueue(Q, r.peer)
             /\ UNCHANGED <<announces, announced, fetching, fetched, bodyTimer>>
          \/ /\ wanted /\ ~headersOnly /\ b \in EmptyBlocks /\ Q = {}
             /\ announces' = [Uncounted({b}) EXCEPT ![r.peer] = IF @ > 0 THEN @ - 1 ELSE 0]
             /\ announced' = [announced EXCEPT ![b] = {}] /\ fetching' = Without(fetching, {b})
             /\ UNCHANGED <<fetched, completing, queueMaps, bodyTimer>>
          \/ /\ wanted /\ ~headersOnly /\ b \notin EmptyBlocks
             /\ fetched' = [fetched EXCEPT ![b] = fetching[b]]
             /\ bodyTimer' = (bodyTimer \/ Cardinality(Some(fetched')) = 1)
             /\ UNCHANGED <<announces, announced, fetching, completing, queueMaps>>
  <2>1. PICK c \in r.blocks, Q \in SUBSET r.blocks :
       LET note == fetching[c]
           wants == Expected(c, r.peer) /\ note.number = c /\ ~Have(c)
       IN \/ /\ ~Expected(c, r.peer)
             /\ UNCHANGED <<fetchMaps, queueMaps, bodyTimer>>
          \/ /\ Expected(c, r.peer) /\ ~wants
             /\ Forget({c}) /\ UNCHANGED <<queueMaps, bodyTimer>>
          \/ /\ wants /\ headersOnly
             /\ Forget({c}) /\ Enqueue(Q, r.peer) /\ UNCHANGED bodyTimer
          \/ /\ wants /\ ~headersOnly /\ c \in EmptyBlocks /\ Q # {}
             /\ completing' = [completing EXCEPT ![c] = note] /\ Enqueue(Q, r.peer)
             /\ UNCHANGED <<announces, announced, fetching, fetched, bodyTimer>>
          \/ /\ wants /\ ~headersOnly /\ c \in EmptyBlocks /\ Q = {}
             /\ announces' = [Uncounted({c}) EXCEPT ![r.peer] = IF @ > 0 THEN @ - 1 ELSE 0]
             /\ announced' = [announced EXCEPT ![c] = {}] /\ fetching' = Without(fetching, {c})
             /\ UNCHANGED <<fetched, completing, queueMaps, bodyTimer>>
          \/ /\ wants /\ ~headersOnly /\ c \notin EmptyBlocks
             /\ fetched' = [fetched EXCEPT ![c] = note]
             /\ bodyTimer' = (bodyTimer \/ Cardinality(Some(fetched')) = 1)
             /\ UNCHANGED <<announces, announced, fetching, completing, queueMaps>>
    BY DEF HeaderComes
  <2>2. c = b /\ Q \in SUBSET {b} BY <1>3
  <2> QED BY <2>1, <2>2
<1>6. Expected(b, r.peer) => /\ fetching[b] # NoNote /\ fetched[b] = NoNote /\ completing[b] = NoNote
                             /\ queued[b] = NoAnnouncer
  BY <1>4, BlockFetcherAssumption DEF Expected, NoNote
<1>7. asked' \subseteq asked BY <1>1
<1> HIDE DEF wanted
<1>8. UNCHANGED <<queueMaps, importing>> => QueueSide' BY <1>2, <1>7, QueueKept
<1>9. Enqueue(Q, r.peer) /\ Expected(b, r.peer) => QueueSide' BY <1>1, <1>2, <1>4, <1>6, <1>7, EnqueueHolds
<1>10. Forget({b}) /\ UNCHANGED bodyTimer => FetchSide'
  <2>1. PICK B : B = {b} OBVIOUS
  <2>2. Forget(B) /\ UNCHANGED <<headerTimer, bodyTimer, notes>> => FetchSide' BY <1>2, <2>1, ForgetHolds
  <2> QED BY <1>1, <2>1, <2>2
<1>11. CASE ~Expected(b, r.peer) /\ UNCHANGED <<fetchMaps, queueMaps, bodyTimer>>
  BY <1>1, <1>2, <1>8, <1>11, FetchKept DEF BlockInv
<1>12. CASE /\ Expected(b, r.peer) /\ ~wanted
            /\ Forget({b}) /\ UNCHANGED <<queueMaps, bodyTimer>>
  BY <1>1, <1>8, <1>10, <1>12 DEF BlockInv
<1>13. CASE wanted /\ headersOnly /\ Forget({b}) /\ Enqueue(Q, r.peer) /\ UNCHANGED bodyTimer
  BY <1>9, <1>10, <1>13 DEF BlockInv, wanted
<1>14. CASE /\ wanted /\ ~headersOnly /\ b \in EmptyBlocks /\ Q # {}
            /\ completing' = [completing EXCEPT ![b] = fetching[b]] /\ Enqueue(Q, r.peer)
            /\ UNCHANGED <<announces, announced, fetching, fetched, bodyTimer>>
  BY <1>2, <1>14, <1>1, <1>6, NoteMoves, <1>9 DEF FetchTypes, TimersSet, wanted, BlockInv
<1>15. CASE /\ wanted /\ ~headersOnly /\ b \in EmptyBlocks /\ Q = {}
            /\ announces' = [Uncounted({b}) EXCEPT ![r.peer] = IF @ > 0 THEN @ - 1 ELSE 0]
            /\ announced' = [announced EXCEPT ![b] = {}] /\ fetching' = Without(fetching, {b})
            /\ UNCHANGED <<fetched, completing, queueMaps, bodyTimer>>
  BY <1>1, <1>2, <1>4, <1>15, RefusedHolds, <1>8 DEF BlockInv
<1>16. CASE /\ wanted /\ ~headersOnly /\ b \notin EmptyBlocks
            /\ fetched' = [fetched EXCEPT ![b] = fetching[b]]
            /\ bodyTimer' = (bodyTimer \/ Cardinality(Some(fetched')) = 1)
            /\ UNCHANGED <<announces, announced, fetching, completing, queueMaps>>
  <2>1. bodyTimer' \in BOOLEAN BY <1>16
  <2>2. Some(fetched') # {} => bodyTimer'
    <3>1. CASE bodyTimer BY <1>16, <3>1
    <3>2. CASE ~bodyTimer
      <4>1. \A c \in BlockIds : fetched[c] = NoNote BY <1>2, <3>2 DEF TimersSet, Some
      <4>2. \A c \in BlockIds : fetched'[c] = IF c = b THEN fetching[b] ELSE fetched[c]
        BY <1>2, <1>16 DEF FetchTypes, HeldMaps
      <4>3. Some(fetched') = {b} BY <1>6, <1>16, <4>1, <4>2 DEF Some, wanted
      <4> QED BY <1>16, <4>3, FS_Singleton
    <3> QED BY <3>1, <3>2
  <2>3. FetchSide' BY <1>1, <1>2, <1>6, <1>16, <2>1, <2>2, NoteMoves DEF wanted
  <2> QED BY <1>1, <1>8, <1>16, <2>3 DEF BlockInv
<1> QED BY <1>5, <1>11, <1>12, <1>13, <1>14, <1>15, <1>16

\* Bodies that are asked for complete blocks that are not queued.
LEMMA BodiesComeHolds ==
  ASSUME BlockInv, NEW r, BodiesCome(r) PROVE BlockInv'
<1>1. r \in asked /\ asked' = asked \ {r} /\ UNCHANGED <<headerTimer, bodyTimer, importing, notes>> BY DEF BodiesCome
<1>2. FetchSide /\ QueueSide /\ r \in Requests BY <1>1 DEF BlockInv, QueueSide, QueueTypes
<1>3. PICK got \in SUBSET r.blocks :
       LET matched == {b \in got : completing[b].peer = r.peer /\ queued[b] = NoAnnouncer}
           new == {b \in matched : ~Have(b)}
       IN \E Q \in SUBSET new : Enqueue(Q, r.peer) /\ Forget(matched \ Q) BY DEF BodiesCome
<1>4. PICK matched : matched = {b \in got : completing[b].peer = r.peer /\ queued[b] = NoAnnouncer} OBVIOUS
<1>5. PICK Q \in SUBSET matched : Enqueue(Q, r.peer) /\ Forget(matched \ Q) BY <1>3, <1>4
<1>6. matched \subseteq BlockIds /\ r.peer \in Announcers /\ Q \subseteq BlockIds /\ \A b \in Q : queued[b] = NoAnnouncer
  BY <1>2, <1>4 DEF Requests
<1>7. QueueSide' BY <1>1, <1>2, <1>5, <1>6, EnqueueHolds
<1>8. PICK B : B = matched \ Q OBVIOUS
<1>9. B \subseteq BlockIds /\ Forget(B) BY <1>5, <1>6, <1>8
<1>10. FetchSide' BY <1>1, <1>2, <1>9, ForgetHolds
<1> QED BY <1>7, <1>10 DEF BlockInv

-----------------------------------------------------------------------------
(* The theorem.                                                            *)

\* Every step keeps the books of the fetcher.
LEMMA BlockStepHolds ==
  ASSUME BlockInv, [BlockFetcherNext]_blockVars PROVE BlockInv'
<1>1. CASE BlockFetcherNext
  <2>1. CASE LoopTop BY <2>1, LoopTopHolds
  <2>2. CASE ImportedElsewhere BY <2>2, ElsewhereHolds
  <2>3. CASE FetchHeaders BY <2>3, FetchHeadersHolds
  <2>4. CASE FetchBodies BY <2>4, FetchBodiesHolds
  <2>5. CASE \E x \in importing : ImportRuns(x) \/ ImportDone(x) BY <2>5, ImportRunsHolds, ImportDoneHolds
  <2>6. ASSUME NEW b \in BlockIds, NEW p \in Announcers, Inject(b, p) \/ \E number \in {0, b, LastBlock} : Notify(b, p, number)
        PROVE  BlockInv'
    <3>1. CASE Inject(b, p) BY <3>1, InjectHolds
    <3>2. ASSUME NEW number \in {0, b, LastBlock}, Notify(b, p, number) PROVE BlockInv'
      BY BlocksFinite, BlockFetcherAssumption, <3>2, NotifyHolds
    <3> QED BY <2>6, <3>1, <3>2
  <2>7. CASE \E r \in asked : FetchFails(r) \/ HeaderComes(r) \/ BodiesCome(r)
    BY <2>7, FetchFailsHolds, HeaderComesHolds, BodiesComeHolds
  <2> QED BY <1>1, <2>1, <2>2, <2>3, <2>4, <2>5, <2>6, <2>7 DEF BlockFetcherNext
<1>2. CASE UNCHANGED blockVars
  BY <1>2, FetchKept, QueueKept DEF blockVars, BlockInv
<1> QED BY <1>1, <1>2

\* However answers, timeouts, injected blocks and imports interleave: a block is queued once,
\* from its enqueue to the end of its import, a peer is charged for exactly the blocks it has
\* queued, and what waits for a timer has one; for any peers, limits and length of the chain.
THEOREM BlocksAreSound == BlockFetcherSpec => []BlocksSound
<1>1. BlockFetcherSpec => []BlockInv BY BlockInitHolds, BlockStepHolds, PTL DEF BlockFetcherSpec
<1>2. BlockInv => BlocksSound BY DEF BlockInv, FetchSide, QueueSide, TimersSet, Counted, BlocksSound, NothingForgot
<1> QED BY <1>1, <1>2, PTL

-----------------------------------------------------------------------------
(* The signers of clique.                                                  *)

\* What a snapshot is.
Recents == UNION {[D -> Addresses] : D \in SUBSET Nat}
Tallies == [Addresses -> [authorize : BOOLEAN, votes : Nat]]
Snaps == [number : Nat, signers : SUBSET Addresses, recents : Recents, votes : SUBSET Vote, tally : Tallies]

\* The votes on an account; the tally counts them, and knows what they are for.
On(votes, a) == {v \in votes : v.address = a}
CountedIn(votes, tally) ==
  /\ IsFiniteSet(votes)
  /\ \A a \in Addresses : tally[a].votes = Cardinality(On(votes, a)) /\ (tally[a].votes = 0 => tally[a] = NoTally)
  /\ \A v \in votes : tally[v.address].authorize = v.authorize

\* A vote is by a signer, its only one on that account, and would change the signers.
Legal(votes, signers) ==
  \A v \in votes :
    /\ v.signer \in signers /\ (v.address \in signers <=> ~v.authorize)
    /\ \A w \in votes : w.signer = v.signer /\ w.address = v.address => w = v

\* Recent signers are of the last blocks, less than half of the signers and one.
Window(recents, n, signers) == DOMAIN recents \subseteq 1..n /\ \A k \in DOMAIN recents : k + Limit(signers) > n

SnapOK(s) ==
  /\ s \in Snaps /\ IsFiniteSet(s.signers)
  /\ CountedIn(s.votes, s.tally) /\ Legal(s.votes, s.signers) /\ Window(s.recents, s.number, s.signers)

-----------------------------------------------------------------------------
(* Recent signers.                                                         *)

\* The limit is a number above 0, and half of the signers and one.
LEMMA LimitIs ==
  ASSUME NEW S, IsFiniteSet(S)
  PROVE  /\ Cardinality(S) \in Nat /\ Limit(S) \in Nat \ {0} /\ Limit(S) = Cardinality(S) \div 2 + 1
         /\ 2 * Limit(S) > Cardinality(S) /\ 2 * (Limit(S) - 1) <= Cardinality(S)
<1>1. Cardinality(S) \in Nat BY FS_CardinalityType
<1>2. Limit(S) = Cardinality(S) \div 2 + 1 BY DEF Limit
<1> QED BY <1>1, <1>2

\* One block is forgotten at a time.
LEMMA ForgottenIs ==
  ASSUME NEW r \in Recents, NEW n \in Nat, NEW S, IsFiniteSet(S)
  PROVE  /\ Forgotten(r, n, S) \in Recents /\ DOMAIN r \subseteq Nat
         /\ DOMAIN Forgotten(r, n, S) = {k \in DOMAIN r : k + Limit(S) # n}
         /\ \A k \in DOMAIN Forgotten(r, n, S) : Forgotten(r, n, S)[k] = r[k] /\ r[k] \in Addresses
<1> DEFINE D == {k \in DOMAIN r : k + Limit(S) # n}
<1>1. PICK E \in SUBSET Nat : r \in [E -> Addresses] BY DEF Recents
<1>2. DOMAIN r = E /\ \A k \in E : r[k] \in Addresses BY <1>1
<1>3. DOMAIN r \ {m \in DOMAIN r : n >= Limit(S) /\ m = n - Limit(S)} = D
  <2>1. Limit(S) \in Nat BY LimitIs
  <2>2. \A m \in E : (n >= Limit(S) /\ m = n - Limit(S)) <=> m + Limit(S) = n BY <2>1
  <2> QED BY <1>2, <2>2
<1>4. Forgotten(r, n, S) = [k \in D |-> r[k]] BY <1>3 DEF Forgotten
<1>5. D \in SUBSET Nat /\ [k \in D |-> r[k]] \in [D -> Addresses] BY <1>2
<1>6. [k \in D |-> r[k]] \in Recents BY <1>5 DEF Recents
<1> QED BY <1>2, <1>4, <1>5, <1>6

\* One block is recorded.
LEMMA RecordedIs ==
  ASSUME NEW r \in Recents, NEW n \in Nat, NEW a \in Addresses
  PROVE  /\ Recorded(r, n, a) \in Recents /\ DOMAIN Recorded(r, n, a) = DOMAIN r \cup {n}
         /\ Recorded(r, n, a)[n] = a /\ \A k \in DOMAIN r : k # n => Recorded(r, n, a)[k] = r[k]
<1>1. PICK E \in SUBSET Nat : r \in [E -> Addresses] BY DEF Recents
<1> DEFINE D == DOMAIN r \cup {n}
<1>2. DOMAIN r = E /\ D \in SUBSET Nat /\ \A k \in E : r[k] \in Addresses BY <1>1
<1>3. Recorded(r, n, a) = [k \in D |-> IF k = n THEN a ELSE r[k]] BY DEF Recorded
<1>4. [k \in D |-> IF k = n THEN a ELSE r[k]] \in [D -> Addresses] BY <1>2
<1>5. Recorded(r, n, a) \in Recents BY <1>2, <1>3, <1>4 DEF Recents
<1> QED BY <1>3, <1>5

-----------------------------------------------------------------------------
(* Votes and their tally.                                                  *)

\* The tally is a function of the votes.
LEMMA TallyDetermined ==
  ASSUME NEW votes \in SUBSET Vote, NEW t \in Tallies, NEW u \in Tallies, CountedIn(votes, t), CountedIn(votes, u)
  PROVE  t = u
<1>1. ASSUME NEW a \in Addresses PROVE t[a] = u[a]
  <2>1. t[a].votes = Cardinality(On(votes, a)) /\ u[a].votes = Cardinality(On(votes, a)) BY DEF CountedIn
  <2>2. CASE t[a].votes = 0 BY <2>1, <2>2 DEF CountedIn
  <2>3. CASE t[a].votes # 0
    <3>1. PICK v \in votes : v.address = a BY <2>1, <2>3, FS_EmptySet DEF On
    <3>2. t[a].authorize = u[a].authorize BY <3>1 DEF CountedIn
    <3> QED BY <2>1, <3>2 DEF Tallies
  <2> QED BY <2>2, <2>3
<1> QED BY <1>1 DEF Tallies

\* A vote is taken back.
LEMMA UncastHolds ==
  ASSUME NEW votes \in SUBSET Vote, NEW tally \in Tallies, CountedIn(votes, tally), NEW v \in votes
  PROVE  Uncast(tally, v) \in Tallies /\ CountedIn(votes \ {v}, Uncast(tally, v))
<1> DEFINE a == v.address
           t == tally[a]
           less == IF t.votes > 1 THEN [t EXCEPT !.votes = t.votes - 1] ELSE NoTally
<1>1. a \in Addresses /\ t \in [authorize : BOOLEAN, votes : Nat] BY DEF Vote, Tallies
<1>2. IsFiniteSet(votes) /\ \A b \in Addresses : IsFiniteSet(On(votes, b)) /\ Cardinality(On(votes, b)) \in Nat
  BY FS_Subset, FS_CardinalityType DEF On, CountedIn
<1>3. v \in On(votes, a) /\ On(votes \ {v}, a) = On(votes, a) \ {v} /\ \A b \in Addresses : b # a => On(votes \ {v}, b) = On(votes, b)
  BY DEF On
<1>4. Cardinality(On(votes \ {v}, a)) = Cardinality(On(votes, a)) - 1 /\ Cardinality(On(votes, a)) # 0
  <2>1. IsFiniteSet(On(votes, a)) /\ On(votes, a) # {} BY <1>1, <1>2, <1>3
  <2>2. Cardinality(On(votes, a)) # 0 BY <2>1, FS_EmptySet
  <2>3. Cardinality(On(votes, a) \ {v}) = Cardinality(On(votes, a)) - 1 BY <2>1, <1>3, FS_RemoveElement
  <2> QED BY <2>2, <2>3, <1>3
<1>5. t.votes = Cardinality(On(votes, a)) /\ t.authorize = v.authorize /\ t.votes # 0 BY <1>1, <1>4 DEF CountedIn
<1>6. Uncast(tally, v) = [tally EXCEPT ![a] = less] BY <1>5 DEF Uncast
<1>7. /\ less \in [authorize : BOOLEAN, votes : Nat] /\ less.votes = t.votes - 1 /\ (less.votes = 0 => less = NoTally)
      /\ less.votes # 0 => less.authorize = t.authorize
  BY <1>1, <1>5 DEF NoTally
<1> HIDE DEF less
<1>8. Uncast(tally, v) \in Tallies /\ Uncast(tally, v)[a] = less /\ \A b \in Addresses : b # a => Uncast(tally, v)[b] = tally[b]
  BY <1>1, <1>6, <1>7 DEF Tallies
<1>9. ASSUME NEW b \in Addresses
      PROVE  /\ Uncast(tally, v)[b].votes = Cardinality(On(votes \ {v}, b))
             /\ Uncast(tally, v)[b].votes = 0 => Uncast(tally, v)[b] = NoTally
  <2>1. CASE b = a BY <2>1, <1>4, <1>5, <1>7, <1>8
  <2>2. CASE b # a BY <2>2, <1>3, <1>8 DEF CountedIn
  <2> QED BY <2>1, <2>2
<1>10. ASSUME NEW w \in votes \ {v} PROVE Uncast(tally, v)[w.address].authorize = w.authorize
  <2>1. CASE w.address = a
    <3>1. w \in On(votes \ {v}, a) /\ IsFiniteSet(On(votes \ {v}, a)) BY <2>1, <1>1, <1>2, <1>3, FS_Subset DEF On
    <3>2. Cardinality(On(votes \ {v}, a)) # 0 BY <3>1, FS_EmptySet
    <3>3. less.votes # 0 BY <3>2, <1>4, <1>5, <1>7
    <3>4. w.authorize = t.authorize BY <2>1 DEF CountedIn
    <3> QED BY <2>1, <3>3, <3>4, <1>7, <1>8
  <2>2. CASE w.address # a
    BY <2>2, <1>8 DEF Vote, CountedIn
  <2> QED BY <2>1, <2>2
<1>11. IsFiniteSet(votes \ {v}) BY <1>2, FS_Subset
<1> QED BY <1>8, <1>9, <1>10, <1>11 DEF CountedIn

\* A vote is counted.
CastIn(tally, v) ==
  [tally EXCEPT ![v.address] = IF tally[v.address].votes > 0 THEN [tally[v.address] EXCEPT !.votes = tally[v.address].votes + 1]
                               ELSE [authorize |-> v.authorize, votes |-> 1]]

\* A new vote is for what the others on that account are for.
LEMMA CastHolds ==
  ASSUME NEW votes \in SUBSET Vote, NEW tally \in Tallies, CountedIn(votes, tally), NEW v \in Vote, v \notin votes,
         \A w \in votes : w.address = v.address => w.authorize = v.authorize
  PROVE  CastIn(tally, v) \in Tallies /\ CountedIn(votes \cup {v}, CastIn(tally, v))
<1> DEFINE a == v.address
           t == tally[a]
           more == IF t.votes > 0 THEN [t EXCEPT !.votes = t.votes + 1] ELSE [authorize |-> v.authorize, votes |-> 1]
<1>1. a \in Addresses /\ t \in [authorize : BOOLEAN, votes : Nat] /\ v.authorize \in BOOLEAN BY DEF Vote, Tallies
<1>2. IsFiniteSet(votes) /\ \A b \in Addresses : IsFiniteSet(On(votes, b)) /\ Cardinality(On(votes, b)) \in Nat
  BY FS_Subset, FS_CardinalityType DEF On, CountedIn
<1>3. v \notin On(votes, a) /\ On(votes \cup {v}, a) = On(votes, a) \cup {v} /\ \A b \in Addresses : b # a => On(votes \cup {v}, b) = On(votes, b)
  BY DEF On
<1>4. Cardinality(On(votes \cup {v}, a)) = Cardinality(On(votes, a)) + 1 BY <1>1, <1>2, <1>3, FS_AddElement
<1>5. t.votes = Cardinality(On(votes, a)) BY <1>1 DEF CountedIn
<1>6. t.votes > 0 => t.authorize = v.authorize
  <2>1. SUFFICES ASSUME t.votes > 0 PROVE t.authorize = v.authorize OBVIOUS
  <2>2. PICK w \in votes : w.address = a BY <2>1, <1>5, FS_EmptySet DEF On
  <2> QED BY <2>2 DEF CountedIn
<1>7. CastIn(tally, v) = [tally EXCEPT ![a] = more] BY DEF CastIn
<1>8. more \in [authorize : BOOLEAN, votes : Nat] /\ more.votes = t.votes + 1 /\ more.authorize = v.authorize /\ more.votes # 0
  <2>1. CASE t.votes > 0 BY <2>1, <1>1, <1>6
  <2>2. CASE ~(t.votes > 0)
    BY <2>2, <1>1
  <2> QED BY <2>1, <2>2
<1> HIDE DEF more
<1>9. CastIn(tally, v) \in Tallies /\ CastIn(tally, v)[a] = more /\ \A b \in Addresses : b # a => CastIn(tally, v)[b] = tally[b]
  BY <1>1, <1>7, <1>8 DEF Tallies
<1>10. ASSUME NEW b \in Addresses
       PROVE  /\ CastIn(tally, v)[b].votes = Cardinality(On(votes \cup {v}, b))
              /\ CastIn(tally, v)[b].votes = 0 => CastIn(tally, v)[b] = NoTally
  <2>1. CASE b = a BY <2>1, <1>4, <1>5, <1>8, <1>9
  <2>2. CASE b # a BY <2>2, <1>3, <1>9 DEF CountedIn
  <2> QED BY <2>1, <2>2
<1>11. ASSUME NEW w \in votes \cup {v} PROVE CastIn(tally, v)[w.address].authorize = w.authorize
  <2>1. CASE w.address = a BY <2>1, <1>8, <1>9
  <2>2. CASE w.address # a
    BY <2>2, <1>9 DEF Vote, CountedIn
  <2> QED BY <2>1, <2>2
<1>12. IsFiniteSet(votes \cup {v}) BY <1>2, FS_AddElement
<1> QED BY <1>9, <1>10, <1>11, <1>12 DEF CountedIn

-----------------------------------------------------------------------------
(* Votes are discarded one by one.                                         *)

\* What r has of s when the votes in B are discarded.
Less(s, r, B) ==
  /\ r \in Snaps /\ r.number = s.number /\ r.signers = s.signers /\ r.recents = s.recents
  /\ r.votes = s.votes \ B /\ CountedIn(r.votes, r.tally)

\* The folds of Discard over the subsets of B, as FoldSet computes them.
SomeOf(b) == CHOOSE x \in b : TRUE
Body(f, s, B) == [b \in SUBSET B |-> IF b = {} THEN s ELSE Discard(f[b \ {SomeOf(b)}], SomeOf(b))]

\* Discarding is a function on the parts of the votes.
LEMMA FoldIs ==
  ASSUME NEW s, NEW B
  PROVE  DiscardAll(s, B) = (CHOOSE f : f = Body(f, s, B))[B] BY DEF DiscardAll, FoldSet, MapThenFoldSet, Body, SomeOf

\* One element less.
LEMMA SomeLess ==
  ASSUME NEW B, IsFiniteSet(B), NEW b \in SUBSET B, b # {}
  PROVE  /\ SomeOf(b) \in b /\ b \ {SomeOf(b)} \in SUBSET B
         /\ Cardinality(b) \in Nat /\ Cardinality(b \ {SomeOf(b)}) \in Nat
         /\ Cardinality(b \ {SomeOf(b)}) = Cardinality(b) - 1
<1>1. SomeOf(b) \in b BY DEF SomeOf
<1>2. IsFiniteSet(b) /\ IsFiniteSet(b \ {SomeOf(b)}) BY FS_Subset
<1> QED BY <1>1, <1>2, FS_CardinalityType, FS_RemoveElement

\* A set of numbers that is not empty has a least one.
LEMMA LeastNumber == ASSUME NEW T, T \subseteq Nat, T # {} PROVE \E n \in T : \A m \in T : n <= m
<1>1. \E n \in T : \A m \in T : ~ (<<m, n>> \in OpToRel(<, Nat)) BY NatLessThanWellFounded, WFMin
<1>2. PICK n \in T : \A m \in T : ~ (m < n) BY <1>1 DEF OpToRel
<1> QED BY <1>2

\* There is such a function, for every finite set of votes.
LEMMA FoldExists ==
  ASSUME NEW s, NEW B, IsFiniteSet(B) PROVE \E f : f = Body(f, s, B)
<1> DEFINE Small(n) == {b \in SUBSET B : Cardinality(b) <= n}
           Fun(f, n) == [b \in Small(n) |-> IF b = {} THEN s ELSE Discard(f[b \ {SomeOf(b)}], SomeOf(b))]
           T == {n \in Nat : ~ \E f : f = Fun(f, n)}
<1>0. \A b \in SUBSET B : Cardinality(b) \in Nat /\ (Cardinality(b) = 0 <=> b = {})
  BY FS_Subset, FS_CardinalityType, FS_EmptySet
<1>1. T = {}
  <2>1. SUFFICES ASSUME T # {} PROVE FALSE OBVIOUS
  <2>2. PICK n \in T : \A m \in T : n <= m BY <2>1, LeastNumber
  <2>3. n \in Nat OBVIOUS
  <2>4. CASE n = 0
    <3>1. \A b \in Small(0) : b = {} BY <1>0
    <3> DEFINE g == [b \in Small(0) |-> s]
    <3>2. g = Fun(g, 0) BY <3>1
    <3> QED BY <2>2, <2>4, <3>2
  <2>5. CASE n # 0
    <3>0. n - 1 \in Nat /\ n - 1 \notin T
      <4> HIDE DEF T
      <4> QED BY <2>2, <2>3, <2>5
    <3>1. PICK f : f = Fun(f, n - 1)
      <4> HIDE DEF Fun
      <4> QED BY <3>0
    <3> DEFINE g == [b \in Small(n) |-> IF b \in Small(n - 1) THEN f[b] ELSE Discard(f[b \ {SomeOf(b)}], SomeOf(b))]
    <3>2. ASSUME NEW b \in Small(n) PROVE g[b] = IF b = {} THEN s ELSE Discard(g[b \ {SomeOf(b)}], SomeOf(b))
      <4>1. CASE b = {}
        BY <1>0, <2>2, <2>5, <4>1, <3>1
      <4>2. CASE b # {}
        <5>1. b \ {SomeOf(b)} \in Small(n - 1) /\ b \ {SomeOf(b)} \in Small(n) BY <1>0, <2>2, <2>5, <4>2, SomeLess
        <5>2. g[b \ {SomeOf(b)}] = f[b \ {SomeOf(b)}] BY <5>1
        <5>3. b \in Small(n - 1) => f[b] = Discard(f[b \ {SomeOf(b)}], SomeOf(b)) BY <3>1, <4>2
        <5> QED BY <3>2, <4>2, <5>2, <5>3
      <4> QED BY <4>1, <4>2
    <3>3. g = Fun(g, n) BY <3>2
    <3> QED BY <2>2, <3>3
  <2> QED BY <2>4, <2>5
<1>2. Cardinality(B) \in Nat BY <1>0
<1>3. PICK f : f = Fun(f, Cardinality(B)) BY <1>1, <1>2
<1>4. Small(Cardinality(B)) = SUBSET B BY FS_Subset
<1> QED BY <1>3, <1>4 DEF Body

\* One vote is discarded.
LEMMA DiscardHolds ==
  ASSUME NEW s, NEW r, NEW B, Less(s, r, B), s.votes \in SUBSET Vote, NEW v \in s.votes, v \notin B
  PROVE  Less(s, Discard(r, v), B \cup {v})
<1> DEFINE d == Discard(r, v)
<1>1. r \in Snaps /\ r.votes \in SUBSET Vote /\ r.tally \in Tallies /\ v \in r.votes BY DEF Less, Snaps
<1>2. Uncast(r.tally, v) \in Tallies /\ CountedIn(r.votes \ {v}, Uncast(r.tally, v)) BY <1>1, UncastHolds DEF Less
<1>3. d = [r EXCEPT !.votes = r.votes \ {v}, !.tally = Uncast(r.tally, v)] BY DEF Discard
<1>4. /\ d \in Snaps /\ d.number = r.number /\ d.signers = r.signers /\ d.recents = r.recents
      /\ d.votes = r.votes \ {v} /\ d.tally = Uncast(r.tally, v)
  BY <1>1, <1>2, <1>3 DEF Snaps
<1> HIDE DEF d
<1>5. d.votes = s.votes \ (B \cup {v}) BY <1>4 DEF Less
<1>6. Less(s, d, B \cup {v}) BY <1>2, <1>4, <1>5 DEF Less
<1> QED BY <1>6 DEF d

\* Some votes are discarded.
LEMMA DiscardAllHolds ==
  ASSUME NEW s \in Snaps, CountedIn(s.votes, s.tally), NEW B \in SUBSET s.votes PROVE Less(s, DiscardAll(s, B), B)
<1> DEFINE f == CHOOSE g : g = Body(g, s, B)
           T == {n \in Nat : \E b \in SUBSET B : Cardinality(b) = n /\ ~Less(s, f[b], b)}
<1>0. IsFiniteSet(B) /\ s.votes \in SUBSET Vote BY FS_Subset DEF CountedIn, Snaps
<1>1. f = Body(f, s, B) BY <1>0, FoldExists
<1> HIDE DEF f
<1>2. \A b \in SUBSET B : f[b] = IF b = {} THEN s ELSE Discard(f[b \ {SomeOf(b)}], SomeOf(b)) BY <1>1 DEF Body
<1>3. T = {}
  <2>1. SUFFICES ASSUME T # {} PROVE FALSE OBVIOUS
  <2>2. PICK n \in T : \A m \in T : n <= m BY <2>1, LeastNumber
  <2>3. PICK b \in SUBSET B : Cardinality(b) = n /\ ~Less(s, f[b], b) BY <2>2
  <2>4. b # {}
    BY <1>2, <2>3 DEF Less
  <2> DEFINE x == SomeOf(b)
             r == b \ {x}
  <2>5. x \in b /\ r \in SUBSET B /\ Cardinality(r) \in Nat /\ Cardinality(r) < n BY <1>0, <2>2, <2>3, <2>4, SomeLess
  <2>6. Less(s, f[r], r)
    <3>1. n \in Nat OBVIOUS
    <3>2. Cardinality(r) \notin T
      <4> HIDE DEF T
      <4> QED BY <2>2, <2>5, <3>1
    <3> QED BY <2>5, <3>2
  <2>7. x \in s.votes /\ x \notin r /\ r \cup {x} = b BY <2>5
  <2>8. f[b] = Discard(f[r], x) BY <1>2, <2>4
  <2> HIDE DEF x, r
  <2>9. Less(s, Discard(f[r], x), r \cup {x}) BY <1>0, <2>6, <2>7, DiscardHolds
  <2> QED BY <2>3, <2>7, <2>8, <2>9
<1>4. Cardinality(B) \in Nat BY <1>0, FS_CardinalityType
<1>5. Less(s, f[B], B) BY <1>3, <1>4
<1> QED BY <1>5, FoldIs DEF f

-----------------------------------------------------------------------------
(* One header.                                                             *)

\* The header is the next and by a signer.
NextOf(s, h) == h \in Header /\ h.number = s.number + 1 /\ h.signer \in s.signers

\* The votes after the vote of the header: no other of its signer on that account.
Kept(s, h) == IF Checkpoint(h.number) THEN {} ELSE s.votes
Dropped(s, h) == {v \in Kept(s, h) : ~(v.signer = h.signer /\ v.address = h.coinbase)}
VoteOf(h) == [signer |-> h.signer, block |-> h.number, address |-> h.coinbase, authorize |-> h.authorize]
Ballots(s, h) == IF ValidVote(s, h.coinbase, h.authorize) THEN Dropped(s, h) \cup {VoteOf(h)} ELSE Dropped(s, h)

\* What a vote that passed changes.
Wins(s, h) == h.coinbase # 0 /\ Cardinality(On(Ballots(s, h), h.coinbase)) > Cardinality(s.signers) \div 2
NewSigners(s, h) ==
  IF ~Wins(s, h) THEN s.signers
  ELSE IF h.coinbase \in s.signers THEN s.signers \ {h.coinbase} ELSE s.signers \cup {h.coinbase}
NewVotes(s, h) ==
  {v \in Ballots(s, h) : Wins(s, h) => v.address # h.coinbase /\ ~(h.coinbase \in s.signers /\ v.signer = h.coinbase)}
Seen(s, h) == Recorded(Forgotten(s.recents, h.number, s.signers), h.number, h.signer)
NewRecents(s, h) ==
  IF Wins(s, h) /\ h.coinbase \in s.signers THEN Forgotten(Seen(s, h), h.number, NewSigners(s, h)) ELSE Seen(s, h)

\* The outcome of a header.
Applied(s, h, r) ==
  /\ r \in Snaps /\ r.number = h.number /\ r.signers = NewSigners(s, h) /\ r.recents = NewRecents(s, h)
  /\ r.votes = NewVotes(s, h) /\ CountedIn(r.votes, r.tally)

\* A fresh snapshot is as it should be.
LEMMA NewSnapshotOK ==
  ASSUME NEW n \in Nat, NEW S \in SUBSET Addresses, IsFiniteSet(S)
  PROVE  /\ SnapOK(NewSnapshot(n, S)) /\ NewSnapshot(n, S).number = n /\ NewSnapshot(n, S).signers = S
         /\ NewSnapshot(n, S).votes = {} /\ DOMAIN NewSnapshot(n, S).recents = {}
<1> DEFINE empty == [k \in {} |-> 0]
           none == [a \in Addresses |-> NoTally]
<1>1. empty \in Recents
  <2>1. empty \in [{} -> Addresses] /\ {} \in SUBSET Nat OBVIOUS
  <2> QED BY <2>1 DEF Recents
<1>2. none \in Tallies BY DEF Tallies, NoTally
<1>3. CountedIn({}, none)
  BY FS_EmptySet DEF On, CountedIn, NoTally
<1>4. NewSnapshot(n, S) = [number |-> n, signers |-> S, recents |-> empty, votes |-> {}, tally |-> none]
  BY DEF NewSnapshot
<1>5. Legal({}, S) /\ Window(empty, n, S) /\ DOMAIN empty = {} BY DEF Legal, Window
<1> HIDE DEF empty, none
<1>6. NewSnapshot(n, S) \in Snaps BY <1>1, <1>2, <1>4 DEF Snaps
<1> QED BY <1>3, <1>4, <1>5, <1>6 DEF SnapOK

\* At the beginning of a block votes are kept, except at a checkpoint.
LEMMA BegunIs ==
  ASSUME NEW s, SnapOK(s), NEW h, NextOf(s, h)
  PROVE  /\ Begun(s, h.number) \in Snaps
         /\ Begun(s, h.number).number = s.number /\ Begun(s, h.number).signers = s.signers
         /\ Begun(s, h.number).recents = Forgotten(s.recents, h.number, s.signers)
         /\ Begun(s, h.number).votes = Kept(s, h) /\ CountedIn(Kept(s, h), Begun(s, h.number).tally)
<1> DEFINE clean == IF Checkpoint(h.number) THEN NewSnapshot(s.number, s.signers) ELSE s
           forgotten == Forgotten(s.recents, h.number, s.signers)
<1>1. s \in Snaps /\ h.number \in Nat /\ s.recents \in Recents /\ IsFiniteSet(s.signers) /\ CountedIn(s.votes, s.tally)
  BY DEF SnapOK, Snaps, NextOf, Header
<1>2. forgotten \in Recents BY <1>1, ForgottenIs
<1>3. clean \in Snaps /\ clean.number = s.number /\ clean.signers = s.signers /\ clean.votes = Kept(s, h) /\ CountedIn(Kept(s, h), clean.tally)
  <2>1. CASE Checkpoint(h.number)
    <3>1. s.number \in Nat /\ s.signers \in SUBSET Addresses BY <1>1 DEF Snaps
    <3>2. clean = NewSnapshot(s.number, s.signers) /\ Kept(s, h) = {} BY <2>1 DEF Kept
    <3>3. SnapOK(clean) /\ clean.number = s.number /\ clean.signers = s.signers /\ clean.votes = {}
      BY <3>1, <3>2, <1>1, NewSnapshotOK
    <3> QED BY <3>2, <3>3 DEF SnapOK
  <2>2. CASE ~Checkpoint(h.number) BY <2>2, <1>1 DEF Kept
  <2> QED BY <2>1, <2>2
<1>4. Begun(s, h.number) = [clean EXCEPT !.recents = forgotten] BY DEF Begun
<1> HIDE DEF clean, forgotten
<1>5. /\ [clean EXCEPT !.recents = forgotten] \in Snaps /\ [clean EXCEPT !.recents = forgotten].number = clean.number
      /\ [clean EXCEPT !.recents = forgotten].signers = clean.signers /\ [clean EXCEPT !.recents = forgotten].recents = forgotten
      /\ [clean EXCEPT !.recents = forgotten].votes = clean.votes /\ [clean EXCEPT !.recents = forgotten].tally = clean.tally
  BY <1>2, <1>3 DEF Snaps
<1> QED BY <1>3, <1>4, <1>5 DEF forgotten

\* The votes stay legal with the vote of the header.
LEMMA BallotsLegal ==
  ASSUME NEW s, SnapOK(s), NEW h, NextOf(s, h)
  PROVE  /\ Legal(Ballots(s, h), s.signers) /\ Ballots(s, h) \subseteq s.votes \cup {VoteOf(h)}
         /\ Ballots(s, h) \in SUBSET Vote /\ IsFiniteSet(Ballots(s, h))
<1>1. Dropped(s, h) \subseteq s.votes /\ Kept(s, h) \subseteq s.votes /\ s.votes \in SUBSET Vote /\ IsFiniteSet(s.votes) /\ Legal(s.votes, s.signers)
  BY DEF Dropped, Kept, SnapOK, Snaps, CountedIn
<1>2. Legal(Dropped(s, h), s.signers) BY <1>1 DEF Legal
<1>3. IsFiniteSet(Dropped(s, h)) /\ IsFiniteSet(Dropped(s, h) \cup {VoteOf(h)}) BY <1>1, FS_Subset, FS_AddElement
<1>4. CASE ValidVote(s, h.coinbase, h.authorize)
  <2>1. h.coinbase \in Addresses /\ VoteOf(h) \in Vote /\ VoteOf(h).signer \in s.signers
    BY <1>4 DEF ValidVote, NextOf, Header, VoteOf, Vote, SnapOK, Snaps
  <2>2. \A v \in Dropped(s, h) : ~(v.signer = VoteOf(h).signer /\ v.address = VoteOf(h).address) BY DEF Dropped, VoteOf
  <2>3. VoteOf(h).address \in s.signers <=> ~VoteOf(h).authorize BY <1>4 DEF ValidVote, VoteOf
  <2>4. Legal(Dropped(s, h) \cup {VoteOf(h)}, s.signers) BY <2>1, <2>2, <2>3, <1>2 DEF Legal
  <2> QED BY <2>1, <2>4, <1>1, <1>3, <1>4 DEF Ballots
<1>5. CASE ~ValidVote(s, h.coinbase, h.authorize) BY <1>5, <1>1, <1>2, <1>3 DEF Ballots
<1> QED BY <1>4, <1>5

\* The old vote of the signer on the account is found and discarded, the new one cast.
LEMMA CastIs ==
  ASSUME NEW s, SnapOK(s), NEW h, NextOf(s, h), NEW signed \in Snaps, signed.signers = s.signers,
         signed.votes = Kept(s, h), CountedIn(signed.votes, signed.tally), NEW again,
         again = DiscardAll(signed, Earlier(signed, h.signer, h.coinbase))
  PROVE  /\ Cast(again, VoteOf(h)) \in Snaps /\ Cast(again, VoteOf(h)).number = signed.number
         /\ Cast(again, VoteOf(h)).signers = s.signers /\ Cast(again, VoteOf(h)).recents = signed.recents
         /\ Cast(again, VoteOf(h)).votes = Ballots(s, h) /\ CountedIn(Ballots(s, h), Cast(again, VoteOf(h)).tally)
<1> DEFINE v == VoteOf(h)
<1>1. signed.votes \in SUBSET Vote /\ \A w \in signed.votes : w.block \in Nat BY DEF Snaps, Vote
<1>2. Legal(s.votes, s.signers) /\ Kept(s, h) \subseteq s.votes BY DEF SnapOK, Kept
<1>3. Earlier(signed, h.signer, h.coinbase) = {w \in Kept(s, h) : w.signer = h.signer /\ w.address = h.coinbase}
  BY <1>1, <1>2 DEF Earlier, Legal
<1>4. Kept(s, h) \ Earlier(signed, h.signer, h.coinbase) = Dropped(s, h) BY <1>3 DEF Dropped
<1>5. Less(signed, again, Earlier(signed, h.signer, h.coinbase)) BY <1>3, DiscardAllHolds
<1>6. /\ again \in Snaps /\ again.number = signed.number /\ again.signers = s.signers /\ again.recents = signed.recents
      /\ again.votes = Dropped(s, h) /\ CountedIn(Dropped(s, h), again.tally) /\ again.tally \in Tallies /\ again.votes \in SUBSET Vote
  BY <1>4, <1>5 DEF Less, Snaps
<1>7. CASE ValidVote(s, h.coinbase, h.authorize)
  <2>1. v \in Vote /\ v.address = h.coinbase /\ v.authorize = h.authorize /\ v.signer = h.signer
    BY <1>7 DEF ValidVote, NextOf, Header, VoteOf, Vote, SnapOK, Snaps
  <2>2. ValidVote(again, v.address, v.authorize) BY <1>6, <1>7, <2>1 DEF ValidVote
  <2>3. Cast(again, v) = [again EXCEPT !.votes = again.votes \cup {v}, !.tally = CastIn(again.tally, v)]
    BY <2>2 DEF Cast, CastIn
  <2>4. v \notin again.votes BY <1>6, <2>1 DEF Dropped
  <2>5. \A w \in again.votes : w.address = v.address => w.authorize = v.authorize
    BY <1>2, <1>6, <1>7, <2>1 DEF Dropped, Legal, Vote, ValidVote
  <2>6. CastIn(again.tally, v) \in Tallies /\ CountedIn(again.votes \cup {v}, CastIn(again.tally, v))
    BY <1>6, <2>1, <2>4, <2>5, CastHolds
  <2>7. Ballots(s, h) = again.votes \cup {v} /\ again.votes \cup {v} \in SUBSET Vote BY <1>6, <1>7, <2>1 DEF Ballots
  <2> DEFINE t == CastIn(again.tally, v)
             w == again.votes \cup {v}
  <2> HIDE DEF t, w, v
  <2>8. /\ [again EXCEPT !.votes = w, !.tally = t] \in Snaps
        /\ [again EXCEPT !.votes = w, !.tally = t].number = again.number
        /\ [again EXCEPT !.votes = w, !.tally = t].signers = again.signers
        /\ [again EXCEPT !.votes = w, !.tally = t].recents = again.recents
        /\ [again EXCEPT !.votes = w, !.tally = t].votes = w
        /\ [again EXCEPT !.votes = w, !.tally = t].tally = t
    BY <1>6, <2>6, <2>7 DEF t, w, Snaps
  <2> QED BY <1>6, <2>3, <2>6, <2>7, <2>8 DEF t, w, v
<1>8. CASE ~ValidVote(s, h.coinbase, h.authorize)
  BY <1>6, <1>8 DEF ValidVote, VoteOf, Cast, Ballots
<1> QED BY <1>7, <1>8

\* All votes on an account end.
LEMMA EndedHolds ==
  ASSUME NEW votes \in SUBSET Vote, NEW tally \in Tallies, CountedIn(votes, tally), NEW a \in Addresses
  PROVE  /\ [tally EXCEPT ![a] = NoTally] \in Tallies
         /\ CountedIn({v \in votes : v.address # a}, [tally EXCEPT ![a] = NoTally])
<1> DEFINE rest == {v \in votes : v.address # a}
           t == [tally EXCEPT ![a] = NoTally]
<1>1. NoTally \in [authorize : BOOLEAN, votes : Nat] /\ NoTally.votes = 0 BY DEF NoTally
<1>2. t \in Tallies /\ t[a] = NoTally /\ \A b \in Addresses : b # a => t[b] = tally[b] BY <1>1 DEF Tallies
<1>3. IsFiniteSet(rest) BY FS_Subset DEF CountedIn
<1>4. On(rest, a) = {} /\ \A b \in Addresses : b # a => On(rest, b) = On(votes, b) BY DEF On
<1> HIDE DEF t
<1>5. ASSUME NEW b \in Addresses PROVE t[b].votes = Cardinality(On(rest, b)) /\ (t[b].votes = 0 => t[b] = NoTally)
  <2>1. CASE b = a BY <2>1, <1>1, <1>2, <1>4, FS_EmptySet
  <2>2. CASE b # a BY <2>2, <1>2, <1>4 DEF CountedIn
  <2> QED BY <2>1, <2>2
<1>6. ASSUME NEW v \in rest PROVE t[v.address].authorize = v.authorize
  BY <1>2 DEF Vote, CountedIn
<1>7. CountedIn(rest, t) BY <1>3, <1>5, <1>6 DEF CountedIn
<1> QED BY <1>2, <1>7 DEF t

\* The vote passes or does not.
LEMMA PassedIs ==
  ASSUME NEW s, SnapOK(s), NEW h, NextOf(s, h), NEW c \in Snaps, c.number = s.number, c.signers = s.signers, c.recents = Seen(s, h),
         c.votes = Ballots(s, h), CountedIn(c.votes, c.tally)
  PROVE  Applied(s, h, [Passed(c, h.coinbase, h.number) EXCEPT !.number = h.number])
<1> DEFINE a == h.coinbase
           n == h.number
           p == Passed(c, a, n)
<1>1. n \in Nat /\ a \in Addresses \cup {0} /\ c.tally \in Tallies /\ c.votes \in SUBSET Vote /\ c.recents \in Recents
  BY DEF NextOf, Header, Snaps
<1>2. Legal(c.votes, s.signers) BY BallotsLegal
<1>3. a # 0 => c.tally[a].votes = Cardinality(On(Ballots(s, h), a)) /\ c.tally[a].votes \in Nat
  BY <1>1 DEF CountedIn, Tallies
<1>4. Cardinality(s.signers) \in Nat /\ IsFiniteSet(s.signers) /\ Cardinality(s.signers) \div 2 \in Nat
  BY FS_CardinalityType DEF SnapOK
<1>5. Wins(s, h) <=> ~(a = 0 \/ c.tally[a].votes <= Cardinality(c.signers) \div 2) BY <1>3, <1>4 DEF Wins
<1>6. p \in Snaps /\ p.signers = NewSigners(s, h) /\ p.recents = NewRecents(s, h) /\ p.votes = NewVotes(s, h) /\ CountedIn(p.votes, p.tally)
  <2>1. CASE ~Wins(s, h)
    BY <2>1, <1>5 DEF Passed, NewVotes, NewSigners, NewRecents
  <2>2. CASE Wins(s, h)
    <3> DEFINE changed == IF c.tally[a].authorize THEN [c EXCEPT !.signers = @ \cup {a}] ELSE Remove(c, a, n)
    <3>1. a \in Addresses BY <2>2, <1>1 DEF Wins
    <3>2. a \in s.signers <=> ~c.tally[a].authorize
      <4>1. On(Ballots(s, h), a) # {} BY <2>2, <1>3, <1>4, <1>5, FS_EmptySet
      <4>2. PICK v \in Ballots(s, h) : v.address = a BY <4>1 DEF On
      <4> QED BY <4>2, <1>2 DEF Legal, CountedIn
    <3> DEFINE E == IF a \in s.signers THEN {v \in c.votes : v.signer = a} ELSE {}
    <3>3. /\ changed \in Snaps /\ changed.signers = NewSigners(s, h) /\ changed.recents = NewRecents(s, h)
          /\ changed.votes = c.votes \ E /\ CountedIn(changed.votes, changed.tally)
      <4>1. CASE a \notin s.signers
        <5>1. changed = [c EXCEPT !.signers = c.signers \cup {a}] /\ c.signers \cup {a} \in SUBSET Addresses
          BY <4>1, <3>1, <3>2 DEF Snaps
        <5>2. NewSigners(s, h) = c.signers \cup {a} /\ NewRecents(s, h) = c.recents
          BY <4>1, <2>2 DEF NewSigners, NewRecents
        <5> HIDE DEF changed
        <5>3. /\ changed \in Snaps /\ changed.signers = c.signers \cup {a} /\ changed.recents = c.recents
              /\ changed.votes = c.votes /\ changed.tally = c.tally
          BY <5>1 DEF Snaps
        <5> QED BY <4>1, <5>2, <5>3
      <4>2. CASE a \in s.signers
        <5> DEFINE rest == [c EXCEPT !.signers = c.signers \ {a}]
                   over == Forgotten(c.recents, n, c.signers \ {a})
                   less == [rest EXCEPT !.recents = over]
        <5>1. changed = Remove(c, a, n) BY <4>2, <3>2
        <5>2. /\ rest \in Snaps /\ rest.signers = c.signers \ {a} /\ rest.recents = c.recents
              /\ rest.votes = c.votes /\ rest.tally = c.tally
          BY DEF Snaps
        <5>3. Remove(c, a, n) = DiscardAll(less, {v \in c.votes : v.signer = a}) BY <5>2 DEF Remove
        <5>4. IsFiniteSet(c.signers \ {a}) BY <1>4, FS_Subset
        <5>5. over \in Recents BY <1>1, <5>4, ForgottenIs
        <5> HIDE DEF rest, over
        <5>6. less \in Snaps /\ less.signers = c.signers \ {a} /\ less.recents = over /\ less.votes = c.votes /\ less.tally = c.tally
          BY <5>2, <5>5 DEF Snaps
        <5> HIDE DEF less, changed
        <5>7. Less(less, changed, {v \in c.votes : v.signer = a}) BY <5>1, <5>3, <5>6, DiscardAllHolds
        <5>8. NewSigners(s, h) = c.signers \ {a} /\ NewRecents(s, h) = over
          BY <4>2, <2>2 DEF NewSigners, NewRecents, over
        <5> QED BY <4>2, <5>6, <5>7, <5>8 DEF Less
      <4> QED BY <4>1, <4>2
    <3>4. p = [changed EXCEPT !.votes = {v \in changed.votes : v.address # a}, !.tally = [changed.tally EXCEPT ![a] = NoTally]]
      BY <2>2, <1>5 DEF Passed
    <3>5. {v \in changed.votes : v.address # a} = NewVotes(s, h) BY <2>2, <3>3 DEF NewVotes
    <3>6. changed.votes \in SUBSET Vote /\ changed.tally \in Tallies BY <3>3 DEF Snaps
    <3> HIDE DEF changed
    <3>7. [changed.tally EXCEPT ![a] = NoTally] \in Tallies /\ CountedIn({v \in changed.votes : v.address # a}, [changed.tally EXCEPT ![a] = NoTally])
      BY <3>1, <3>3, <3>6, EndedHolds
    <3> DEFINE t == [changed.tally EXCEPT ![a] = NoTally]
               w == {v \in changed.votes : v.address # a}
    <3>8. w \in SUBSET Vote BY <3>6
    <3> HIDE DEF t, w
    <3>9. /\ [changed EXCEPT !.votes = w, !.tally = t] \in Snaps
          /\ [changed EXCEPT !.votes = w, !.tally = t].signers = changed.signers
          /\ [changed EXCEPT !.votes = w, !.tally = t].recents = changed.recents
          /\ [changed EXCEPT !.votes = w, !.tally = t].votes = w
          /\ [changed EXCEPT !.votes = w, !.tally = t].tally = t
      BY <3>3, <3>7, <3>8 DEF t, Snaps
    <3> QED BY <3>3, <3>4, <3>5, <3>7, <3>9 DEF t, w
  <2> QED BY <2>1, <2>2
<1> HIDE DEF p
<1>7. /\ [p EXCEPT !.number = n] \in Snaps /\ [p EXCEPT !.number = n].number = n
      /\ [p EXCEPT !.number = n].signers = p.signers /\ [p EXCEPT !.number = n].recents = p.recents
      /\ [p EXCEPT !.number = n].votes = p.votes /\ [p EXCEPT !.number = n].tally = p.tally
  BY <1>1, <1>6 DEF Snaps
<1>8. Applied(s, h, [p EXCEPT !.number = n]) BY <1>6, <1>7 DEF Applied
<1> QED BY <1>8 DEF p

\* What a header does to a snapshot.
LEMMA ApplyIs ==
  ASSUME NEW s, SnapOK(s), NEW h, NextOf(s, h) PROVE Applied(s, h, Apply(s, h))
<1> DEFINE n == h.number
           b == Begun(s, n)
           signed == [b EXCEPT !.recents = Recorded(b.recents, n, h.signer)]
           again == DiscardAll(signed, Earlier(signed, h.signer, h.coinbase))
           c == Cast(again, VoteOf(h))
<1>1. /\ b \in Snaps /\ b.number = s.number /\ b.signers = s.signers /\ b.recents = Forgotten(s.recents, n, s.signers)
      /\ b.votes = Kept(s, h) /\ CountedIn(Kept(s, h), b.tally)
  BY BegunIs
<1>2. n \in Nat /\ h.signer \in Addresses /\ b.recents \in Recents BY <1>1 DEF NextOf, Header, Snaps
<1>3. Recorded(b.recents, n, h.signer) \in Recents /\ Recorded(b.recents, n, h.signer) = Seen(s, h)
  BY <1>1, <1>2, RecordedIs DEF Seen
<1>4. Apply(s, h) = [Passed(c, h.coinbase, n) EXCEPT !.number = n] BY DEF Apply, VoteOf
<1> HIDE DEF b
<1>5. signed \in Snaps /\ signed.number = s.number /\ signed.signers = s.signers /\ signed.recents = Seen(s, h) /\ signed.votes = Kept(s, h) /\ signed.tally = b.tally
  BY <1>1, <1>3 DEF Snaps
<1> HIDE DEF signed
<1>6. /\ c \in Snaps /\ c.number = s.number /\ c.signers = s.signers /\ c.recents = Seen(s, h)
      /\ c.votes = Ballots(s, h) /\ CountedIn(c.votes, c.tally)
  BY <1>1, <1>5, CastIs
<1> HIDE DEF c
<1>7. Applied(s, h, [Passed(c, h.coinbase, h.number) EXCEPT !.number = h.number]) BY <1>6, PassedIs
<1> QED BY <1>4, <1>7

\* A header leaves a snapshot as it should be.
LEMMA AppliedOK ==
  ASSUME NEW s, SnapOK(s), NEW h, NextOf(s, h), NEW r, Applied(s, h, r) PROVE SnapOK(r)
<1> DEFINE a == h.coinbase
           n == h.number
           S == s.signers
           T == NewSigners(s, h)
<1>1. /\ n \in Nat /\ n = s.number + 1 /\ s.number \in Nat /\ h.signer \in Addresses /\ IsFiniteSet(S)
      /\ s.recents \in Recents /\ Window(s.recents, s.number, S)
  BY DEF NextOf, Header, SnapOK, Snaps
<1>2. IsFiniteSet(T) /\ Limit(S) \in Nat \ {0} /\ Limit(T) \in Nat \ {0} /\ (T = S \/ Limit(T) >= Limit(S) \/ (Wins(s, h) /\ a \in S /\ T = S \ {a} /\ Limit(T) >= Limit(S) - 1))
  <2>1. CASE T = S BY <2>1, <1>1, LimitIs
  <2>2. CASE T = S \cup {a} /\ a \notin S
    <3>1. IsFiniteSet(T) /\ Cardinality(T) = Cardinality(S) + 1 BY <2>2, <1>1, FS_AddElement
    <3>2. /\ Cardinality(S) \in Nat /\ Limit(S) \in Nat \ {0} /\ Limit(S) = Cardinality(S) \div 2 + 1
          /\ Limit(T) \in Nat \ {0} /\ Limit(T) = Cardinality(T) \div 2 + 1
      BY <3>1, <1>1, LimitIs
    <3> QED BY <3>1, <3>2
  <2>3. CASE Wins(s, h) /\ a \in S /\ T = S \ {a}
    <3>1. IsFiniteSet(T) /\ Cardinality(T) = Cardinality(S) - 1 BY <2>3, <1>1, FS_RemoveElement
    <3>2. /\ Cardinality(S) \in Nat /\ Limit(S) \in Nat \ {0} /\ Limit(S) = Cardinality(S) \div 2 + 1
          /\ Cardinality(T) \in Nat /\ Limit(T) \in Nat \ {0} /\ Limit(T) = Cardinality(T) \div 2 + 1
      BY <3>1, <1>1, LimitIs
    <3> QED BY <3>1, <3>2, <2>3
  <2> QED BY <2>1, <2>2, <2>3 DEF NewSigners
<1> HIDE DEF T
<1>3. /\ Forgotten(s.recents, n, S) \in Recents /\ DOMAIN s.recents \subseteq Nat
      /\ DOMAIN Forgotten(s.recents, n, S) = {k \in DOMAIN s.recents : k + Limit(S) # n}
  <2>1. s.recents \in Recents /\ n \in Nat /\ IsFiniteSet(S) BY <1>1
  <2> HIDE DEF n, S
  <2> QED BY <2>1, ForgottenIs
<1>4. Seen(s, h) \in Recents /\ DOMAIN Seen(s, h) = {k \in DOMAIN s.recents : k + Limit(S) # n} \cup {n}
  <2> DEFINE g == Forgotten(s.recents, n, S)
  <2>1. g \in Recents /\ n \in Nat /\ h.signer \in Addresses BY <1>1, <1>3
  <2>2. Seen(s, h) = Recorded(g, n, h.signer) BY DEF Seen
  <2>3. DOMAIN g = {k \in DOMAIN s.recents : k + Limit(S) # n} BY <1>3
  <2> HIDE DEF g, n, S
  <2>4. Recorded(g, n, h.signer) \in Recents /\ DOMAIN Recorded(g, n, h.signer) = DOMAIN g \cup {n} BY <2>1, RecordedIs
  <2> QED BY <2>2, <2>3, <2>4
<1>5. \A k \in DOMAIN Seen(s, h) : k \in 1..n /\ k + Limit(S) > n
  BY <1>1, <1>2, <1>4 DEF Window
<1>6. Window(NewRecents(s, h), n, T)
  <2>1. CASE Wins(s, h) /\ a \in S
    <3>1. T = S \ {a} /\ NewRecents(s, h) = Forgotten(Seen(s, h), n, T) BY <2>1 DEF NewRecents, NewSigners, T
    <3>2. DOMAIN NewRecents(s, h) = {k \in DOMAIN Seen(s, h) : k + Limit(T) # n}
      <4>1. Seen(s, h) \in Recents /\ n \in Nat /\ IsFiniteSet(T) BY <1>1, <1>2, <1>4
      <4> HIDE DEF n
      <4>2. DOMAIN Forgotten(Seen(s, h), n, T) = {k \in DOMAIN Seen(s, h) : k + Limit(T) # n} BY <4>1, ForgottenIs
      <4> QED BY <4>2, <3>1
    <3>3. Limit(T) >= Limit(S) - 1 BY <1>2
    <3>4. \A k \in DOMAIN Seen(s, h) : k + Limit(T) # n => k + Limit(T) > n BY <3>3, <1>1, <1>2, <1>5
    <3> QED BY <3>2, <3>4, <1>5 DEF Window
  <2>2. CASE ~(Wins(s, h) /\ a \in S)
    BY <2>2, <1>2, <1>1, <1>5 DEF NewRecents, Window
  <2> QED BY <2>1, <2>2
<1>7. Legal(NewVotes(s, h), T)
  <2>1. Legal(Ballots(s, h), S) BY BallotsLegal
  <2>2. NewVotes(s, h) \subseteq Ballots(s, h) BY DEF NewVotes
  <2>3. ASSUME NEW v \in NewVotes(s, h) PROVE v.signer \in T /\ (v.address \in T <=> ~v.authorize)
    <3>1. v.signer \in S /\ (v.address \in S <=> ~v.authorize) BY <2>1, <2>2 DEF Legal
    <3>2. CASE ~Wins(s, h) BY <3>1, <3>2 DEF NewSigners, T
    <3>3. CASE Wins(s, h)
      BY <3>3, <3>1 DEF NewVotes, NewSigners, T
    <3> QED BY <3>2, <3>3
  <2> QED BY <2>1, <2>2, <2>3 DEF Legal
<1> QED BY <1>2, <1>6, <1>7 DEF Applied, SnapOK, T

-----------------------------------------------------------------------------
(* Who may sign.                                                           *)

\* The subtraction does not wrap at numbers from the limit on.
LEMMA MinusIs ==
  ASSUME NEW n \in 0..MaxNumber, NEW l \in Nat \ {0}, l <= n PROVE Minus(n, l) = n - l
<1> DEFINE d == n - l
<1>1. d \in Nat /\ d < Wrap /\ Wrap \in Nat /\ n + Wrap - l = d + Wrap BY CliqueAssumption
<1> HIDE DEF d
<1>2. (d + Wrap) % Wrap = d BY <1>1
<1> QED BY <1>1, <1>2 DEF Minus, d

\* Who waited for the limit passes the check of a snapshot.
LEMMA WaitedApplies ==
  ASSUME NEW s, SnapOK(s), NEW h, NextOf(s, h),
         \A k \in DOMAIN s.recents : s.recents[k] = h.signer => k <= h.number - Limit(s.signers) PROVE Applies(s, h)
<1> DEFINE F == Forgotten(s.recents, h.number, s.signers)
<1>1. Begun(s, h.number).recents = F /\ Begun(s, h.number).signers = s.signers BY BegunIs
<1>2. /\ h.number \in Nat /\ h.number = s.number + 1 /\ s.number \in Nat /\ s.recents \in Recents /\ IsFiniteSet(s.signers)
      /\ Limit(s.signers) \in Nat /\ h.signer \in s.signers /\ Window(s.recents, s.number, s.signers)
  BY LimitIs DEF NextOf, Header, SnapOK, Snaps
<1>3. /\ DOMAIN F = {k \in DOMAIN s.recents : k + Limit(s.signers) # h.number}
      /\ \A k \in DOMAIN F : F[k] = s.recents[k]
  <2> DEFINE r == s.recents
             n == h.number
             S == s.signers
  <2>1. r \in Recents /\ n \in Nat /\ IsFiniteSet(S) BY <1>2
  <2> HIDE DEF r, n, S
  <2>2. DOMAIN Forgotten(r, n, S) = {k \in DOMAIN r : k + Limit(S) # n} BY <2>1, ForgottenIs
  <2>3. \A k \in DOMAIN Forgotten(r, n, S) : Forgotten(r, n, S)[k] = r[k] /\ r[k] \in Addresses BY <2>1, ForgottenIs
  <2> QED BY <2>2, <2>3 DEF r, n, S
<1>4. ASSUME NEW k \in DOMAIN F, F[k] = h.signer PROVE FALSE
  BY <1>3, <1>4, <1>2 DEF Window
<1> QED BY <1>1, <1>2, <1>4 DEF Applies

\* A header of the network is refused by a snapshot below the limit only.
LEMMA VerifiedRefused ==
  ASSUME NEW s, SnapOK(s), NEW h, NextOf(s, h), VerifySeal(s, h), ~Applies(s, h) PROVE h.number < Limit(s.signers)
<1>1. h.number \in 0..MaxNumber /\ Limit(s.signers) \in Nat \ {0}
  BY LimitIs, CliqueAssumption DEF NextOf, Header, SnapOK
<1>2. SUFFICES ASSUME Limit(s.signers) <= h.number PROVE Applies(s, h) BY <1>1
<1>3. Minus(h.number, Limit(s.signers)) = h.number - Limit(s.signers) BY <1>1, <1>2, MinusIs
<1> QED BY <1>3, WaitedApplies DEF VerifySeal

\* Recent signers are too few to lock out all signers.
LEMMA OneMaySign ==
  ASSUME NEW s, SnapOK(s), s.signers # {} PROVE \E a \in s.signers : MaySeal(s, s.number + 1, a)
<1> DEFINE n == s.number + 1
           L == Limit(s.signers)
           K == {k \in DOMAIN s.recents : ~(n >= L /\ k <= n - L)}
<1>1. /\ n \in Nat \ {0} /\ s.number \in Nat /\ IsFiniteSet(s.signers)
      /\ Cardinality(s.signers) \in Nat /\ L \in Nat \ {0} /\ 2 * (L - 1) <= Cardinality(s.signers)
      /\ \A k \in DOMAIN s.recents : k \in 1..(n - 1)
  BY LimitIs DEF SnapOK, Snaps, Window
<1>2. Cardinality(s.signers) # 0 BY <1>1, FS_EmptySet
<1> HIDE DEF n, L
<1>3. IsFiniteSet(K) /\ Cardinality(K) \in Nat /\ Cardinality(K) < Cardinality(s.signers)
  <2>1. CASE n >= L
    <3> DEFINE I == (n - L + 1)..(n - 1)
    <3>1. K \subseteq I BY <2>1, <1>1
    <3>2. n - L + 1 \in Int /\ n - 1 \in Int BY <1>1
    <3>3. IsFiniteSet(I) /\ Cardinality(I) = IF n - L + 1 > n - 1 THEN 0 ELSE (n - 1) - (n - L + 1) + 1
      BY <3>2, FS_Interval
    <3>4. Cardinality(I) = L - 1 BY <3>3, <1>1
    <3> HIDE DEF I
    <3>5. IsFiniteSet(K) /\ Cardinality(K) \in Nat /\ Cardinality(K) <= L - 1
      BY <3>1, <3>3, <3>4, FS_Subset, FS_CardinalityType
    <3> QED BY <3>5, <1>1, <1>2
  <2>2. CASE ~(n >= L)
    <3> DEFINE I == 1..(n - 1)
    <3>1. K \subseteq I BY <1>1
    <3>2. 1 \in Int /\ n - 1 \in Int BY <1>1
    <3>3. IsFiniteSet(I) /\ Cardinality(I) = IF 1 > n - 1 THEN 0 ELSE (n - 1) - 1 + 1 BY <3>2, FS_Interval
    <3>4. Cardinality(I) = n - 1 BY <3>3, <1>1
    <3> HIDE DEF I
    <3>5. IsFiniteSet(K) /\ Cardinality(K) \in Nat /\ Cardinality(K) <= n - 1
      BY <3>1, <3>3, <3>4, FS_Subset, FS_CardinalityType
    <3> QED BY <3>5, <2>2, <1>1, <1>2
  <2> QED BY <2>1, <2>2
<1>4. SUFFICES ASSUME \A a \in s.signers : ~MaySeal(s, n, a) PROVE FALSE BY DEF n
<1>5. \A a \in s.signers : \E k \in K : s.recents[k] = a BY <1>4 DEF MaySeal, L
<1> HIDE DEF K
<1> DEFINE f == [a \in s.signers |-> CHOOSE k \in K : s.recents[k] = a]
<1>6. \A a \in s.signers : f[a] \in K /\ s.recents[f[a]] = a BY <1>5
<1>7. f \in Injection(s.signers, K)
  <2>1. f \in [s.signers -> K] BY <1>6
  <2>2. \A a, b \in s.signers : f[a] = f[b] => a = b BY <1>6
  <2> HIDE DEF f
  <2> QED BY <2>1, <2>2 DEF Injection, IsInjective
<1>8. Cardinality(s.signers) <= Cardinality(K) BY <1>3, <1>7, FS_Injection
<1> QED BY <1>1, <1>3, <1>8

\* The votes on an account are at most as many as those who cast them.
LEMMA VotersOf ==
  ASSUME NEW votes \in SUBSET Vote, IsFiniteSet(votes), NEW S, Legal(votes, S), NEW a, NEW V, IsFiniteSet(V),
         \A v \in On(votes, a) : v.signer \in V
  PROVE  Cardinality(On(votes, a)) \in Nat /\ Cardinality(V) \in Nat /\ Cardinality(On(votes, a)) <= Cardinality(V)
<1> DEFINE W == On(votes, a)
           f == [v \in W |-> v.signer]
<1>1. IsFiniteSet(W) BY FS_Subset DEF On
<1>2. f \in [W -> V] OBVIOUS
<1>3. \A v, w \in W : f[v] = f[w] => v = w BY DEF On, Legal
<1> HIDE DEF f, W
<1>4. f \in Injection(W, V) BY <1>2, <1>3 DEF Injection, IsInjective
<1> QED BY <1>1, <1>4, FS_Injection, FS_CardinalityType DEF W

-----------------------------------------------------------------------------
(* Two snapshots behind the same headers.                                  *)

\* What one knows of recent signers the other knows too.
Within(r, q) == \A k \in DOMAIN r : k \in DOMAIN q /\ r[k] = q[k]

\* They differ in the signers before the checkpoint only.
Agree(l, s) ==
  l.number = s.number /\ l.signers = s.signers /\ l.votes = s.votes /\ Within(l.recents, s.recents)

\* Both forget the same block.
LEMMA ForgottenWithin ==
  ASSUME NEW r \in Recents, NEW q \in Recents, Within(r, q), NEW n \in Nat, NEW S, IsFiniteSet(S)
  PROVE  Within(Forgotten(r, n, S), Forgotten(q, n, S))
<1>1. /\ DOMAIN Forgotten(r, n, S) = {k \in DOMAIN r : k + Limit(S) # n}
      /\ \A k \in DOMAIN Forgotten(r, n, S) : Forgotten(r, n, S)[k] = r[k] /\ r[k] \in Addresses
  BY ForgottenIs
<1>2. /\ DOMAIN Forgotten(q, n, S) = {k \in DOMAIN q : k + Limit(S) # n}
      /\ \A k \in DOMAIN Forgotten(q, n, S) : Forgotten(q, n, S)[k] = q[k] /\ q[k] \in Addresses
  BY ForgottenIs
<1> QED BY <1>1, <1>2 DEF Within

\* Both record the same signer.
LEMMA RecordedWithin ==
  ASSUME NEW r \in Recents, NEW q \in Recents, Within(r, q), NEW n \in Nat, NEW a \in Addresses
  PROVE  Within(Recorded(r, n, a), Recorded(q, n, a))
<1>1. /\ DOMAIN Recorded(r, n, a) = DOMAIN r \cup {n} /\ Recorded(r, n, a)[n] = a
      /\ \A k \in DOMAIN r : k # n => Recorded(r, n, a)[k] = r[k]
  BY RecordedIs
<1>2. /\ DOMAIN Recorded(q, n, a) = DOMAIN q \cup {n} /\ Recorded(q, n, a)[n] = a
      /\ \A k \in DOMAIN q : k # n => Recorded(q, n, a)[k] = q[k]
  BY RecordedIs
<1> QED BY <1>1, <1>2 DEF Within

\* What the one takes the other takes.
LEMMA AgreeApplies ==
  ASSUME NEW l, SnapOK(l), NEW s, SnapOK(s), Agree(l, s), NEW h, NextOf(s, h), Applies(s, h)
  PROVE  NextOf(l, h) /\ Applies(l, h)
<1> DEFINE n == h.number
           S == s.signers
<1>1. NextOf(l, h) BY DEF NextOf, Agree
<1>2. /\ Begun(s, n).recents = Forgotten(s.recents, n, S) /\ Begun(s, n).signers = S
      /\ Begun(l, n).recents = Forgotten(l.recents, n, S) /\ Begun(l, n).signers = S
  BY <1>1, BegunIs DEF Agree
<1>3. l.recents \in Recents /\ s.recents \in Recents /\ Within(l.recents, s.recents) /\ n \in Nat /\ IsFiniteSet(S)
  BY DEF SnapOK, Snaps, Agree, NextOf, Header
<1> HIDE DEF n, S
<1>4. Within(Forgotten(l.recents, n, S), Forgotten(s.recents, n, S)) BY <1>3, ForgottenWithin
<1>5. Applies(l, h) BY <1>2, <1>4 DEF Applies, Within, n
<1> QED BY <1>1, <1>5

\* They agree on the outcome.
LEMMA AgreeApplied ==
  ASSUME NEW l, SnapOK(l), NEW s, SnapOK(s), Agree(l, s), NEW h, NextOf(s, h),
         NEW r, Applied(l, h, r), NEW q, Applied(s, h, q) PROVE Agree(r, q)
<1> DEFINE n == h.number
           S == s.signers
<1>1. l.signers = S /\ l.votes = s.votes BY DEF Agree
<1>2. Ballots(l, h) = Ballots(s, h) BY <1>1 DEF Ballots, Dropped, Kept, ValidVote
<1>3. Wins(l, h) = Wins(s, h) BY <1>1, <1>2 DEF Wins
<1>4. NewSigners(l, h) = NewSigners(s, h) /\ NewVotes(l, h) = NewVotes(s, h)
  BY <1>1, <1>2, <1>3 DEF NewSigners, NewVotes
<1>5. /\ l.recents \in Recents /\ s.recents \in Recents /\ Within(l.recents, s.recents)
      /\ n \in Nat /\ h.signer \in Addresses /\ IsFiniteSet(S) /\ IsFiniteSet(q.signers) /\ q.signers = NewSigners(s, h)
  BY AppliedOK DEF SnapOK, Snaps, Agree, NextOf, Header, Applied
<1> DEFINE T == NewSigners(s, h)
           lf == Forgotten(l.recents, n, S)
           sf == Forgotten(s.recents, n, S)
<1>6. lf \in Recents /\ sf \in Recents /\ Within(lf, sf)
  <2> HIDE DEF n, S
  <2> QED BY <1>5, ForgottenIs, ForgottenWithin
<1>7. Seen(l, h) = Recorded(lf, n, h.signer) /\ Seen(s, h) = Recorded(sf, n, h.signer) BY <1>1 DEF Seen
<1>8. Seen(l, h) \in Recents /\ Seen(s, h) \in Recents /\ Within(Seen(l, h), Seen(s, h))
  <2> DEFINE a == h.signer
  <2>1. n \in Nat /\ a \in Addresses /\ Seen(l, h) = Recorded(lf, n, a) /\ Seen(s, h) = Recorded(sf, n, a) BY <1>5, <1>7
  <2> HIDE DEF lf, sf, n, a
  <2>2. Recorded(lf, n, a) \in Recents /\ Recorded(sf, n, a) \in Recents BY <1>6, <2>1, RecordedIs
  <2>3. Within(Recorded(lf, n, a), Recorded(sf, n, a)) BY <1>6, <2>1, RecordedWithin
  <2> QED BY <2>1, <2>2, <2>3
<1>9. Within(Forgotten(Seen(l, h), n, T), Forgotten(Seen(s, h), n, T))
  <2>1. IsFiniteSet(T) BY <1>5
  <2> HIDE DEF n, T
  <2> QED BY <2>1, <1>5, <1>8, ForgottenWithin
<1>10. Within(NewRecents(l, h), NewRecents(s, h))
  <2> HIDE DEF n
  <2>1. CASE Wins(s, h) /\ h.coinbase \in S BY <2>1, <1>1, <1>3, <1>4, <1>9 DEF NewRecents, n
  <2>2. CASE ~(Wins(s, h) /\ h.coinbase \in S) BY <2>2, <1>1, <1>3, <1>8 DEF NewRecents
  <2> QED BY <2>1, <2>2
<1> QED BY <1>4, <1>10 DEF Applied, Agree

-----------------------------------------------------------------------------
(* The engine.                                                             *)

\* A checkpoint leaves no votes.
SnapInv == SnapOK(snap) /\ snap.number <= MaxNumber /\ (Checkpoint(snap.number) => snap.votes = {})

\* The light node walks behind the same headers.
LightInv == light # Nothing /\ ~stuck => SnapOK(light) /\ Agree(light, snap)

\* The work is for the head, and as others would have it.
WorkInv ==
  work # Nothing =>
    /\ work \in Header /\ work.number = snap.number + 1 /\ WellFormed(work) /\ ~stuck
    /\ work.difficulty = IF InTurn(snap, work.number, work.signer) THEN 2 ELSE 1

CliqueInv ==
  /\ SnapInv /\ LightInv /\ WorkInv
  /\ key \in Addresses /\ stuck \in BOOLEAN /\ (stuck => snap.number + 1 < Limit(snap.signers))

\* A network begins with a list of signers.
LEMMA CliqueInitOK == CliqueInit => CliqueInv
<1> SUFFICES ASSUME CliqueInit PROVE CliqueInv OBVIOUS
<1>1. PICK S \in GenesisLists : snap = NewSnapshot(0, S) /\ key \in S BY DEF CliqueInit
<1>2. S \in SUBSET Addresses /\ IsFiniteSet(S) /\ 0 \in Nat /\ 0 <= MaxNumber BY CliqueAssumption
<1>3. SnapOK(snap) /\ snap.number = 0 /\ snap.votes = {} BY <1>1, <1>2, NewSnapshotOK
<1> QED BY <1>1, <1>2, <1>3 DEF CliqueInit, CliqueInv, SnapInv, LightInv, WorkInv

\* After a checkpoint header no votes are left.
LEMMA CheckpointEndsVotes ==
  ASSUME NEW s, NEW h, WellFormed(h), Checkpoint(h.number) PROVE NewVotes(s, h) = {}
<1>1. Kept(s, h) = {} /\ ~ValidVote(s, h.coinbase, h.authorize) BY DEF Kept, ValidVote, WellFormed
<1> QED BY <1>1 DEF NewVotes, Ballots, Dropped

\* A new head.
LEMMA ExtendOK ==
  ASSUME CliqueInv, ~stuck, NEW h, NextOf(snap, h), WellFormed(h), Extend(h), UNCHANGED key,
         ~Applies(snap, h) => h.number < Limit(snap.signers) PROVE CliqueInv'
<1>1. /\ SnapOK(snap) /\ h.number = snap.number + 1 /\ h.number <= MaxNumber /\ key' \in Addresses /\ work' = Nothing
      /\ h.number \in Nat /\ snap.number \in Nat
  BY DEF CliqueInv, SnapInv, NextOf, Header, Extend, SnapOK, Snaps
<1>2. CASE Applies(snap, h)
  <2>1. snap' = Apply(snap, h) /\ stuck' = stuck BY <1>2 DEF Extend
  <2>2. Applied(snap, h, snap') BY <1>1, <2>1, ApplyIs
  <2>3. SnapOK(snap') BY <1>1, <2>2, AppliedOK
  <2>4. snap'.number = h.number /\ (Checkpoint(h.number) => snap'.votes = {}) BY <2>2, CheckpointEndsVotes DEF Applied
  <2>5. SnapInv' BY <1>1, <2>3, <2>4 DEF SnapInv
  <2>6. LightInv'
    <3>1. SUFFICES ASSUME light' # Nothing PROVE SnapOK(light') /\ Agree(light', snap') BY DEF LightInv
    <3>2. light # Nothing BY <3>1 DEF Extend
    <3>3. SnapOK(light) /\ Agree(light, snap) BY <3>2 DEF CliqueInv, LightInv
    <3>4. NextOf(light, h) /\ Applies(light, h) BY <3>3, <1>1, <1>2, AgreeApplies
    <3>5. light' = Apply(light, h) BY <3>2, <3>4 DEF Extend
    <3>6. Applied(light, h, light') BY <3>3, <3>4, <3>5, ApplyIs
    <3>7. SnapOK(light') BY <3>3, <3>4, <3>6, AppliedOK
    <3>8. Agree(light', snap') BY <3>3, <3>6, <1>1, <2>2, AgreeApplied
    <3> QED BY <3>7, <3>8
  <2> QED BY <1>1, <2>1, <2>5, <2>6 DEF CliqueInv, WorkInv
<1>3. CASE ~Applies(snap, h)
  BY <1>3, <1>1 DEF Extend, CliqueInv, SnapInv, LightInv, WorkInv
<1> QED BY <1>2, <1>3

\* A header of the network.
LEMMA ImportExtends ==
  ASSUME CliqueInv, Import
  PROVE  /\ ~stuck /\ UNCHANGED key
         /\ \E h : NextOf(snap, h) /\ WellFormed(h) /\ Extend(h) /\ (~Applies(snap, h) => h.number < Limit(snap.signers))
<1>1. PICK h \in Offers(snap) : WellFormed(h) /\ VerifySeal(snap, h) /\ Extend(h) BY DEF Import
<1>2. NextOf(snap, h) BY <1>1 DEF Offers, NextOf, VerifySeal
<1>3. ~Applies(snap, h) => h.number < Limit(snap.signers) BY <1>1, <1>2, VerifiedRefused DEF CliqueInv, SnapInv
<1> QED BY <1>1, <1>2, <1>3 DEF Import

\* What this node may seal, a snapshot takes.
LEMMA SealedApplies ==
  ASSUME CliqueInv, work # Nothing, MaySeal(snap, work.number, key)
  PROVE  NextOf(snap, Sealed) /\ Applies(snap, Sealed) /\ WellFormed(Sealed)
<1>1. work \in Header /\ work.number = snap.number + 1 /\ WellFormed(work) /\ key \in Addresses /\ key \in snap.signers /\ SnapOK(snap)
  BY DEF CliqueInv, WorkInv, MaySeal, SnapInv
<1>2. Sealed \in Header /\ Sealed.number = work.number /\ Sealed.signer = key /\ Sealed.coinbase = work.coinbase /\ Sealed.authorize = work.authorize
  BY <1>1 DEF Sealed, Header
<1>3. NextOf(snap, Sealed) /\ WellFormed(Sealed) BY <1>1, <1>2 DEF NextOf, WellFormed
<1>4. \A k \in DOMAIN snap.recents : snap.recents[k] = Sealed.signer => k <= Sealed.number - Limit(snap.signers)
  BY <1>2 DEF MaySeal
<1> QED BY <1>1, <1>3, <1>4, WaitedApplies

\* The own block.
LEMMA SealExtends ==
  ASSUME CliqueInv, Seal
  PROVE  /\ ~stuck /\ UNCHANGED key
         /\ \E h : NextOf(snap, h) /\ WellFormed(h) /\ Extend(h) /\ (~Applies(snap, h) => h.number < Limit(snap.signers))
BY SealedApplies DEF Seal, CliqueInv, WorkInv

\* A light node starts from a checkpoint.
LEMMA TrustCheckpointOK == ASSUME CliqueInv, TrustCheckpoint PROVE CliqueInv'
<1>1. snap.number \in Nat /\ snap.signers \in SUBSET Addresses /\ IsFiniteSet(snap.signers) /\ snap.votes = {}
  BY DEF TrustCheckpoint, CliqueInv, SnapInv, SnapOK, Snaps
<1>2. light' = NewSnapshot(snap.number, snap.signers) /\ UNCHANGED <<snap, stuck, key, work>> BY DEF TrustCheckpoint
<1>3. SnapOK(light') /\ Agree(light', snap) BY <1>1, <1>2, NewSnapshotOK DEF Agree, Within
<1> QED BY <1>2, <1>3 DEF CliqueInv, SnapInv, LightInv, WorkInv, WellFormed, InTurn

\* A new block is begun on the head.
LEMMA PrepareOK == ASSUME CliqueInv, Prepare PROVE CliqueInv'
<1> DEFINE n == snap.number + 1
<1>1. PICK a \in Addresses \cup {0}, authorize \in BOOLEAN :
        /\ IF a = 0 THEN ~authorize ELSE ~Checkpoint(n) /\ ValidVote(snap, a, authorize)
        /\ work' = [number |-> n, signer |-> key, coinbase |-> a, authorize |-> authorize,
                    difficulty |-> IF InTurn(snap, n, key) THEN 2 ELSE 1] BY DEF Prepare
<1>2. snap.number \in Nat /\ n \in 1..MaxNumber /\ key \in Addresses /\ ~stuck /\ UNCHANGED <<snap, light, stuck, key>>
  BY CliqueAssumption DEF Prepare, CliqueInv, SnapInv, SnapOK, Snaps
<1>3. Checkpoint(n) => a = 0 /\ ~authorize BY <1>1
<1> HIDE DEF n
<1> DEFINE d == IF InTurn(snap, n, key) THEN 2 ELSE 1
<1>4. d \in {1, 2} /\ work' = [number |-> n, signer |-> key, coinbase |-> a, authorize |-> authorize, difficulty |-> d]
  BY <1>1
<1> HIDE DEF d
<1>5. /\ work' \in Header /\ work'.number = n /\ work'.signer = key /\ work'.coinbase = a
      /\ work'.authorize = authorize /\ work'.difficulty = d
  BY <1>2, <1>4 DEF Header
<1>6. WellFormed(work') BY <1>3, <1>5 DEF WellFormed
<1>7. WorkInv' BY <1>2, <1>5, <1>6 DEF WorkInv, n, d, InTurn, WellFormed
<1> QED BY <1>2, <1>7 DEF CliqueInv, SnapInv, LightInv

\* The invariant holds after every step.
LEMMA CliqueNextOK == CliqueInv /\ [CliqueNext]_cliqueVars => CliqueInv'
<1> SUFFICES ASSUME CliqueInv, [CliqueNext]_cliqueVars PROVE CliqueInv' OBVIOUS
<1>1. CASE Import BY <1>1, ImportExtends, ExtendOK
<1>2. CASE TrustCheckpoint BY <1>2, TrustCheckpointOK
<1>3. CASE Prepare BY <1>3, PrepareOK
<1>4. CASE Seal BY <1>4, SealExtends, ExtendOK
<1>5. ASSUME NEW a \in Addresses, Authorize(a) PROVE CliqueInv'
  BY <1>5 DEF Authorize, CliqueInv, SnapInv, LightInv, WorkInv, WellFormed, InTurn
<1>6. CASE UNCHANGED cliqueVars BY <1>6 DEF cliqueVars, CliqueInv, SnapInv, LightInv, WorkInv, WellFormed, InTurn
<1> QED BY <1>1, <1>2, <1>3, <1>4, <1>5, <1>6 DEF CliqueNext

\* The invariant is one.
LEMMA CliqueInvariant == CliqueSpec => []CliqueInv
<1> QED BY CliqueInitOK, CliqueNextOK, PTL DEF CliqueSpec

-----------------------------------------------------------------------------
(* What follows.                                                           *)

\* The votes are counted, and the chain can go on.
LEMMA VotesFollow == CliqueInv => VotesSound
<1> SUFFICES ASSUME CliqueInv PROVE VotesSound OBVIOUS
<1>1. /\ SnapOK(snap) /\ snap.number <= MaxNumber /\ snap.number \in Nat /\ snap.signers \in SUBSET Addresses /\ IsFiniteSet(snap.signers)
      /\ snap.recents \in Recents /\ snap.votes \in SUBSET Vote /\ snap.tally \in Tallies
      /\ CountedIn(snap.votes, snap.tally) /\ Legal(snap.votes, snap.signers) /\ Window(snap.recents, snap.number, snap.signers)
  BY DEF CliqueInv, SnapInv, SnapOK, Snaps
<1>2. ASSUME NEW a \in Addresses PROVE snap.tally[a] = NoTally \/ snap.tally[a].votes \in 1..Cardinality(snap.signers)
  <2>1. snap.tally[a].votes = Cardinality(On(snap.votes, a)) /\ (snap.tally[a].votes = 0 => snap.tally[a] = NoTally)
    BY <1>1 DEF CountedIn
  <2>2. IsFiniteSet(snap.votes) /\ \A v \in On(snap.votes, a) : v.signer \in snap.signers
    BY <1>1 DEF CountedIn, Legal, On
  <2>3. /\ Cardinality(On(snap.votes, a)) \in Nat /\ Cardinality(snap.signers) \in Nat
        /\ Cardinality(On(snap.votes, a)) <= Cardinality(snap.signers)
    BY <1>1, <2>2, VotersOf
  <2> QED BY <2>1, <2>3
<1>3. snap.recents \in [DOMAIN snap.recents -> Addresses] BY <1>1 DEF Recents
<1>4. CliqueTypeOK BY <1>1, <1>2, <1>3 DEF CliqueTypeOK, CliqueInv, WorkInv, Window
<1>5. TallyCountsVotes BY <1>1 DEF TallyCountsVotes, CountedIn, Legal, On
<1>6. SomeoneMaySign BY <1>1, OneMaySign DEF SomeoneMaySign, Window
<1> QED BY <1>4, <1>5, <1>6 DEF VotesSound

\* The copies of the rule agree.
LEMMA RuleFollows == CliqueInv => RuleAgrees
<1> SUFFICES ASSUME CliqueInv PROVE RuleAgrees OBVIOUS
<1>1. ASSUME work # Nothing, MaySeal(snap, work.number, key), key = work.signer PROVE VerifySeal(snap, Sealed)
  <2>1. work \in Header /\ SnapOK(snap) /\ work.difficulty = IF InTurn(snap, work.number, work.signer) THEN 2 ELSE 1
    BY <1>1 DEF CliqueInv, WorkInv, SnapInv
  <2>2. Sealed = work BY <1>1, <2>1 DEF Sealed, Header
  <2>3. work.number \in 0..MaxNumber /\ Limit(snap.signers) \in Nat \ {0}
    BY <2>1, LimitIs, CliqueAssumption DEF Header, SnapOK
  <2>4. ASSUME NEW k \in DOMAIN snap.recents, snap.recents[k] = work.signer PROVE k <= Minus(work.number, Limit(snap.signers))
    BY <1>1, <2>4, <2>3, MinusIs DEF MaySeal
  <2> QED BY <1>1, <2>1, <2>2, <2>4 DEF VerifySeal, MaySeal
<1> QED BY <1>1, SealedApplies DEF RuleAgrees, CliqueInv

\* A light node agrees.
LEMMA LightFollows == CliqueInv => LightAgrees
<1> SUFFICES ASSUME CliqueInv, light # Nothing, ~stuck
             PROVE  /\ light.number = snap.number /\ light.signers = snap.signers
                    /\ light.votes = snap.votes /\ light.tally = snap.tally
                    /\ \A k \in DOMAIN light.recents : k \in DOMAIN snap.recents /\ light.recents[k] = snap.recents[k]
  BY DEF LightAgrees
<1>1. SnapOK(light) /\ SnapOK(snap) /\ Agree(light, snap) BY DEF CliqueInv, LightInv, SnapInv
<1>2. light.tally = snap.tally BY <1>1, TallyDetermined DEF SnapOK, Snaps, Agree
<1> QED BY <1>1, <1>2 DEF Agree, Within

\* In every behaviour of the engine the tally of the voting snapshot is the count of
\* the legal votes on its list (apply, cast, uncast), some signer may always sign, what
\* passes verifySeal or Seal has a snapshot, except below the limit, and a node that
\* trusted a checkpoint agrees with one that walked all headers.
THEOREM CliqueIsSound == CliqueSpec => []CliqueSound
<1>1. CliqueInv => CliqueSound BY VotesFollow, RuleFollows, LightFollows DEF CliqueSound, ViewsAgree
<1> QED BY <1>1, CliqueInvariant, PTL

\* An account joins or leaves, and a majority voted for it.
Majority(s, r) ==
  \E a \in Addresses :
    LET voters == {v.signer : v \in {w \in s.votes : w.address = a}} \cup {r.recents[r.number]}
    IN /\ r.signers = IF a \in s.signers THEN s.signers \ {a} ELSE s.signers \cup {a}
       /\ voters \subseteq s.signers /\ 2 * Cardinality(voters) > Cardinality(s.signers)

\* A vote that passes has a majority behind it.
LEMMA WinnersHaveMajority ==
  ASSUME NEW s, SnapOK(s), NEW h, NextOf(s, h), NEW r, Applied(s, h, r), r.signers # s.signers PROVE Majority(s, r)
<1> DEFINE a == h.coinbase
           n == h.number
           T == NewSigners(s, h)
           voters == {v.signer : v \in {w \in s.votes : w.address = a}} \cup {r.recents[r.number]}
<1>1. /\ r.number = n /\ r.signers = T /\ r.recents = NewRecents(s, h) /\ Wins(s, h)
      /\ T = (IF a \in s.signers THEN s.signers \ {a} ELSE s.signers \cup {a}) /\ a \in Addresses
  BY DEF Applied, NewSigners, Wins, NextOf, Header
<1>2. /\ n \in Nat /\ h.signer \in Addresses /\ h.signer \in s.signers /\ IsFiniteSet(s.signers) /\ IsFiniteSet(T)
      /\ s.recents \in Recents
  BY AppliedOK, <1>1 DEF NextOf, Header, SnapOK, Snaps
<1>3. r.recents[n] = h.signer
  <2> DEFINE f == Forgotten(s.recents, n, s.signers)
             x == h.signer
  <2>1. x \in Addresses /\ Seen(s, h) = Recorded(f, n, x) BY <1>2 DEF Seen
  <2>2. f \in Recents
    <3> HIDE DEF n
    <3> QED BY <1>2, ForgottenIs
  <2>3. Seen(s, h) \in Recents /\ n \in DOMAIN Seen(s, h) /\ Seen(s, h)[n] = x
    <3>0. n \in Nat BY <1>2
    <3> HIDE DEF f, x, n
    <3>1. /\ Recorded(f, n, x) \in Recents /\ DOMAIN Recorded(f, n, x) = DOMAIN f \cup {n}
          /\ Recorded(f, n, x)[n] = x
      BY <3>0, <2>1, <2>2, RecordedIs
    <3> QED BY <3>1, <2>1
  <2>4. n \in DOMAIN Forgotten(Seen(s, h), n, T) /\ Forgotten(Seen(s, h), n, T)[n] = x
    <3> HIDE DEF f, x, n, T
    <3>1. Limit(T) \in Nat \ {0} BY <1>2, LimitIs
    <3>2. /\ DOMAIN Forgotten(Seen(s, h), n, T) = {k \in DOMAIN Seen(s, h) : k + Limit(T) # n}
          /\ \A k \in DOMAIN Forgotten(Seen(s, h), n, T) : Forgotten(Seen(s, h), n, T)[k] = Seen(s, h)[k] /\ Seen(s, h)[k] \in Addresses
      BY <1>2, <2>3, ForgottenIs
    <3>3. n + Limit(T) # n BY <3>1, <1>2
    <3> QED BY <3>2, <3>3, <2>3
  <2> QED BY <1>1, <2>3, <2>4 DEF NewRecents
<1>4. voters \subseteq s.signers
  BY <1>1, <1>2, <1>3 DEF SnapOK, Legal
<1>5. /\ Cardinality(On(Ballots(s, h), a)) \in Nat /\ Cardinality(voters) \in Nat
      /\ Cardinality(On(Ballots(s, h), a)) <= Cardinality(voters)
  <2>1. /\ Legal(Ballots(s, h), s.signers) /\ Ballots(s, h) \subseteq s.votes \cup {VoteOf(h)}
        /\ Ballots(s, h) \in SUBSET Vote /\ IsFiniteSet(Ballots(s, h))
    BY BallotsLegal
  <2>2. VoteOf(h).signer = r.recents[r.number] BY <1>1, <1>3 DEF VoteOf
  <2>3. \A v \in On(Ballots(s, h), a) : v.signer \in voters BY <2>1, <2>2 DEF On
  <2>4. IsFiniteSet(voters) BY <1>2, <1>4, FS_Subset
  <2> HIDE DEF voters, a
  <2> QED BY <2>1, <2>3, <2>4, VotersOf
<1>6. 2 * Cardinality(voters) > Cardinality(s.signers)
  <2>1. Cardinality(On(Ballots(s, h), a)) > Cardinality(s.signers) \div 2 BY <1>1 DEF Wins
  <2>2. Cardinality(s.signers) \in Nat BY <1>2, FS_CardinalityType
  <2> HIDE DEF voters, a
  <2> QED BY <2>1, <2>2, <1>5
<1> QED BY <1>1, <1>4, <1>6 DEF Majority

\* In every behaviour of the engine an account joins or leaves the signers by the votes
\* of more than half of them only, however votes are repeated, reversed and discarded
\* (apply).
THEOREM MajorityAlwaysDecides == CliqueSpec => MajorityDecides
<1> DEFINE Decided ==
      snap'.signers # snap.signers =>
       \E a \in Addresses :
         LET voters == {v.signer : v \in {w \in snap.votes : w.address = a}} \cup {snap'.recents[snap'.number]}
         IN /\ snap'.signers = IF a \in snap.signers THEN snap.signers \ {a} ELSE snap.signers \cup {a}
            /\ voters \subseteq snap.signers /\ 2 * Cardinality(voters) > Cardinality(snap.signers)
<1>1. CliqueInv /\ [CliqueNext]_cliqueVars => [Decided]_cliqueVars
  <2> SUFFICES ASSUME CliqueInv, [CliqueNext]_cliqueVars, snap'.signers # snap.signers PROVE Decided OBVIOUS
  <2>1. \E h : NextOf(snap, h) /\ Extend(h)
    <3>1. CASE Import BY <3>1, ImportExtends
    <3>2. CASE Seal BY <3>2, SealExtends
    <3> QED BY <3>1, <3>2 DEF CliqueNext, TrustCheckpoint, Prepare, Authorize, cliqueVars
  <2>2. PICK h : NextOf(snap, h) /\ Extend(h) BY <2>1
  <2>3. SnapOK(snap) /\ snap' = Apply(snap, h) BY <2>2 DEF Extend, CliqueInv, SnapInv
  <2>4. Applied(snap, h, snap') BY <2>2, <2>3, ApplyIs
  <2>5. Majority(snap, snap') BY <2>2, <2>3, <2>4, WinnersHaveMajority
  <2> QED BY <2>5 DEF Majority
<1> QED BY <1>1, CliqueInvariant, PTL DEF CliqueSpec, MajorityDecides
=============================================================================
