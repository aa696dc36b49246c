-------------------------------- MODULE Feed --------------------------------
(***************************************************************************)
(* event: a Feed delivers each value to all subscribed channels.           *)
(*                                                                         *)
(* One Send at a time holds sendLock.  It works on a prefix of sendCases,  *)
(* the active cases: a case that was sent is swapped to the end of the     *)
(* prefix, which shrinks.  A slow receiver blocks it, so Unsubscribe has   *)
(* to reach into a Send that waits, and moves the cases under it.  New     *)
(* subscriptions wait in the inbox.                                        *)
(*                                                                         *)
(* The case of removeSub, the first of sendCases, is left out.  A          *)
(* subscriber has a channel of its own, which it reads until it            *)
(* unsubscribes.                                                           *)
(***************************************************************************)
EXTENDS Integers, Sequences

CONSTANTS Subscribers, Buffer, \* the capacity of a channel
          MaxValues, MaxSubscribes \* bounds

ASSUME FeedAssumption == Buffer \in Nat

VARIABLES
  inbox, sendCases,
  sending,     \* Send: where it is, the length of cases, the position of the fast path
  subscriber,  \* where each is, the first value due to it, the values put on its channel
  unread,      \* in the channel of each
  sent,        \* values so far
  subscribes

feedVars == <<inbox, sendCases, sending, subscriber, unread, sent, subscribes>>

Find(cases, s) == IF \E i \in DOMAIN cases : cases[i] = s THEN CHOOSE i \in DOMAIN cases : cases[i] = s ELSE 0
Delete(cases, index) == SubSeq(cases, 1, index - 1) \o SubSeq(cases, index + 1, Len(cases))

Unlocked == sending.at = "idle"
NotSending == [at |-> "idle", active |-> 0, next |-> 0]

-----------------------------------------------------------------------------
(* Subscriptions.                                                          *)

Subscribe(s) ==
  /\ subscriber[s].at = "out" /\ unread[s] = 0 /\ subscribes < MaxSubscribes
  /\ inbox' = Append(inbox, s)
  /\ subscriber' = [subscriber EXCEPT ![s] = [at |-> "in", due |-> sent + 1, got |-> <<>>]]
  /\ subscribes' = subscribes + 1
  /\ UNCHANGED <<sendCases, sending, unread, sent>>

\* remove: from the inbox, or the Send in progress has to be told.
Unsubscribe(s) ==
  /\ subscriber[s].at = "in"
  /\ IF Find(inbox, s) # 0
     THEN inbox' = Delete(inbox, Find(inbox, s)) /\ subscriber' = [subscriber EXCEPT ![s] = [@ EXCEPT !.at = "out"]]
     ELSE subscriber' = [subscriber EXCEPT ![s] = [@ EXCEPT !.at = "removing"]] /\ UNCHANGED inbox
  /\ UNCHANGED <<sendCases, sending, unread, sent, subscribes>>

\* No Send holds the lock.
RemoveLocked(s) ==
  /\ subscriber[s].at = "removing" /\ Unlocked
  /\ sendCases' = Delete(sendCases, Find(sendCases, s))
  /\ subscriber' = [subscriber EXCEPT ![s] = [@ EXCEPT !.at = "out"]]
  /\ UNCHANGED <<inbox, sending, unread, sent, subscribes>>

Receive(s) ==
  /\ unread[s] > 0
  /\ unread' = [unread EXCEPT ![s] = @ - 1]
  /\ UNCHANGED <<inbox, sendCases, sending, subscriber, sent, subscribes>>

-----------------------------------------------------------------------------
(* Send.                                                                   *)

Lock ==
  /\ Unlocked /\ sent < MaxValues
  /\ sending' = [sending EXCEPT !.at = "locked"]
  /\ UNCHANGED <<inbox, sendCases, subscriber, unread, sent, subscribes>>

TakeInbox ==
  /\ sending.at = "locked"
  /\ sendCases' = sendCases \o inbox /\ inbox' = <<>>
  /\ sending' = [at |-> "try", active |-> Len(sendCases'), next |-> 1]
  /\ sent' = sent + 1
  /\ UNCHANGED <<subscriber, unread, subscribes>>

\* An unbuffered channel takes a value that its owner waits for.
Room(s) == unread[s] < Buffer \/ (Buffer = 0 /\ subscriber[s].at = "in" /\ unread[s] = 0)

\* The case is sent and deactivated.
Deliver(i) ==
  LET s == sendCases[i]
  IN /\ Room(s)
     /\ unread' = [unread EXCEPT ![s] = @ + 1]
     /\ subscriber' = [subscriber EXCEPT ![s] = [at |-> @.at, due |-> @.due, got |-> Append(@.got, sent)]]
     /\ sendCases' = [sendCases EXCEPT ![i] = sendCases[sending.active], ![sending.active] = s]

\* The fast path: each active case in turn.
TrySend ==
  /\ sending.at = "try" /\ sending.next <= sending.active
  /\ \/ /\ Deliver(sending.next)
        /\ sending' = [sending EXCEPT !.active = @ - 1]
     \/ /\ ~Room(sendCases[sending.next])
        /\ sending' = [sending EXCEPT !.next = @ + 1] /\ UNCHANGED <<sendCases, subscriber, unread>>
  /\ UNCHANGED <<inbox, sent, subscribes>>

EndTry ==
  /\ sending.at = "try" /\ sending.next > sending.active
  /\ sending' = IF sending.active = 0 THEN NotSending ELSE [sending EXCEPT !.at = "select"]
  /\ UNCHANGED <<inbox, sendCases, subscriber, unread, sent, subscribes>>

SelectSend ==
  /\ sending.at = "select"
  /\ \E i \in 1..sending.active : Deliver(i)
  /\ sending' = [at |-> "try", active |-> sending.active - 1, next |-> 1]
  /\ UNCHANGED <<inbox, sent, subscribes>>

\* mutant: the cases shrink when a case goes that was sent
ActiveWithoutAny(index) == sending.active - 1

\* A case that is gone was active or not.
ActiveWithout(index) == IF index <= sending.active THEN sending.active - 1 ELSE sending.active

SelectRemove(s) ==
  /\ sending.at = "select" /\ subscriber[s].at = "removing"
  /\ LET index == Find(sendCases, s)
     IN /\ sendCases' = Delete(sendCases, index)
        /\ sending' = [at |-> "try", active |-> ActiveWithout(index), next |-> 1]
  /\ subscriber' = [subscriber EXCEPT ![s] = [@ EXCEPT !.at = "out"]]
  /\ UNCHANGED <<inbox, unread, sent, subscribes>>

-----------------------------------------------------------------------------
FeedInit ==
  /\ inbox = <<>> /\ sendCases = <<>> /\ sending = NotSending
  /\ subscriber = [s \in Subscribers |-> [at |-> "out", due |-> 1, got |-> <<>>]]
  /\ unread = [s \in Subscribers |-> 0] /\ sent = 0 /\ subscribes = 0

FeedNext ==
  \/ \E s \in Subscribers : Subscribe(s) \/ Unsubscribe(s) \/ RemoveLocked(s) \/ SelectRemove(s) \/ Receive(s)
  \/ Lock \/ TakeInbox \/ TrySend \/ EndTry \/ SelectSend

FeedSpec == FeedInit /\ [][FeedNext]_feedVars

-----------------------------------------------------------------------------
(* What a feed promises.                                                   *)

Holds(cases, s) == Find(cases, s) # 0
ActiveCases == {sendCases[i] : i \in 1..sending.active}

\* Send and remove: however subscriptions come and go while a Send waits for slow
\* receivers, a subscriber gets every value sent since it subscribed, once and in
\* order, and the Send in progress ends only when all have it.  remove finds its case
\* where it looks for it.
DeliveredOnce ==
  \A s \in Subscribers :
    LET sub == subscriber[s]
    IN /\ sub.got = [i \in 1..Len(sub.got) |-> sub.due + i - 1]
       /\ sub.at = "in" => sub.due + Len(sub.got) - 1 = (IF s \in ActiveCases THEN sent - 1 ELSE sent)
       /\ sub.at = "in" => Holds(inbox, s) # Holds(sendCases, s)
       /\ sub.at = "removing" => Holds(sendCases, s) /\ ~Holds(inbox, s)
       /\ sub.at = "out" => ~Holds(sendCases, s) /\ ~Holds(inbox, s)
=============================================================================
