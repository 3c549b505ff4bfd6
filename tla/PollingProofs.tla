--------------------------- MODULE PollingProofs ---------------------------
(***************************************************************************)
(* Theorems about Polling, for any number of records, signals and resets.  *)
(***************************************************************************)
EXTENDS Polling, TLAPS

Distinct(s) == \A i, j \in DOMAIN s : s[i] = s[j] => i = j

\* What a push and a pop of the change list do to the records on it.
LEMMA PushFacts ==
  ASSUME NEW s \in Seq(Hooks), NEW h \in Hooks
  PROVE  /\ <<h>> \o s \in Seq(Hooks) /\ <<h>> \o s # <<>>
         /\ Range(<<h>> \o s) = {h} \union Range(s)
         /\ Distinct(s) /\ h \notin Range(s) => Distinct(<<h>> \o s)
<1> DEFINE q == <<h>> \o s
<1>1. q \in Seq(Hooks) /\ Len(q) = Len(s) + 1 /\ q # <<>>
  OBVIOUS
<1>2. q[1] = h /\ \A i \in 2..Len(q) : q[i] = s[i - 1]
  OBVIOUS
<1>3. DOMAIN q = 1..Len(q) /\ DOMAIN s = 1..Len(s)
  OBVIOUS
<1>4. Range(q) = {h} \union Range(s)
  <2>1. ASSUME NEW i \in DOMAIN q PROVE q[i] \in {h} \union Range(s)
    BY <1>1, <1>2, <1>3, i = 1 \/ i - 1 \in DOMAIN s DEF Range
  <2>2. ASSUME NEW i \in DOMAIN s PROVE s[i] \in Range(q)
    <3>1. i + 1 \in DOMAIN q /\ q[i + 1] = s[i]
      BY <1>1, <1>2, <1>3
    <3> QED BY <3>1 DEF Range
  <2>3. h \in Range(q)
    BY <1>1, <1>2, <1>3 DEF Range
  <2> QED BY <2>1, <2>2, <2>3 DEF Range
<1>5. ASSUME Distinct(s), h \notin Range(s) PROVE Distinct(q)
  <2> SUFFICES ASSUME NEW i \in DOMAIN q, NEW j \in DOMAIN q, q[i] = q[j]
               PROVE  i = j
    BY DEF Distinct
  <2>1. i > 1 => i - 1 \in DOMAIN s /\ q[i] = s[i - 1] /\ q[i] # h
    BY <1>1, <1>2, <1>3, <1>5 DEF Range
  <2>2. j > 1 => j - 1 \in DOMAIN s /\ q[j] = s[j - 1] /\ q[j] # h
    BY <1>1, <1>2, <1>3, <1>5 DEF Range
  <2>3. CASE i > 1 /\ j > 1
    <3>1. i - 1 = j - 1
      BY <2>1, <2>2, <2>3, <1>5 DEF Distinct
    <3> QED BY <3>1, <1>1, <1>3
  <2> QED BY <2>1, <2>2, <2>3, <1>1, <1>2, <1>3
<1> QED BY <1>1, <1>4, <1>5

\* What is left of a list without repetitions when its first record is taken.
LEMMA PopFacts ==
  ASSUME NEW s \in Seq(Hooks), s # <<>>
  PROVE  /\ Head(s) \in Hooks /\ Head(s) \in Range(s) /\ Tail(s) \in Seq(Hooks)
         /\ Distinct(s) => /\ Range(Tail(s)) = Range(s) \ {Head(s)}
                           /\ Distinct(Tail(s))
<1> DEFINE q == Tail(s)
<1>1. /\ q \in Seq(Hooks) /\ Len(s) \in Nat \ {0} /\ Len(q) = Len(s) - 1
      /\ Head(s) = s[1] /\ Head(s) \in Hooks
  OBVIOUS
<1>2. DOMAIN q = 1..Len(q) /\ DOMAIN s = 1..Len(s)
  OBVIOUS
<1>3. \A i \in DOMAIN q : q[i] = s[i + 1] /\ i + 1 \in DOMAIN s
  BY <1>1, <1>2
<1>4. Head(s) \in Range(s)
  BY <1>1, <1>2 DEF Range
<1>5. ASSUME Distinct(s)
      PROVE  Range(q) = Range(s) \ {Head(s)} /\ Distinct(q)
  <2>1. Range(q) \subseteq Range(s) \ {Head(s)}
    BY <1>1, <1>2, <1>3, <1>5 DEF Range, Distinct
  <2>2. ASSUME NEW i \in DOMAIN s, s[i] # Head(s) PROVE s[i] \in Range(q)
    <3>1. i - 1 \in DOMAIN q /\ q[i - 1] = s[i]
      BY <1>1, <1>2, <1>3, <2>2
    <3> QED BY <3>1 DEF Range
  <2>3. Distinct(q)
    BY <1>2, <1>3, <1>5 DEF Distinct
  <2> QED BY <2>1, <2>2, <2>3 DEF Range
<1> QED BY <1>1, <1>4, <1>5
-----------------------------------------------------------------------------
\* Chunks that hold no record: nothing is left of one they held before, but
\* what changeList points to.
Freed == \A h \in Hooks \ allHooks : ~owed[h] /\ thread[h] = "none"
DueIsLive == due \subseteq allHooks

\* A list that a reset has left with freed records is never emptied, so that no
\* handler wakes the thread that would read it; any other list is of live records.
StaleUntouched ==
  /\ stale => /\ changeList # <<>> /\ resets # 0
              /\ \A t \in Hooks : thread[t] \notin {"woken", "notifying"}
  /\ ~stale => Range(changeList) \subseteq allHooks

\* Before any reset the notifier is held exactly by the thread that waits
\* for it, and nothing is on the list without it.
NotifierReady == resets = 0 /\ sim = "run" =>
  /\ notifier # "released"
  /\ notifier = "held" => running
  /\ running => \E t \in Hooks : thread[t] \in {"waiting", "woken", "notifying"}
  /\ notifier = "null" => changeList = <<>>
ListHasDrainer == resets = 0 /\ sim = "run" /\ changeList # <<>> =>
  \E t \in Hooks : thread[t] \in {"woken", "notifying"}

IInv ==
  /\ TypeOK /\ Freed /\ DueIsLive /\ StaleUntouched
  /\ PendingExactly /\ CallbackRegistrations
  /\ NotifierReady /\ ListHasDrainer

\* The inductive invariant holds at the start.
LEMMA InitIInv == Init => IInv
<1> SUFFICES ASSUME Init PROVE IInv
  OBVIOUS
<1>1. TypeOK
  <2>2. allHooks \subseteq Hooks /\ created \in 0..MaxProbes
        /\ reentrant \in 0..MaxReentrant /\ resets \in 0..MaxResets
        /\ reset_callbacks \in 0..1
    BY PollingAssumption DEF Init
  <2>3. obj \in [Hooks -> Signals \union {NoObject}] /\ registered \in [Hooks -> Nat]
        /\ cb \in [Hooks -> BOOLEAN] /\ owed \in [Hooks -> BOOLEAN]
        /\ on_changeList \in [Hooks -> BOOLEAN]
    BY DEF Init
  <2>4. changeList \in Seq(Hooks) /\ due \subseteq Hooks
    BY DEF Init
  <2>5. stale \in BOOLEAN
    BY Zenon DEF Init
  <2> QED BY <2>2, <2>3, <2>4, <2>5 DEF Init, TypeOK
<1>2. Range(changeList) = {}
  BY DEF Init, Range
<1> QED BY <1>1, <1>2 DEF Init, IInv, Freed, DueIsLive, StaleUntouched,
      PendingExactly, CallbackRegistrations, NotifierReady, ListHasDrainer

-----------------------------------------------------------------------------
\* Enabling and disabling: what becomes of a record with cb and registered
\* in agreement.
EnableOrDisable(h, enable) == IF enable THEN enable_cb(h) ELSE disable_cb(h)

\* Enabling a record registers its callback once, disabling takes it away, and
\* neither concerns another record.
LEMMA EnableFacts ==
  ASSUME TypeOK, NEW h \in Hooks, NEW enable \in BOOLEAN,
         EnableOrDisable(h, enable),
         registered[h] = IF cb[h] THEN 1 ELSE 0
  PROVE  /\ cb' \in [Hooks -> BOOLEAN] /\ registered' \in [Hooks -> Nat]
         /\ cb'[h] = enable /\ registered'[h] = IF enable THEN 1 ELSE 0
         /\ \A g \in Hooks \ {h} : cb'[g] = cb[g] /\ registered'[g] = registered[g]
<1> USE DEF EnableOrDisable, enable_cb, disable_cb
<1>1. cb' = [cb EXCEPT ![h] = enable]
  BY Zenon
<1>2. registered' = [registered EXCEPT ![h] = IF enable THEN 1 ELSE 0]
  <2>1. CASE enable /\ cb[h]
    BY <2>1
  <2>2. CASE enable /\ ~cb[h]
    BY <2>2
  <2>3. CASE ~enable /\ cb[h]
    BY <2>3
  <2>4. CASE ~enable /\ ~cb[h]
    BY <2>4
  <2> QED BY <2>1, <2>2, <2>3, <2>4
<1>3. cb' \in [Hooks -> BOOLEAN] /\ cb'[h] = enable
      /\ \A g \in Hooks \ {h} : cb'[g] = cb[g]
  BY <1>1, Zenon DEF TypeOK
<1>4. registered' \in [Hooks -> Nat]
      /\ registered'[h] = (IF enable THEN 1 ELSE 0)
      /\ \A g \in Hooks \ {h} : registered'[g] = registered[g]
  BY <1>2 DEF TypeOK
<1> QED BY <1>3, <1>4

\* Enabling and disabling keep the invariant.
LEMMA SetEnableStep ==
  ASSUME IInv, NEW h \in Hooks, NEW enable \in BOOLEAN, SetEnable(h, enable)
  PROVE  IInv'
<1> USE DEF IInv, SetEnable, hooks, list, sv, env
<1>1. /\ cb' \in [Hooks -> BOOLEAN] /\ registered' \in [Hooks -> Nat]
      /\ cb'[h] = enable /\ registered'[h] = IF enable THEN 1 ELSE 0
      /\ \A g \in Hooks \ {h} : cb'[g] = cb[g] /\ registered'[g] = registered[g]
  <2>1. registered[h] = IF cb[h] THEN 1 ELSE 0
    BY DEF CallbackRegistrations
  <2> QED BY <2>1, EnableFacts DEF EnableOrDisable
<1>2. CallbackRegistrations'
  BY <1>1 DEF CallbackRegistrations
<1>3. TypeOK'
  BY <1>1 DEF TypeOK
<1>4. Freed' /\ StaleUntouched'
  BY DEF Freed, StaleUntouched, Range
<1>5. DueIsLive' /\ PendingExactly'
  BY DEF DueIsLive, PendingExactly, Range
<1>6. NotifierReady'
  BY DEF NotifierReady
<1>7. ListHasDrainer'
  BY DEF ListHasDrainer
<1> QED BY <1>2, <1>3, <1>4, <1>5, <1>6, <1>7

\* A new probe keeps it: nothing is left of a record that was in its chunk but a
\* place on a list that is never read.
LEMMA CreateProbeStep ==
  ASSUME IInv, NEW s \in Signals, NEW enable \in BOOLEAN, CreateProbe(s, enable)
  PROVE  IInv'
<1> USE DEF IInv, CreateProbe, list, env
<1>1. CASE s \notin Integral
  <2>1. sim' = "fatal" /\ UNCHANGED <<hooks, cb, registered, thread, reset_callbacks,
                          list, notifier, due, running, owed, reentrant>>
        /\ UNCHANGED env
    BY <1>1
  <2>2. TypeOK'
    BY <2>1 DEF hooks, TypeOK
  <2>3. Freed' /\ DueIsLive' /\ StaleUntouched'
    BY <2>1 DEF hooks, Freed, DueIsLive, StaleUntouched, Range
  <2>4. PendingExactly' /\ CallbackRegistrations'
    BY <2>1 DEF hooks, PendingExactly, CallbackRegistrations, Range
  <2>5. NotifierReady' /\ ListHasDrainer'
    BY <2>1 DEF NotifierReady, ListHasDrainer
  <2> QED BY <2>2, <2>3, <2>4, <2>5
<1>2. CASE s \in Integral
  <2>1. PICK h \in Hooks :
          /\ allocate_hook_record(h, s)
          /\ cb' = [cb EXCEPT ![h] = enable]
          /\ registered' = [registered EXCEPT ![h] = IF enable THEN @ + 1 ELSE @]
          /\ thread' = [thread EXCEPT ![h] = "forked"]
    BY <1>2
  <2>2. /\ h \notin allHooks /\ allHooks' = allHooks \union {h}
        /\ obj' = [obj EXCEPT ![h] = s]
        /\ on_changeList' = [on_changeList EXCEPT ![h] = FALSE]
    BY <2>1 DEF allocate_hook_record
  <2>3. registered[h] = 0 /\ ~owed[h] /\ thread[h] = "none" /\ h \notin due
    BY <2>2 DEF Freed, DueIsLive, CallbackRegistrations
  <2>4. /\ cb' \in [Hooks -> BOOLEAN] /\ cb'[h] = enable
        /\ \A g \in Hooks \ {h} : cb'[g] = cb[g]
    BY <2>1, Zenon DEF TypeOK
  <2>5. /\ registered' \in [Hooks -> Nat] /\ registered'[h] = (IF enable THEN 1 ELSE 0)
        /\ \A g \in Hooks \ {h} : registered'[g] = registered[g]
    BY <2>1, <2>3 DEF TypeOK
  <2>6. CallbackRegistrations'
    BY <2>2, <2>4, <2>5 DEF CallbackRegistrations
  <2>7. on_changeList' \in [Hooks -> BOOLEAN] /\ ~on_changeList'[h]
        /\ \A g \in Hooks \ {h} : on_changeList'[g] = on_changeList[g]
    BY <2>2, Zenon DEF TypeOK
  <2>8. TypeOK'
    <3>1. obj' \in [Hooks -> Signals \union {NoObject}]
      BY <2>2 DEF TypeOK
    <3>2. thread' \in [Hooks -> {"none", "forked", "waiting", "woken",
                                "notifying", "done"}]
      BY <2>1 DEF TypeOK
    <3>3. created' \in 0..MaxProbes
      BY <1>2, PollingAssumption DEF TypeOK
    <3> QED BY <1>2, <2>2, <2>4, <2>5, <2>7, <3>1, <3>2, <3>3 DEF TypeOK
  <2>9. \A t \in Hooks : t # h => thread'[t] = thread[t]
    BY <2>1 DEF TypeOK
  <2>10. thread'[h] = "forked"
    BY <2>1 DEF TypeOK
  <2>11. Freed'
    BY <2>2, <2>9 DEF Freed
  <2>12. StaleUntouched'
    BY <2>2, <2>9, <2>10 DEF StaleUntouched, Range
  <2>13. PendingExactly'
    <3>1. \A g \in allHooks' : owed'[g] <=> on_changeList'[g] \/ g \in due'
      BY <2>2, <2>3, <2>7 DEF PendingExactly, TypeOK
    <3>2. ~stale' => \A g \in Hooks : on_changeList'[g] <=> g \in Range(changeList)'
      BY <2>2, <2>7 DEF PendingExactly, StaleUntouched, Range
    <3> QED BY <3>1, <3>2 DEF PendingExactly
  <2>14. NotifierReady' /\ ListHasDrainer'
    BY <2>3, <2>9 DEF NotifierReady, ListHasDrainer
  <2> QED BY <2>2, <2>6, <2>8, <2>11, <2>12, <2>13, <2>14 DEF DueIsLive
<1> QED BY <1>1, <1>2

\* The start of a forked probes_run keeps it.
LEMMA RunProbesStep ==
  ASSUME IInv, NEW t \in Hooks, RunProbes(t)
  PROVE  IInv'
<1> USE DEF IInv, RunProbes, ResetCallback, hooks, list, env
<1>1. TypeOK'
  <2>1. /\ thread' \in [Hooks -> {"none", "forked", "waiting", "woken",
                                  "notifying", "done"}]
        /\ notifier' \in {"null", "held", "released"} /\ reset_callbacks' \in 0..1
    <3>1. CASE running
      BY <3>1 DEF TypeOK
    <3>2. CASE ~running /\ visible
      <4>1. notifier' = "held" /\ reset_callbacks' = 1
            /\ thread' = [thread EXCEPT ![t] = "waiting"]
        BY <3>2
      <4> QED BY <4>1 DEF TypeOK
    <3>3. CASE ~running /\ ~visible
      BY <3>3 DEF TypeOK
    <3> QED BY <3>1, <3>2, <3>3
  <2>2. running' \in BOOLEAN
    BY Zenon DEF TypeOK
  <2> QED BY <2>1, <2>2 DEF TypeOK
<1>2. Freed' /\ StaleUntouched'
  <2>1. ASSUME NEW g \in Hooks, thread[g] = "none" PROVE thread'[g] = "none"
    BY <2>1 DEF TypeOK
  <2>2. ASSUME NEW g \in Hooks, thread[g] \notin {"woken", "notifying"}
        PROVE  thread'[g] \notin {"woken", "notifying"}
    BY <2>2 DEF TypeOK
  <2> QED BY <2>1, <2>2 DEF Freed, StaleUntouched, Range
<1>5. DueIsLive' /\ PendingExactly' /\ CallbackRegistrations'
  BY DEF DueIsLive, PendingExactly, CallbackRegistrations, Range
<1>3. \A u \in Hooks : u # t => thread'[u] = thread[u]
  BY DEF TypeOK
<1>4. NotifierReady' /\ ListHasDrainer'
  BY <1>3 DEF NotifierReady, ListHasDrainer, TypeOK
<1> QED BY <1>1, <1>2, <1>4, <1>5

\* A change of a signal, which makes handlers due, keeps it.
LEMMA SignalChangeStep ==
  ASSUME IInv, NEW s \in Signals, SignalChange(s)
  PROVE  IInv'
<1> USE DEF IInv, SignalChange, hooks, callbacks, list, sv, env
<1>1. Watching(s) \subseteq allHooks /\ Watching(s) \subseteq Hooks
  BY DEF Watching, CallbackRegistrations
<1>2. TypeOK'
  BY <1>1 DEF TypeOK
<1>3. Freed' /\ DueIsLive' /\ StaleUntouched'
  BY <1>1 DEF Freed, DueIsLive, StaleUntouched, TypeOK, Range
<1>4. PendingExactly'
  <2>1. due = {}
    BY DEF InHandler
  <2>2. \A h \in Hooks : owed'[h] <=> owed[h] \/ h \in due'
    BY Zenon
  <2>3. allHooks \subseteq Hooks
    BY DEF TypeOK
  <2> QED BY <2>1, <2>2, <2>3 DEF PendingExactly, Range
<1> QED BY <1>2, <1>3, <1>4 DEF CallbackRegistrations, NotifierReady,
      ListHasDrainer

\* A value-change callback, which puts its record on the list, keeps it.
LEMMA HandlerStep ==
  ASSUME IInv, NEW h \in Hooks, value_change_callback(h)
  PROVE  IInv'
<1> USE DEF IInv, value_change_callback, PushAndNotify, hooks, callbacks, env
<1>1. /\ changeList \in Seq(Hooks) /\ h \in allHooks
      /\ on_changeList[h] \in BOOLEAN
  BY DEF TypeOK, DueIsLive
<1>8. ~stale => Distinct(changeList)
  BY DEF PendingExactly, Distinct
<1>9. ASSUME ~stale PROVE on_changeList[h] = (h \in Range(changeList))
  BY <1>1, <1>9 DEF PendingExactly
<1>2. /\ changeList' \in Seq(Hooks)
      /\ stale \/ ~on_changeList[h] => changeList' # <<>>
      /\ ~stale => /\ Range(changeList') = Range(changeList) \union {h}
                  /\ Distinct(changeList') /\ changeList' # <<>>
  <2>1. CASE on_changeList[h]
    <3>1. changeList' = changeList
      BY <2>1
    <3>2. ASSUME ~stale PROVE h \in Range(changeList) /\ changeList # <<>>
      <4>1. h \in Range(changeList)
        BY <1>9, <2>1, <3>2
      <4> QED BY <4>1 DEF Range
    <3>3. Range(changeList') = Range(changeList)
          /\ Distinct(changeList') = Distinct(changeList)
      BY <3>1
    <3> QED BY <1>1, <1>8, <2>1, <3>1, <3>2, <3>3 DEF StaleUntouched
  <2>2. CASE ~on_changeList[h]
    <3>1. changeList' = <<h>> \o changeList
      BY <2>2
    <3>2. /\ <<h>> \o changeList \in Seq(Hooks) /\ <<h>> \o changeList # <<>>
          /\ Range(<<h>> \o changeList) = {h} \union Range(changeList)
      BY <1>1, PushFacts
    <3>3. ASSUME ~stale PROVE Distinct(<<h>> \o changeList)
      <4>1. Distinct(changeList) /\ h \notin Range(changeList)
        BY <1>8, <1>9, <2>2, <3>3
      <4> QED BY <1>1, <4>1, PushFacts
    <3> HIDE DEF value_change_callback, PushAndNotify
    <3> QED BY <3>1, <3>2, <3>3
  <2> QED BY <2>1, <2>2
<1>3. /\ thread' \in [Hooks -> {"none", "forked", "waiting", "woken",
                                "notifying", "done"}]
      /\ sim' \in {"run", "fatal"}
  BY DEF toggle_notifier, WakeWaiting, TypeOK
<1>4. TypeOK'
  BY <1>2, <1>3 DEF TypeOK
<1>5. Freed' /\ StaleUntouched'
  <2>1. ASSUME NEW g \in Hooks, thread[g] = "none" PROVE thread'[g] = "none"
    BY <2>1 DEF toggle_notifier, WakeWaiting, TypeOK
  <2>2. stale => changeList' # <<>> /\ UNCHANGED thread
    BY <1>2 DEF StaleUntouched
  <2>3. ~stale => Range(changeList') \subseteq allHooks
    BY <1>1, <1>2 DEF StaleUntouched
  <2> QED BY <2>1, <2>2, <2>3 DEF Freed, StaleUntouched, Range
<1>6. PendingExactly'
  <2>1. on_changeList'[h] /\ \A g \in Hooks : g # h => on_changeList'[g] = on_changeList[g]
    BY DEF TypeOK
  <2>2. \A g \in allHooks : owed[g] <=> on_changeList'[g] \/ g \in due'
    BY <1>1, <2>1 DEF PendingExactly, TypeOK
  <2>3. ~stale => \A g \in Hooks : on_changeList'[g] <=> g \in Range(changeList')
    BY <1>2, <2>1 DEF PendingExactly
  <2> QED BY <1>2, <2>2, <2>3 DEF PendingExactly, Distinct, Range
<1>7. NotifierReady' /\ ListHasDrainer'
  <2> SUFFICES ASSUME resets = 0, sim' = "run"
               PROVE  NotifierReady' /\ ListHasDrainer'
    BY DEF NotifierReady, ListHasDrainer
  <2>1. CASE changeList # <<>>
    BY <2>1 DEF NotifierReady, ListHasDrainer
  <2>2. CASE changeList = <<>>
    <3>1. notifier = "held" /\ running /\ WakeWaiting
      BY <2>2 DEF toggle_notifier, NotifierReady, TypeOK
    <3>2. PICK t \in Hooks : thread[t] \in {"waiting", "woken", "notifying"}
      BY <3>1 DEF NotifierReady
    <3>3. thread'[t] \in {"woken", "notifying"}
      BY <3>1, <3>2 DEF WakeWaiting
    <3> QED BY <3>1, <3>3 DEF NotifierReady, ListHasDrainer
  <2> QED BY <2>1, <2>2
<1> QED BY <1>4, <1>5, <1>6, <1>7 DEF DueIsLive, CallbackRegistrations

\* Taking a record off the list keeps it.
LEMMA DrainPopStep ==
  ASSUME IInv, NEW t \in Hooks, DrainPop(t)
  PROVE  IInv'
<1> USE DEF IInv, DrainPop, get_newest_entry, hooks, callbacks, env
<1>1. ~stale /\ changeList \in Seq(Hooks) /\ Distinct(changeList) /\ due = {}
  BY DEF TypeOK, StaleUntouched, PendingExactly, Distinct, InHandler
<1>2. /\ changeList' \in Seq(Hooks) /\ Head(changeList) \in Hooks
      /\ Range(changeList') = Range(changeList) \ {Head(changeList)}
      /\ Distinct(changeList')
  BY <1>1, PopFacts
<1>3. TypeOK'
  BY <1>2 DEF TypeOK
<1>6. thread'[t] = "notifying" /\ \A u \in Hooks : u # t => thread'[u] = thread[u]
  BY DEF TypeOK
<1>4. Freed' /\ StaleUntouched'
  <2>1. t \in allHooks
    BY DEF Freed
  <2>2. ~stale' /\ Range(changeList)' \subseteq allHooks'
    BY <1>1, <1>2 DEF StaleUntouched, Range
  <2>3. \A g \in Hooks : ~owed[g] => ~owed'[g]
    BY DEF TypeOK
  <2> QED BY <1>6, <2>1, <2>2, <2>3 DEF Freed, StaleUntouched
<1>5. PendingExactly'
  <2> DEFINE g == Head(changeList)
  <2>1. g \in Hooks /\ ~on_changeList'[g] /\ ~owed'[g]
        /\ \A k \in Hooks : k # g => /\ on_changeList'[k] = on_changeList[k]
                                    /\ owed'[k] = owed[k]
    BY <1>2 DEF TypeOK
  <2>2. \A k \in allHooks : owed'[k] <=> on_changeList'[k] \/ k \in due
    BY <1>1, <2>1 DEF PendingExactly, TypeOK
  <2>3. \A k \in Hooks : on_changeList'[k] <=> k \in Range(changeList')
    BY <1>1, <1>2, <2>1 DEF PendingExactly
  <2> QED BY <1>2, <2>2, <2>3 DEF PendingExactly, Distinct, Range
<1>7. NotifierReady' /\ ListHasDrainer'
  BY <1>6 DEF NotifierReady, ListHasDrainer
<1> QED BY <1>3, <1>4, <1>5, <1>7 DEF DueIsLive, CallbackRegistrations

\* The end of a drain keeps it: the list is empty.
LEMMA DrainEndStep ==
  ASSUME IInv, NEW t \in Hooks, DrainEnd(t)
  PROVE  IInv'
<1> USE DEF IInv, DrainEnd, hooks, callbacks, list, env
<1>1. TypeOK'
  BY PollingAssumption DEF TypeOK
<1>3. thread'[t] = "waiting" /\ \A u \in Hooks : u # t => thread'[u] = thread[u]
  BY DEF TypeOK
<1>2. Freed' /\ DueIsLive' /\ StaleUntouched' /\ PendingExactly' /\ CallbackRegistrations'
  <2>1. t \in allHooks
    BY DEF Freed
  <2>2. Freed' /\ StaleUntouched'
    BY <1>3, <2>1 DEF Freed, StaleUntouched, Range
  <2> QED BY <2>2 DEF DueIsLive, PendingExactly, CallbackRegistrations, Range
<1>4. NotifierReady' /\ ListHasDrainer'
  BY <1>3 DEF NotifierReady, ListHasDrainer
<1> QED BY <1>1, <1>2, <1>4

\* A reset keeps it.
LEMMA ResetStep ==
  ASSUME IInv, Reset
  PROVE  IInv'
<1> USE DEF IInv, Reset, free_mem_structures, list
<1>1. CallbackRegistrations' /\ registered' \in [Hooks -> Nat]
  BY DEF CallbackRegistrations, TypeOK
<1>2. owed' \in [Hooks -> BOOLEAN]
  BY DEF TypeOK
<1>3. TypeOK'
  <2>1. resets' \in 0..MaxResets /\ reentrant' \in 0..MaxReentrant
    BY PollingAssumption DEF TypeOK
  <2>2. notifier' \in {"null", "held", "released"}
    BY DEF TypeOK
  <2>3. allHooks' \subseteq Hooks /\ stale' \in BOOLEAN
    BY Zenon DEF TypeOK
  <2> QED BY <1>1, <1>2, <2>1, <2>2, <2>3 DEF TypeOK
<1>4. Freed' /\ DueIsLive' /\ PendingExactly'
  <2>1. Freed'
    BY DEF Freed, TypeOK
  <2>2. DueIsLive'
    BY DEF DueIsLive, InHandler
  <2>3. PendingExactly'
    <3>1. CASE reset_callbacks > 0
      <4>1. stale' = (changeList # <<>>) /\ allHooks' = {}
        BY <3>1
      <4>2. ~stale' => ~stale
        BY <4>1 DEF StaleUntouched
      <4> QED BY <3>1, <4>1, <4>2 DEF PendingExactly, Range
    <3>2. CASE ~(reset_callbacks > 0)
      BY <3>2 DEF PendingExactly, Range
    <3> QED BY <3>1, <3>2
  <2> QED BY <2>1, <2>2, <2>3
<1>5. resets' # 0
  BY DEF TypeOK
<1>6. StaleUntouched'
  <2>1. \A t \in Hooks : thread'[t] = "none"
    OBVIOUS
  <2>2. CASE reset_callbacks > 0
    <3>1. stale' = (changeList # <<>>) /\ changeList' = changeList
      BY <2>2
    <3>2. changeList = <<>> => Range(changeList') = {}
      BY <3>1 DEF Range
    <3> HIDE DEF Reset, free_mem_structures
    <3> QED BY <1>5, <2>1, <3>1, <3>2 DEF StaleUntouched, Range
  <2>3. CASE ~(reset_callbacks > 0)
    BY <1>5, <2>1, <2>3 DEF StaleUntouched, Range
  <2> QED BY <2>2, <2>3
<1> QED BY <1>1, <1>3, <1>4, <1>5, <1>6 DEF NotifierReady, ListHasDrainer

\* Every step keeps the inductive invariant.
LEMMA StepIInv == IInv /\ [Next]_vars => IInv'
<1> SUFFICES ASSUME IInv, [Next]_vars PROVE IInv'
  OBVIOUS
<1>1. CASE UNCHANGED vars
  BY <1>1 DEF vars, hooks, callbacks, list, sv, env, IInv, TypeOK, Freed,
     DueIsLive, StaleUntouched, PendingExactly, CallbackRegistrations,
     NotifierReady, ListHasDrainer, Range
<1>2. CASE Next
  BY <1>2, CreateProbeStep, SetEnableStep, SignalChangeStep, HandlerStep,
     RunProbesStep, DrainPopStep, DrainEndStep, ResetStep DEF Next
<1> QED BY <1>1, <1>2

\* The inductive invariant holds in every state.
LEMMA Invariance == Spec => []IInv
<1>1. Init => IInv
  BY InitIInv
<1>2. IInv /\ [Next]_vars => IInv'
  BY StepIInv
<1> QED BY <1>1, <1>2, PTL DEF Spec
-----------------------------------------------------------------------------
\* Every variable keeps its type; at most one reset callback is registered
\* (uvm_polling_reset_callback removes the one before).
THEOREM TypeCorrect == Spec => []TypeOK
<1>1. IInv => TypeOK
  BY DEF IInv
<1> QED BY <1>1, Invariance, PTL

\* The probes that wait to be told are the ones marked as listed, across drains,
\* handlers that run inside a drain, resets, and memory that is handed out again;
\* and until a reset leaves freed records on the list, these are the list.
THEOREM PendingIsExact == Spec => []PendingExactly
<1>1. IInv => PendingExactly
  BY DEF IInv
<1> QED BY <1>1, Invariance, PTL

\* The thread that drains the list never reads a record that was freed, and
\* never a list that reused memory has closed to a ring.
THEOREM NoFreedRecordIsRead == Spec => []DrainsLiveRecords
<1>1. IInv => DrainsLiveRecords
  BY DEF IInv, StaleUntouched, PendingExactly, DrainsLiveRecords
<1> QED BY <1>1, Invariance, PTL

\* The simulator holds one callback per live enabled record and no other.
THEOREM RegistrationsKept == Spec => []CallbackRegistrations
<1>1. IInv => CallbackRegistrations
  BY DEF IInv
<1> QED BY <1>1, Invariance, PTL

\* As long as the simulation is not reset, no notification is missed.
THEOREM NothingMissed == Spec => []NoneMissedBeforeReset
<1>1. IInv => NoneMissedBeforeReset
  <2> SUFFICES ASSUME IInv, resets = 0, sim = "run",
                      NEW h \in allHooks, owed[h], h \notin due
               PROVE  \E t \in Hooks : thread[t] \in {"woken", "notifying"}
    BY DEF NoneMissedBeforeReset, NoMissedNotification
  <2>1. h \in Range(changeList)
    BY DEF IInv, TypeOK, PendingExactly, StaleUntouched
  <2>2. changeList # <<>>
    BY <2>1 DEF Range
  <2> QED BY <2>2 DEF IInv, ListHasDrainer
<1> QED BY <1>1, Invariance, PTL
=============================================================================
