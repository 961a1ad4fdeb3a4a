-------------------------- MODULE JobClient_proofs --------------------------
(***************************************************************************)
(* Proofs about the commands of a client, for any number of commands, any  *)
(* page size, any number of killed daemons and logs of any length.         *)
(***************************************************************************)
EXTENDS JobClient, WellFoundedInduction, TLAPS

-----------------------------------------------------------------------------
(* The catalog between two calls.                                          *)

Entries == [series : Nat, attempt : Nat, state : JobStates]

\* A history of attempts, of which only the last may be alive.
OneLive(h) == Len(h) > 0 /\ \A a \in 1 .. Len(h) - 1 : h[a] \in TerminalStates

AllLive(at) == \A s \in 1 .. Len(at) : OneLive(at[s])

\* The events are about the first n series.
Names(lg, n) == \A i \in 1 .. Len(lg) : lg[i].series \in 1 .. n

\* What every request, the dispatcher and the workers keep of the catalog.
Kept(at, lg) ==
    /\ at \in Seq(Seq(JobStates)) /\ lg \in Seq(Entries)
    /\ AllLive(at) /\ Names(lg, Len(at))

\* What a step may make of a history.
Later(h, h2) ==
    /\ Len(h) <= Len(h2)
    /\ \A a \in 1 .. Len(h) :
          /\ h[a] \in TerminalStates => h2[a] = h[a]
          /\ h[a] = "cancelling" => h2[a] \in TerminalStates \union {"cancelling"}

\* What a step may do to it: attempts and events are added, an end is final, and what
\* is being cancelled can only end.
Grown(at, lg, at2, lg2) ==
    /\ Len(at) <= Len(at2) /\ Len(lg) <= Len(lg2)
    /\ \A s \in 1 .. Len(at) : Later(at[s], at2[s])
    /\ \A i \in 1 .. Len(lg) : lg2[i] = lg[i]

LEMMA Edges ==
    /\ \A s \in TerminalStates : AllowedNext(s) = {}
    /\ \A s \in JobStates : AllowedNext(s) \subseteq JobStates
    /\ AllowedNext("cancelling") \subseteq TerminalStates
    /\ "cancelled" \in AllowedNext("queued") /\ "starting" \in AllowedNext("queued")
    /\ "cancelling" \in AllowedNext("starting") /\ "cancelling" \in AllowedNext("running")
    /\ TerminalStates \subseteq JobStates /\ ActiveStates \subseteq JobStates
    /\ "queued" \in JobStates \ TerminalStates
    /\ "cancelling" \in JobStates \ TerminalStates
    /\ {"cancelled", "interrupted"} \subseteq TerminalStates
    /\ \A s \in JobStates : s \notin {"none", "unavailable", "conflict"}
PROOF
  BY DEF AllowedNext, TerminalStates, ActiveStates, JobStates

LEMMA SameIsLater ==
    ASSUME NEW h \in Seq(JobStates)
    PROVE  Later(h, h)
PROOF
  <1>1. Len(h) \in Nat
    OBVIOUS
  <1>. QED BY <1>1 DEF Later

LEMMA NothingMoves ==
    ASSUME NEW at, NEW lg, Kept(at, lg)
    PROVE  Grown(at, lg, at, lg)
PROOF
  <1>1. at \in Seq(Seq(JobStates)) /\ lg \in Seq(Entries)
    BY DEF Kept
  <1>2. /\ Len(at) \in Nat /\ Len(lg) \in Nat
        /\ \A s \in 1 .. Len(at) : Later(at[s], at[s])
    BY <1>1, SameIsLater
  <1>. QED BY <1>2 DEF Grown

\* One history changes, the others stay.
Replaces(at, s, g) ==
    /\ at \in Seq(Seq(JobStates)) /\ s \in 1 .. Len(at) /\ g \in Seq(JobStates)
    /\ AllLive(at) /\ OneLive(g) /\ Later(at[s], g)

Replaced(at, at2, s, g) ==
    /\ at2 \in Seq(Seq(JobStates)) /\ Len(at2) = Len(at) /\ at2[s] = g /\ AllLive(at2)
    /\ \A t \in 1 .. Len(at) : Later(at[t], at2[t])

LEMMA OneHistoryMoves ==
    ASSUME NEW at, NEW s, NEW g, Replaces(at, s, g)
    PROVE  Replaced(at, [at EXCEPT ![s] = g], s, g)
PROOF
  <1>. PICK at2 : at2 = [at EXCEPT ![s] = g]
    OBVIOUS
  <1>1. at \in Seq(Seq(JobStates)) /\ s \in 1 .. Len(at) /\ g \in Seq(JobStates)
    BY DEF Replaces
  <1>2. /\ at2 \in Seq(Seq(JobStates)) /\ Len(at2) = Len(at) /\ at2[s] = g
        /\ \A t \in 1 .. Len(at) : t # s => at2[t] = at[t]
    BY <1>1
  <1>3. \A t \in 1 .. Len(at) : Later(at[t], at[t])
    BY <1>1, SameIsLater
  <1>4. AllLive(at2)
    BY <1>2 DEF AllLive, Replaces
  <1>5. \A t \in 1 .. Len(at) : Later(at[t], at2[t])
    BY <1>2, <1>3 DEF Replaces
  <1>. QED BY <1>2, <1>4, <1>5 DEF Replaced

\* One more event, of a series that exists.
LEMMA OneMoreEvent ==
    ASSUME NEW lg \in Seq(Entries), NEW e \in Entries,
           NEW n \in Nat, NEW m \in Nat, n <= m, Names(lg, n), e.series \in 1 .. m
    PROVE  /\ Append(lg, e) \in Seq(Entries) /\ Len(lg) <= Len(Append(lg, e))
           /\ \A i \in 1 .. Len(lg) : Append(lg, e)[i] = lg[i]
           /\ Names(Append(lg, e), m)
PROOF
  <1>. PICK lg2 : lg2 = Append(lg, e)
    OBVIOUS
  <1>1. /\ lg2 \in Seq(Entries) /\ Len(lg2) = Len(lg) + 1 /\ Len(lg) \in Nat
        /\ lg2[Len(lg) + 1] = e
        /\ \A i \in 1 .. Len(lg) : lg2[i] = lg[i]
    OBVIOUS
  <1>2. ASSUME NEW i \in 1 .. Len(lg2)
        PROVE  lg2[i].series \in 1 .. m
    <2>1. CASE i = Len(lg) + 1
      BY <1>1, <2>1
    <2>2. CASE i # Len(lg) + 1
      <3>1. i \in 1 .. Len(lg)
        BY <1>1, <2>2
      <3>2. lg[i].series \in 1 .. n
        BY <3>1 DEF Names
      <3>. QED BY <1>1, <3>1, <3>2
    <2>. QED BY <2>1, <2>2
  <1>. QED BY <1>1, <1>2 DEF Names

\* A transition of the latest attempt along an edge of the lifecycle.
LEMMA BecomesMoves ==
    ASSUME Kept(attempts, log), NEW s \in 1 .. Len(attempts),
           NEW state \in AllowedNext(Latest(s)), Becomes(s, state)
    PROVE  /\ Kept(attempts', log') /\ Grown(attempts, log, attempts', log')
           /\ Len(attempts') = Len(attempts) /\ Len(attempts'[s]) = Len(attempts[s])
           /\ attempts'[s][Len(attempts[s])] = state
PROOF
  <1>1. attempts \in Seq(Seq(JobStates)) /\ log \in Seq(Entries)
    BY DEF Kept
  <1>. PICK h : h = attempts[s]
    OBVIOUS
  <1>. PICK n : n = Len(h)
    OBVIOUS
  <1>2. h \in Seq(JobStates) /\ n \in Nat /\ n > 0 /\ n \in 1 .. Len(h) /\ h[n] \in JobStates
    <2>1. h \in Seq(JobStates) /\ OneLive(h)
      BY <1>1 DEF Kept, AllLive
    <2>2. n \in Nat /\ n > 0
      BY <2>1 DEF OneLive
    <2>. QED BY <2>1, <2>2
  <1>3. Latest(s) = h[n]
    BY DEF Latest, Last
  <1>4. state \in JobStates /\ h[n] \notin TerminalStates
        /\ (h[n] = "cancelling" => state \in TerminalStates)
    BY <1>2, <1>3, Edges
  <1>. PICK g : g = [h EXCEPT ![n] = state]
    OBVIOUS
  <1>5. /\ g \in Seq(JobStates) /\ Len(g) = n /\ g[n] = state
        /\ \A a \in 1 .. n : a # n => g[a] = h[a]
    BY <1>2, <1>4
  <1>6. OneLive(g)
    <2>1. \A a \in 1 .. n - 1 : h[a] \in TerminalStates
      BY DEF Kept, AllLive, OneLive
    <2>2. \A a \in 1 .. n - 1 : a \in 1 .. n /\ a # n
      BY <1>2
    <2>. QED BY <1>2, <1>5, <2>1, <2>2 DEF OneLive
  <1>7. Later(h, g)
    <2>1. ASSUME NEW a \in 1 .. n
          PROVE  /\ h[a] \in TerminalStates => g[a] = h[a]
                 /\ h[a] = "cancelling" => g[a] \in TerminalStates \union {"cancelling"}
      BY <1>4, <1>5
    <2>. QED BY <1>2, <1>5, <2>1 DEF Later
  <1>8. /\ attempts' = [attempts EXCEPT ![s] = g]
        /\ log' = Append(log, [series |-> s, attempt |-> n, state |-> state])
    BY DEF Becomes, ReplaceAt, Event
  <1>9. /\ attempts' \in Seq(Seq(JobStates)) /\ Len(attempts') = Len(attempts) /\ attempts'[s] = g
        /\ AllLive(attempts') /\ \A t \in 1 .. Len(attempts) : Later(attempts[t], attempts'[t])
    <2>1. AllLive(attempts)
      BY DEF Kept
    <2>2. Later(attempts[s], g) /\ OneLive(g) /\ g \in Seq(JobStates)
      BY <1>5, <1>6, <1>7
    <2>3. Replaces(attempts, s, g)
      BY <1>1, <2>1, <2>2 DEF Replaces
    <2>4. Replaced(attempts, [attempts EXCEPT ![s] = g], s, g)
      BY <2>3, OneHistoryMoves
    <2>. QED BY <1>8, <2>4 DEF Replaced
  <1>10. /\ log' \in Seq(Entries) /\ Len(log) <= Len(log')
         /\ \A i \in 1 .. Len(log) : log'[i] = log[i]
         /\ Names(log', Len(attempts))
    <2>. PICK e : e = [series |-> s, attempt |-> n, state |-> state]
      OBVIOUS
    <2>1. Len(attempts) \in Nat /\ s \in Nat /\ Len(attempts) <= Len(attempts)
      BY <1>1
    <2>2. e \in Entries /\ e.series \in 1 .. Len(attempts)
      BY <1>2, <1>4, <2>1 DEF Entries
    <2>3. Names(log, Len(attempts))
      BY DEF Kept
    <2>4. log' = Append(log, e)
      BY <1>8
    <2>. QED BY <1>1, <2>1, <2>2, <2>3, <2>4, OneMoreEvent
  <1>11. Kept(attempts', log')
    BY <1>9, <1>10 DEF Kept
  <1>12. Grown(attempts, log, attempts', log')
    <2>1. Len(attempts) <= Len(attempts')
      BY <1>1, <1>9
    <2>. QED BY <1>9, <1>10, <2>1 DEF Grown
  <1>. QED BY <1>5, <1>9, <1>11, <1>12

\* The next attempt of a series whose attempts are over.
LEMMA RerunMoves ==
    ASSUME Kept(attempts, log), NEW s \in 1 .. Len(attempts), Settled(s), RerunRequest(s)
    PROVE  /\ Kept(attempts', log') /\ Grown(attempts, log, attempts', log')
           /\ Len(attempts') = Len(attempts) /\ Len(attempts'[s]) = Len(attempts[s]) + 1
PROOF
  <1>1. attempts \in Seq(Seq(JobStates)) /\ log \in Seq(Entries)
    BY DEF Kept
  <1>. PICK h : h = attempts[s]
    OBVIOUS
  <1>. PICK n : n = Len(h)
    OBVIOUS
  <1>2. h \in Seq(JobStates) /\ n \in Nat /\ n > 0
    <2>1. h \in Seq(JobStates) /\ OneLive(h)
      BY <1>1 DEF Kept, AllLive
    <2>. QED BY <2>1 DEF OneLive
  <1>3. \A a \in 1 .. n : h[a] \in TerminalStates
    <2>1. h[n] \in TerminalStates
      BY DEF Settled, Latest, Last
    <2>2. \A a \in 1 .. n - 1 : h[a] \in TerminalStates
      BY DEF Kept, AllLive, OneLive
    <2>3. \A a \in 1 .. n : a = n \/ a \in 1 .. n - 1
      BY <1>2
    <2>. QED BY <2>1, <2>2, <2>3
  <1>. PICK g : g = Append(h, "queued")
    OBVIOUS
  <1>4. g \in Seq(JobStates) /\ Len(g) = n + 1 /\ \A a \in 1 .. n : g[a] = h[a]
    BY <1>2, Edges
  <1>5. /\ attempts' = [attempts EXCEPT ![s] = g]
        /\ log' = Append(log, [series |-> s, attempt |-> n + 1, state |-> "queued"])
    BY DEF RerunRequest, Event
  <1>6. OneLive(g) /\ Later(h, g)
    <2>1. OneLive(g)
      <3>1. Len(g) > 0 /\ \A a \in 1 .. Len(g) - 1 : a \in 1 .. n
        BY <1>2, <1>4
      <3>. QED BY <1>3, <1>4, <3>1 DEF OneLive
    <2>2. Later(h, g)
      BY <1>2, <1>3, <1>4, Edges DEF Later
    <2>. QED BY <2>1, <2>2
  <1>7. /\ log' \in Seq(Entries) /\ Len(log) <= Len(log')
        /\ \A i \in 1 .. Len(log) : log'[i] = log[i]
        /\ Names(log', Len(attempts))
    <2>. PICK e : e = [series |-> s, attempt |-> n + 1, state |-> "queued"]
      OBVIOUS
    <2>1. Len(attempts) \in Nat /\ s \in Nat /\ Len(attempts) <= Len(attempts)
      BY <1>1
    <2>2. e \in Entries /\ e.series \in 1 .. Len(attempts)
      BY <1>2, <2>1, Edges DEF Entries
    <2>3. Names(log, Len(attempts))
      BY DEF Kept
    <2>4. log' = Append(log, e)
      BY <1>5
    <2>. QED BY <1>1, <2>1, <2>2, <2>3, <2>4, OneMoreEvent
  <1>8. /\ attempts' \in Seq(Seq(JobStates)) /\ Len(attempts') = Len(attempts) /\ attempts'[s] = g
        /\ AllLive(attempts') /\ \A t \in 1 .. Len(attempts) : Later(attempts[t], attempts'[t])
    <2>1. AllLive(attempts)
      BY DEF Kept
    <2>2. Later(attempts[s], g) /\ OneLive(g) /\ g \in Seq(JobStates)
      BY <1>4, <1>6, <1>6
    <2>3. Replaces(attempts, s, g)
      BY <1>1, <2>1, <2>2 DEF Replaces
    <2>4. Replaced(attempts, [attempts EXCEPT ![s] = g], s, g)
      BY <2>3, OneHistoryMoves
    <2>. QED BY <1>5, <2>4 DEF Replaced
  <1>9. Kept(attempts', log')
    BY <1>7, <1>8 DEF Kept
  <1>10. Grown(attempts, log, attempts', log')
    <2>1. Len(attempts) <= Len(attempts')
      BY <1>1, <1>8
    <2>. QED BY <1>7, <1>8, <2>1 DEF Grown
  <1>. QED BY <1>4, <1>8, <1>9, <1>10

\* A new series.
LEMMA SubmitMoves ==
    ASSUME Kept(attempts, log), SubmitRequest
    PROVE  /\ Kept(attempts', log') /\ Grown(attempts, log, attempts', log')
           /\ Len(attempts') = Len(attempts) + 1 /\ Len(attempts'[Len(attempts')]) = 1
PROOF
  <1>1. attempts \in Seq(Seq(JobStates)) /\ log \in Seq(Entries)
    BY DEF Kept
  <1>. PICK n : n = Len(attempts)
    OBVIOUS
  <1>. PICK h : h = <<"queued">>
    OBVIOUS
  <1>2. n \in Nat /\ h \in Seq(JobStates) /\ Len(h) = 1
    BY <1>1, Edges
  <1>3. /\ attempts' = Append(attempts, h)
        /\ log' = Append(log, [series |-> n + 1, attempt |-> 1, state |-> "queued"])
    BY DEF SubmitRequest, Event
  <1>4. /\ attempts' \in Seq(Seq(JobStates)) /\ Len(attempts') = n + 1
        /\ attempts'[n + 1] = h /\ \A t \in 1 .. n : attempts'[t] = attempts[t]
    BY <1>1, <1>2, <1>3
  <1>5. /\ log' \in Seq(Entries) /\ Len(log) <= Len(log')
        /\ \A i \in 1 .. Len(log) : log'[i] = log[i]
        /\ Names(log', n + 1)
    <2>. PICK e : e = [series |-> n + 1, attempt |-> 1, state |-> "queued"]
      OBVIOUS
    <2>1. n + 1 \in Nat /\ n <= n + 1
      BY <1>2
    <2>2. e \in Entries /\ e.series \in 1 .. n + 1
      BY <1>2, <2>1, Edges DEF Entries
    <2>3. Names(log, n)
      BY DEF Kept
    <2>. QED BY <1>1, <1>2, <1>3, <2>1, <2>2, <2>3, OneMoreEvent
  <1>6. ASSUME NEW t \in 1 .. n + 1
        PROVE  OneLive(attempts'[t])
    <2>1. CASE t = n + 1
      <3>1. attempts'[t] = h
        BY <1>4, <2>1
      <3>. QED BY <1>2, <3>1 DEF OneLive
    <2>2. CASE t # n + 1
      <3>1. t \in 1 .. n /\ attempts'[t] = attempts[t]
        BY <1>2, <1>4, <2>2
      <3>. QED BY <3>1 DEF Kept, AllLive
    <2>. QED BY <2>1, <2>2
  <1>7. Kept(attempts', log')
    BY <1>4, <1>5, <1>6 DEF Kept, AllLive
  <1>8. Grown(attempts, log, attempts', log')
    <2>1. \A t \in 1 .. n : Later(attempts[t], attempts'[t])
      BY <1>1, <1>4, SameIsLater
    <2>2. Len(attempts) <= Len(attempts')
      BY <1>2, <1>4
    <2>. QED BY <1>5, <2>1, <2>2 DEF Grown
  <1>. QED BY <1>2, <1>4, <1>7, <1>8

-----------------------------------------------------------------------------
(* A page of events.  Induction over the log is done with a set of natural *)
(* numbers, which has a least element.                                     *)

LEMMA LowestExists ==
    ASSUME NEW S \in SUBSET Nat, S # {}
    PROVE  \E l \in S : \A j \in S : l <= j
PROOF
  <1>1. IsWellFoundedOn({ss \in Nat \X Nat : ss[1] < ss[2]}, Nat)
    BY NatLessThanWellFounded DEF OpToRel
  <1>2. PICK l \in S : \A j \in S : ~ (<<j, l>> \in {ss \in Nat \X Nat : ss[1] < ss[2]})
    <2>1. \A R : IsWellFoundedOn(R, Nat) => \E x \in S : \A y \in S : ~ (<<y, x>> \in R)
      BY WFMin
    <2>. QED BY <1>1, <2>1
  <1>3. \A j \in S : ~ (j < l) /\ j \in Nat /\ l \in Nat
    BY <1>2
  <1>. QED BY <1>3

LEMMA CountUp ==
    ASSUME NEW S \in SUBSET Nat, 0 \in S, \A n \in S : n + 1 \in S
    PROVE  S = Nat
PROOF
  <1>. SUFFICES ASSUME Nat \ S # {} PROVE FALSE
    OBVIOUS
  <1>1. PICK l \in Nat \ S : \A j \in Nat \ S : l <= j
    BY LowestExists
  <1>2. l - 1 \in Nat /\ l - 1 \in S /\ (l - 1) + 1 = l
    <2>1. l # 0 /\ l \in Nat
      OBVIOUS
    <2>2. l - 1 \in Nat /\ ~ (l <= l - 1) /\ (l - 1) + 1 = l
      BY <2>1
    <2>. QED BY <1>1, <2>2
  <1>. QED BY <1>2

\* The function that PageAfter evaluates, up to n.
Pages(f, lg, s, after, n) ==
    f = [i \in 0 .. n |->
            IF i = 0 THEN <<>>
            ELSE IF i > after /\ lg[i].series = s /\ Len(f[i - 1]) < Page
                 THEN Append(f[i - 1], i)
                 ELSE f[i - 1]]

\* The page after one more event.
NextPage(p, lg, s, after, i) ==
    IF i > after /\ lg[i].series = s /\ Len(p) < Page THEN Append(p, i) ELSE p

\* What it goes through.
Unrolls(f, lg, s, after, n) ==
    f[0] = <<>> /\ \A i \in 1 .. n : f[i] = NextPage(f[i - 1], lg, s, after, i)

LEMMA PagesAre ==
    ASSUME NEW lg, NEW s, NEW after, NEW n \in Nat, NEW f, Pages(f, lg, s, after, n)
    PROVE  Unrolls(f, lg, s, after, n)
PROOF
  <1>1. \A i \in 0 .. n :
            f[i] = IF i = 0 THEN <<>>
                   ELSE IF i > after /\ lg[i].series = s /\ Len(f[i - 1]) < Page
                        THEN Append(f[i - 1], i)
                        ELSE f[i - 1]
    BY DEF Pages
  <1>2. 0 \in 0 .. n /\ \A i \in 1 .. n : i \in 0 .. n /\ i # 0
    OBVIOUS
  <1>3. f[0] = <<>>
    BY <1>1, <1>2
  <1>. QED BY <1>1, <1>2, <1>3 DEF NextPage, Unrolls

LEMMA PagesExist ==
    ASSUME NEW lg, NEW s, NEW after, NEW m \in Nat
    PROVE  \E f : Pages(f, lg, s, after, m)
PROOF
  <1>. DEFINE S == {n \in Nat : \E f : Pages(f, lg, s, after, n)}
  <1>1. 0 \in S
    <2>. DEFINE f == [i \in 0 .. 0 |-> <<>>]
    <2>1. f = [i \in 0 .. 0 |->
                  IF i = 0 THEN <<>>
                  ELSE IF i > after /\ lg[i].series = s /\ Len(f[i - 1]) < Page
                       THEN Append(f[i - 1], i)
                       ELSE f[i - 1]]
      OBVIOUS
    <2>. HIDE DEF f
    <2>2. Pages(f, lg, s, after, 0)
      BY <2>1 DEF Pages
    <2>. QED BY <2>2
  <1>2. ASSUME NEW n \in S
        PROVE  n + 1 \in S
    <2>1. PICK f : Pages(f, lg, s, after, n)
      OBVIOUS
    <2>. PICK last : last = NextPage(f[n], lg, s, after, n + 1)
      OBVIOUS
    <2>. DEFINE h == [i \in 0 .. n + 1 |-> IF i = n + 1 THEN last ELSE f[i]]
    <2>2. f[0] = <<>> /\ \A i \in 1 .. n : f[i] = NextPage(f[i - 1], lg, s, after, i)
      BY <2>1, PagesAre DEF Unrolls
    <2>3. \A i \in 0 .. n + 1 :
              h[i] = IF i = 0 THEN <<>> ELSE NextPage(h[i - 1], lg, s, after, i)
      <3>. TAKE i \in 0 .. n + 1
      <3>1. CASE i = 0
        BY <2>2, <3>1
      <3>2. CASE i = n + 1
        <4>1. i # 0 /\ i - 1 = n /\ i - 1 \in 0 .. n + 1 /\ i - 1 # n + 1
          BY <3>2
        <4>2. h[i] = last /\ h[i - 1] = f[n]
          BY <3>2, <4>1
        <4>. HIDE DEF h
        <4>. QED BY <3>2, <4>1, <4>2
      <3>3. CASE i # 0 /\ i # n + 1
        <4>1. i \in 1 .. n /\ i - 1 \in 0 .. n + 1 /\ i - 1 # n + 1
          BY <3>3
        <4>2. h[i] = f[i] /\ h[i - 1] = f[i - 1]
          BY <3>3, <4>1
        <4>. HIDE DEF h
        <4>. QED BY <2>2, <3>3, <4>1, <4>2
      <3>. QED BY <3>1, <3>2, <3>3
    <2>4. h = [i \in 0 .. n + 1 |-> h[i]]
      OBVIOUS
    <2>. HIDE DEF h
    <2>5. Pages(h, lg, s, after, n + 1)
      BY <2>3, <2>4 DEF Pages, NextPage
    <2>. QED BY <2>5
  <1>. HIDE DEF S
  <1>3. S \in SUBSET Nat
    BY DEF S
  <1>4. S = Nat
    BY <1>1, <1>2, <1>3, CountUp
  <1>. QED BY <1>4 DEF S

\* p is a page of the first n events: events of the series after the cursor, in order, and
\* all of them up to the end, or to the last one of a full page.
IsPage(p, lg, s, after, n) ==
    /\ p \in Seq(Nat) /\ Len(p) <= Page
    /\ \A k \in 1 .. Len(p) : after < p[k] /\ p[k] <= n /\ lg[p[k]].series = s
    /\ \A j, k \in 1 .. Len(p) : j < k => p[j] < p[k]
    /\ \A i \in after + 1 .. n :
          lg[i].series = s => \/ \E k \in 1 .. Len(p) : p[k] = i
                              \/ Len(p) = Page /\ \A k \in 1 .. Len(p) : p[k] < i

LEMMA PageGrows ==
    ASSUME NEW lg, NEW s, NEW after \in Nat, NEW n \in Nat, NEW p, IsPage(p, lg, s, after, n)
    PROVE  IsPage(NextPage(p, lg, s, after, n + 1), lg, s, after, n + 1)
PROOF
  <1>1. Page \in Nat /\ Page > 0
    BY ClientAssumption
  <1>2. p \in Seq(Nat) /\ Len(p) \in Nat /\ Len(p) <= Page /\ \A k \in 1 .. Len(p) : p[k] \in Nat
    BY DEF IsPage
  <1>3. \A k \in 1 .. Len(p) : after < p[k] /\ p[k] <= n /\ lg[p[k]].series = s
    BY DEF IsPage
  <1>4. \A j, k \in 1 .. Len(p) : j < k => p[j] < p[k]
    BY DEF IsPage
  <1>5. \A i \in after + 1 .. n :
            lg[i].series = s => \/ \E k \in 1 .. Len(p) : p[k] = i
                                \/ Len(p) = Page /\ \A k \in 1 .. Len(p) : p[k] < i
    BY DEF IsPage
  <1>6. CASE n + 1 > after /\ lg[n + 1].series = s /\ Len(p) < Page
    <2>. PICK q : q = Append(p, n + 1)
      OBVIOUS
    <2>1. /\ q \in Seq(Nat) /\ Len(q) = Len(p) + 1 /\ q[Len(p) + 1] = n + 1
          /\ \A k \in 1 .. Len(p) : q[k] = p[k]
      BY <1>2
    <2>2. \A k \in 1 .. Len(q) : k \in 1 .. Len(p) \/ k = Len(p) + 1
      BY <1>2, <2>1
    <2>3. \A k \in 1 .. Len(p) : after < q[k] /\ q[k] <= n /\ q[k] <= n + 1 /\ lg[q[k]].series = s
      BY <1>2, <1>3, <2>1
    <2>4. \A k \in 1 .. Len(q) : after < q[k] /\ q[k] <= n + 1 /\ lg[q[k]].series = s
      BY <1>6, <2>1, <2>2, <2>3
    <2>5. \A j, k \in 1 .. Len(q) : j < k => q[j] < q[k]
      <3>. TAKE j, k \in 1 .. Len(q)
      <3>. HAVE j < k
      <3>1. j \in 1 .. Len(p)
        BY <1>2, <2>1
      <3>2. CASE k \in 1 .. Len(p)
        BY <1>4, <2>1, <3>1, <3>2
      <3>3. CASE k = Len(p) + 1
        BY <1>2, <1>3, <2>1, <3>1, <3>3
      <3>. QED BY <2>2, <3>2, <3>3
    <2>6. \A i \in after + 1 .. n + 1 :
              lg[i].series = s => \E k \in 1 .. Len(q) : q[k] = i
      <3>. TAKE i \in after + 1 .. n + 1
      <3>. HAVE lg[i].series = s
      <3>1. CASE i = n + 1
        <4>1. Len(p) + 1 \in 1 .. Len(q)
          BY <1>2, <2>1
        <4>. QED BY <2>1, <3>1, <4>1
      <3>2. CASE i # n + 1
        <4>1. i \in after + 1 .. n /\ Len(p) # Page
          BY <1>1, <1>2, <1>6, <3>2
        <4>2. PICK k \in 1 .. Len(p) : p[k] = i
          BY <1>5, <4>1
        <4>3. k \in 1 .. Len(q)
          BY <1>2, <2>1
        <4>. QED BY <2>1, <4>2, <4>3
      <3>. QED BY <3>1, <3>2
    <2>7. Len(q) <= Page
      BY <1>1, <1>2, <1>6, <2>1
    <2>8. IsPage(q, lg, s, after, n + 1)
      BY <2>1, <2>4, <2>5, <2>6, <2>7 DEF IsPage
    <2>. QED BY <1>6, <2>8 DEF NextPage
  <1>7. CASE ~ (n + 1 > after /\ lg[n + 1].series = s /\ Len(p) < Page)
    <2>1. \A k \in 1 .. Len(p) : p[k] <= n + 1
      BY <1>2, <1>3
    <2>2. \A i \in after + 1 .. n + 1 :
              lg[i].series = s => \/ \E k \in 1 .. Len(p) : p[k] = i
                                  \/ Len(p) = Page /\ \A k \in 1 .. Len(p) : p[k] < i
      <3>. TAKE i \in after + 1 .. n + 1
      <3>. HAVE lg[i].series = s
      <3>1. CASE i = n + 1
        <4>1. Len(p) = Page
          BY <1>1, <1>2, <1>7, <3>1
        <4>2. \A k \in 1 .. Len(p) : p[k] < i
          BY <1>2, <1>3, <3>1
        <4>. QED BY <4>1, <4>2
      <3>2. CASE i # n + 1
        <4>1. i \in after + 1 .. n
          BY <3>2
        <4>. QED BY <1>5, <4>1
      <3>. QED BY <3>1, <3>2
    <2>3. IsPage(p, lg, s, after, n + 1)
      BY <1>2, <1>3, <1>4, <2>1, <2>2 DEF IsPage
    <2>. QED BY <1>7, <2>3 DEF NextPage
  <1>. QED BY <1>6, <1>7

LEMMA PageIs ==
    ASSUME log \in Seq(Entries), NEW s, NEW after \in Nat
    PROVE  IsPage(PageAfter(s, after), log, s, after, Len(log))
PROOF
  <1>0. Len(log) \in Nat
    OBVIOUS
  <1>1. PICK f : Pages(f, log, s, after, Len(log)) /\ PageAfter(s, after) = f[Len(log)]
    <2>1. PageAfter(s, after) = (CHOOSE f : Pages(f, log, s, after, Len(log)))[Len(log)]
      BY DEF PageAfter, Pages
    <2>2. \E f : Pages(f, log, s, after, Len(log))
      BY <1>0, PagesExist
    <2>. QED BY <2>1, <2>2
  <1>2. f[0] = <<>> /\ \A i \in 1 .. Len(log) : f[i] = NextPage(f[i - 1], log, s, after, i)
    <2>1. Unrolls(f, log, s, after, Len(log))
      BY <1>0, <1>1, PagesAre
    <2>. QED BY <2>1 DEF Unrolls
  <1>. DEFINE S == {n \in Nat : n <= Len(log) => IsPage(f[n], log, s, after, n)}
  <1>3. 0 \in S
    <2>1. Page \in Nat
      BY ClientAssumption
    <2>2. f[0] \in Seq(Nat) /\ Len(f[0]) = 0
      BY <1>2
    <2>3. IsPage(f[0], log, s, after, 0)
      BY <2>1, <2>2 DEF IsPage
    <2>. QED BY <2>3
  <1>4. ASSUME NEW n \in S
        PROVE  n + 1 \in S
    <2>. SUFFICES ASSUME n + 1 <= Len(log)
                  PROVE  IsPage(f[n + 1], log, s, after, n + 1)
      OBVIOUS
    <2>1. n \in Nat /\ n <= Len(log) /\ n + 1 \in 1 .. Len(log) /\ (n + 1) - 1 = n
      BY <1>0
    <2>2. IsPage(f[n], log, s, after, n)
      BY <2>1
    <2>3. f[n + 1] = NextPage(f[n], log, s, after, n + 1)
      BY <1>2, <2>1
    <2>. QED BY <2>1, <2>2, <2>3, PageGrows
  <1>. HIDE DEF S
  <1>5. S \in SUBSET Nat
    BY DEF S
  <1>6. Len(log) \in S
    BY <1>0, <1>3, <1>4, <1>5, CountUp
  <1>. QED BY <1>0, <1>1, <1>6 DEF S

-----------------------------------------------------------------------------
(* The inductive invariant: what holds of one command, beside the catalog. *)

\* The calls that each command makes.
Stages == [run    |-> {"connect", "submit", "page", "status", "done"},
           wait   |-> {"connect", "page", "status", "done"},
           events |-> {"connect", "page", "status", "done"},
           cancel |-> {"connect", "cancel", "check", "done"},
           rerun  |-> {"connect", "first", "cancel", "check", "poll", "rerun", "done"}]

Failures == {"none", "unavailable", "conflict"}

Records == [cmd : Commands, mode : {"safe", "force"}, since : {0, 3},
            pc : Calls \union {"connect", "done"}, series : Nat, cursor : Nat, out : Seq(Nat),
            full : BOOLEAN, read : Nat, base : Nat, receipt : Nat, tries : Nat,
            error : Failures, answer : JobStates \union Failures, exit : {0, 1}]

\* It names attempts that exist.
Placed(x, at) ==
    /\ x.pc \in Stages[x.cmd] /\ x.tries <= MaxTries
    /\ x.series \in 1 .. Len(at)
    /\ x.base <= Len(at[x.series]) /\ x.receipt <= Len(at[x.series])
    /\ x.cmd # "run" => x.series = Job /\ (x.pc = "connect" \/ x.base > 0)

\* An attempt that is over, or will be.
Over(mode, state) ==
    state \in TerminalStates \union (IF mode = "safe" THEN {"cancelling"} ELSE {})

\* A cancel, and a rerun that has cancelled, have stopped the attempt of their start.
Stopped(x, at) ==
    (x.cmd = "cancel" /\ x.pc = "done" /\ x.answer \in JobStates) \/ (x.cmd = "rerun" /\ x.pc = "poll")
        => Over(x.mode, at[x.series][x.base])

\* The answer of a wait is the end of an attempt.
EndSeen(x, at) ==
    x.cmd \in {"run", "wait"} /\ x.pc = "done" /\ x.answer \in JobStates =>
        /\ x.answer \in TerminalStates
        /\ \E a \in 1 .. Len(at[x.series]) : x.base <= a /\ at[x.series][a] = x.answer

\* What was printed are the events of the series from the start to the cursor.
Lists(out, series, since, cursor, lg) ==
    /\ \A i \in Nat : (\E k \in 1 .. Len(out) : out[k] = i) <=>
                       (since < i /\ i <= cursor /\ lg[i].series = series)
    /\ \A j, k \in 1 .. Len(out) : j < k => out[j] < out[k]

\* After a page that was not full there was nothing left to print.
Drained(x, lg) ==
    ~ x.full => \A i \in x.cursor + 1 .. x.read : lg[i].series # x.series

Reading(x, lg) ==
    /\ x.since <= x.cursor /\ x.cursor <= Len(lg) /\ x.read <= Len(lg)
    /\ x.pc \in {"connect", "submit"} => x.read = 0 /\ x.out = <<>> /\ x.cursor = x.since
    /\ Lists(x.out, x.series, x.since, x.cursor, lg)
    /\ Drained(x, lg)

Followed(x) == x.cmd = "events" /\ x.pc = "done" /\ x.answer \in TerminalStates => ~ x.full

Fine(x, at, lg) ==
    /\ x \in Records
    /\ Placed(x, at) /\ Stopped(x, at) /\ EndSeen(x, at) /\ Reading(x, lg) /\ Followed(x)

ClientInv ==
    /\ Kept(attempts, log)
    /\ cl = [c \in Clients |-> cl[c]]
    /\ \A c \in Clients : Fine(cl[c], attempts, log)
    /\ ReceiptsAreDistinct
    /\ daemon \in {"down", "up", "closing"} /\ orphaned \in BOOLEAN

\* Whatever others do to the catalog, what a command knows stays true.
LEMMA StaysFine ==
    ASSUME NEW at, NEW lg, NEW at2, NEW lg2, Kept(at, lg), Kept(at2, lg2),
           Grown(at, lg, at2, lg2), NEW x, Fine(x, at, lg)
    PROVE  Fine(x, at2, lg2)
PROOF
  <1>1. /\ at \in Seq(Seq(JobStates)) /\ lg \in Seq(Entries)
        /\ at2 \in Seq(Seq(JobStates)) /\ lg2 \in Seq(Entries)
    BY DEF Kept
  <1>2. /\ x \in Records /\ x.series \in Nat /\ x.cursor \in Nat /\ x.read \in Nat
        /\ x.base \in Nat /\ x.receipt \in Nat /\ x.since \in Nat
    BY DEF Fine, Records
  <1>3. Placed(x, at) /\ Stopped(x, at) /\ EndSeen(x, at) /\ Reading(x, lg) /\ Followed(x)
    BY DEF Fine
  <1>4. /\ Len(at) \in Nat /\ Len(at2) \in Nat /\ Len(lg) \in Nat /\ Len(lg2) \in Nat
        /\ Len(at) <= Len(at2) /\ Len(lg) <= Len(lg2)
        /\ \A i \in 1 .. Len(lg) : lg2[i] = lg[i]
    BY <1>1 DEF Grown
  <1>. PICK h : h = at[x.series]
    OBVIOUS
  <1>. PICK g : g = at2[x.series]
    OBVIOUS
  <1>5. /\ x.series \in 1 .. Len(at) /\ x.series \in 1 .. Len(at2)
        /\ x.base <= Len(h) /\ x.receipt <= Len(h)
    BY <1>3, <1>4 DEF Placed
  <1>6. Later(h, g)
    BY <1>5 DEF Grown
  <1>7. Len(h) \in Nat /\ Len(g) \in Nat /\ Len(h) <= Len(g)
    BY <1>1, <1>5, <1>6 DEF Later
  <1>8. Placed(x, at2)
    <2>1. x.base <= Len(g) /\ x.receipt <= Len(g)
      BY <1>2, <1>5, <1>7
    <2>. QED BY <1>3, <1>5, <2>1 DEF Placed
  <1>9. Stopped(x, at2)
    <2>. SUFFICES ASSUME \/ x.cmd = "cancel" /\ x.pc = "done" /\ x.answer \in JobStates
                         \/ x.cmd = "rerun" /\ x.pc = "poll"
                  PROVE  Over(x.mode, g[x.base])
      BY DEF Stopped
    <2>1. Over(x.mode, h[x.base])
      BY <1>3 DEF Stopped
    <2>2. x.base \in 1 .. Len(h)
      <3>1. x.base > 0
        BY <1>3 DEF Placed
      <3>. QED BY <1>2, <1>5, <1>7, <3>1
    <2>3. /\ h[x.base] \in TerminalStates => g[x.base] = h[x.base]
          /\ h[x.base] = "cancelling" => g[x.base] \in TerminalStates \union {"cancelling"}
      BY <1>6, <2>2 DEF Later
    <2>. QED BY <2>1, <2>3 DEF Over
  <1>10. EndSeen(x, at2)
    <2>. SUFFICES ASSUME x.cmd \in {"run", "wait"}, x.pc = "done", x.answer \in JobStates
                  PROVE  /\ x.answer \in TerminalStates
                         /\ \E a \in 1 .. Len(g) : x.base <= a /\ g[a] = x.answer
      BY DEF EndSeen
    <2>1. x.answer \in TerminalStates
      BY <1>3 DEF EndSeen
    <2>2. PICK a \in 1 .. Len(h) : x.base <= a /\ h[a] = x.answer
      BY <1>3 DEF EndSeen
    <2>3. g[a] = h[a]
      BY <1>6, <2>1, <2>2 DEF Later
    <2>4. a \in 1 .. Len(g)
      BY <1>7, <2>2
    <2>. QED BY <2>1, <2>2, <2>3, <2>4
  <1>11. Reading(x, lg2)
    <2>1. /\ x.since <= x.cursor /\ x.cursor <= Len(lg) /\ x.read <= Len(lg)
          /\ x.pc \in {"connect", "submit"} => x.read = 0 /\ x.out = <<>> /\ x.cursor = x.since
          /\ Lists(x.out, x.series, x.since, x.cursor, lg) /\ Drained(x, lg)
      BY <1>3 DEF Reading
    <2>2. x.cursor <= Len(lg2) /\ x.read <= Len(lg2)
      BY <1>2, <1>4, <2>1
    <2>3. Lists(x.out, x.series, x.since, x.cursor, lg2)
      <3>1. \A i \in Nat : x.since < i /\ i <= x.cursor => lg2[i] = lg[i]
        BY <1>2, <1>4, <2>1
      <3>. QED BY <2>1, <3>1 DEF Lists
    <2>4. Drained(x, lg2)
      <3>1. \A i \in x.cursor + 1 .. x.read : lg2[i] = lg[i]
        BY <1>2, <1>4, <2>1
      <3>. QED BY <2>1, <3>1 DEF Drained
    <2>. QED BY <2>1, <2>2, <2>3, <2>4 DEF Reading
  <1>. QED BY <1>2, <1>3, <1>8, <1>9, <1>10, <1>11 DEF Fine

-----------------------------------------------------------------------------
(* The requests.                                                           *)

\* A cancel of an attempt that is alive stops it, or has it stop itself.
LEMMA CancelMoves ==
    ASSUME Kept(attempts, log), NEW s \in 1 .. Len(attempts), NEW mode \in {"safe", "force"},
           CancelRequest(s, mode)
    PROVE  /\ Kept(attempts', log') /\ Grown(attempts, log, attempts', log')
           /\ Len(attempts') = Len(attempts) /\ Len(attempts'[s]) = Len(attempts[s])
           /\ ~ Settled(s) => Over(mode, attempts'[s][Len(attempts[s])])
PROOF
  <1>1. Latest(s) = attempts[s][Len(attempts[s])]
    BY DEF Latest, Last
  <1>2. Latest(s) \in JobStates
    <2>1. attempts \in Seq(Seq(JobStates)) /\ OneLive(attempts[s])
      BY DEF Kept, AllLive
    <2>2. attempts[s] \in Seq(JobStates) /\ Len(attempts[s]) \in Nat /\ Len(attempts[s]) > 0
      BY <2>1 DEF OneLive
    <2>. QED BY <1>1, <2>2
  <1>3. CASE UNCHANGED catalog /\ (Settled(s) \/ (Latest(s) = "cancelling" /\ mode = "safe"))
    <2>1. attempts' = attempts /\ log' = log
      BY <1>3 DEF catalog
    <2>2. ~ Settled(s) => Over(mode, attempts[s][Len(attempts[s])])
      BY <1>1, <1>3 DEF Over
    <2>3. Grown(attempts, log, attempts, log)
      BY NothingMoves
    <2>. QED BY <2>1, <2>2, <2>3
  <1>4. ASSUME NEW state \in AllowedNext(Latest(s)), Becomes(s, state), Over(mode, state)
        PROVE  /\ Kept(attempts', log') /\ Grown(attempts, log, attempts', log')
               /\ Len(attempts') = Len(attempts) /\ Len(attempts'[s]) = Len(attempts[s])
               /\ Over(mode, attempts'[s][Len(attempts[s])])
    BY <1>4, BecomesMoves
  <1>5. CASE ~ Settled(s) /\ Latest(s) = "queued"
    <2>1. Becomes(s, "cancelled")
      BY <1>5 DEF CancelRequest
    <2>2. "cancelled" \in AllowedNext(Latest(s)) /\ Over(mode, "cancelled")
      BY <1>5, Edges DEF Over
    <2>. QED BY <1>4, <2>1, <2>2
  <1>6. CASE ~ Settled(s) /\ Latest(s) # "queued" /\ mode = "force"
    <2>1. PICK t \in AllowedNext(Latest(s)) \intersect Outcomes : Becomes(s, t)
      BY <1>6 DEF CancelRequest
    <2>2. Over(mode, t)
      BY ClientAssumption DEF Over
    <2>. QED BY <1>4, <2>1, <2>2
  <1>7. CASE ~ Settled(s) /\ Latest(s) \in {"starting", "running"} /\ mode = "safe"
    <2>1. Becomes(s, "cancelling")
      BY <1>7 DEF CancelRequest
    <2>2. "cancelling" \in AllowedNext(Latest(s)) /\ Over(mode, "cancelling")
      BY <1>7, Edges DEF Over
    <2>. QED BY <1>4, <2>1, <2>2
  <1>8. CASE Settled(s)
    <2>1. Latest(s) \notin {"queued", "starting", "running"}
      BY <1>8 DEF Settled, TerminalStates
    <2>2. UNCHANGED catalog
      BY <1>8, <2>1 DEF CancelRequest
    <2>. QED BY <1>3, <1>8, <2>2
  <1>9. CASE ~ Settled(s) /\ Latest(s) = "cancelling" /\ mode = "safe"
    <2>1. UNCHANGED catalog
      BY <1>9 DEF CancelRequest
    <2>. QED BY <1>3, <1>9, <2>1
  <1>10. Latest(s) \in {"queued", "starting", "running", "cancelling"} \/ Settled(s)
    BY <1>2 DEF JobStates, ActiveStates, Settled
  <1>. QED BY <1>5, <1>6, <1>7, <1>8, <1>9, <1>10

\* Whatever a call asks for, attempts and events are only added and ended.
LEMMA ExecutesMoves ==
    ASSUME Kept(attempts, log), NEW c, cl[c].series \in 1 .. Len(attempts),
           cl[c].mode \in {"safe", "force"}, Executes(c)
    PROVE  Kept(attempts', log') /\ Grown(attempts, log, attempts', log')
PROOF
  <1>1. CASE UNCHANGED catalog
    <2>1. attempts' = attempts /\ log' = log
      BY <1>1 DEF catalog
    <2>. QED BY <2>1, NothingMoves
  <1>2. CASE At(c, "submit")
    <2>1. SubmitRequest
      BY <1>2 DEF Executes, At
    <2>. QED BY <2>1, SubmitMoves
  <1>3. CASE At(c, "cancel")
    <2>1. CancelRequest(cl[c].series, cl[c].mode)
      BY <1>3 DEF Executes, At
    <2>. QED BY <2>1, CancelMoves
  <1>4. CASE At(c, "rerun")
    <2>1. RerunRequest(cl[c].series)
      BY <1>4 DEF Executes, At
    <2>2. CASE Settled(cl[c].series)
      BY <2>1, <2>2, RerunMoves
    <2>3. CASE ~ Settled(cl[c].series)
      BY <1>1, <2>1, <2>3 DEF RerunRequest
    <2>. QED BY <2>2, <2>3
  <1>5. CASE ~ At(c, "submit") /\ ~ At(c, "cancel") /\ ~ At(c, "rerun")
    BY <1>1, <1>5 DEF Executes
  <1>. QED BY <1>2, <1>3, <1>4, <1>5

-----------------------------------------------------------------------------
(* The steps of one command: x is the command before, y after.             *)

\* What only the first call, a submission, a page and a rerun change.
Continues(x, y) ==
    /\ y \in Records
    /\ y.cmd = x.cmd /\ y.mode = x.mode /\ y.since = x.since /\ y.series = x.series
    /\ y.cursor = x.cursor /\ y.out = x.out /\ y.full = x.full /\ y.read = x.read
    /\ y.base = x.base /\ y.receipt = x.receipt

LEMMA GoesOn ==
    ASSUME NEW x, NEW y, NEW at, NEW lg, Fine(x, at, lg), Continues(x, y), x.pc # "connect",
           y.pc \in Stages[y.cmd] \ {"connect", "submit"}, y.tries <= MaxTries,
           Stopped(y, at), EndSeen(y, at), Followed(y)
    PROVE  Fine(y, at, lg)
PROOF
  <1>1. Placed(x, at) /\ Reading(x, lg)
    BY DEF Fine
  <1>2. Placed(y, at)
    BY <1>1 DEF Placed, Continues
  <1>3. Reading(y, lg)
    <2>1. Lists(y.out, y.series, y.since, y.cursor, lg) /\ Drained(y, lg)
      BY <1>1 DEF Reading, Continues, Drained
    <2>. QED BY <1>1, <2>1 DEF Reading, Continues
  <1>. QED BY <1>2, <1>3 DEF Fine, Continues

\* The next call, with no more to say about it.
Moved(x, pc, tries, error) == [x EXCEPT !.pc = pc, !.tries = tries, !.error = error]

LEMMA MovedGoesOn ==
    ASSUME NEW x \in Records, NEW pc \in Calls, NEW tries \in Nat, NEW error \in Failures
    PROVE  /\ Continues(x, Moved(x, pc, tries, error))
           /\ Moved(x, pc, tries, error).pc = pc /\ Moved(x, pc, tries, error).tries = tries
PROOF
  <1>. PICK y : y = Moved(x, pc, tries, error)
    OBVIOUS
  <1>1. y \in Records
    BY DEF Moved, Records
  <1>2. /\ y.cmd = x.cmd /\ y.mode = x.mode /\ y.since = x.since /\ y.series = x.series
        /\ y.cursor = x.cursor /\ y.out = x.out /\ y.full = x.full /\ y.read = x.read
        /\ y.base = x.base /\ y.receipt = x.receipt /\ y.pc = pc /\ y.tries = tries
    BY DEF Moved, Records
  <1>. QED BY <1>1, <1>2 DEF Continues

LEMMA MovedIsFine ==
    ASSUME NEW x, NEW at, NEW lg, Fine(x, at, lg), x.pc # "connect",
           NEW pc \in Stages[x.cmd] \ {"connect", "submit", "done"},
           NEW tries \in Nat, tries <= MaxTries, NEW error \in Failures,
           x.cmd = "rerun" /\ pc = "poll" => Over(x.mode, at[x.series][x.base])
    PROVE  Fine(Moved(x, pc, tries, error), at, lg)
PROOF
  <1>. PICK y : y = Moved(x, pc, tries, error)
    OBVIOUS
  <1>1. x \in Records /\ x.cmd \in {"run", "wait", "events", "cancel", "rerun"}
    BY ClientAssumption DEF Fine, Records
  <1>2. pc \in Calls
    BY <1>1 DEF Stages, Calls
  <1>3. Continues(x, y) /\ y.pc = pc /\ y.tries = tries
    BY <1>1, <1>2, MovedGoesOn
  <1>4. Stopped(y, at) /\ EndSeen(y, at) /\ Followed(y)
    BY <1>3 DEF Stopped, EndSeen, Followed, Continues
  <1>5. y.pc \in Stages[y.cmd] \ {"connect", "submit"} /\ y.tries <= MaxTries
    BY <1>3 DEF Continues
  <1>. QED BY <1>3, <1>4, <1>5, GoesOn

\* The end of a command.
Ended(x, answer) ==
    [x EXCEPT !.pc = "done", !.answer = answer, !.exit = ExitCode(x.cmd, answer)]

LEMMA EndedGoesOn ==
    ASSUME NEW x \in Records, NEW answer \in JobStates \union Failures
    PROVE  /\ Continues(x, Ended(x, answer))
           /\ Ended(x, answer).pc = "done" /\ Ended(x, answer).answer = answer
           /\ Ended(x, answer).tries = x.tries
PROOF
  <1>. PICK y : y = Ended(x, answer)
    OBVIOUS
  <1>. PICK e : e = ExitCode(x.cmd, answer)
    OBVIOUS
  <1>1. e \in {0, 1}
    BY DEF ExitCode
  <1>2. y = [x EXCEPT !.pc = "done", !.answer = answer, !.exit = e]
    BY DEF Ended
  <1>3. y \in Records
    BY <1>1, <1>2 DEF Records
  <1>4. /\ y.cmd = x.cmd /\ y.mode = x.mode /\ y.since = x.since /\ y.series = x.series
        /\ y.cursor = x.cursor /\ y.out = x.out /\ y.full = x.full /\ y.read = x.read
        /\ y.base = x.base /\ y.receipt = x.receipt
        /\ y.pc = "done" /\ y.answer = answer /\ y.tries = x.tries
    BY <1>2 DEF Records
  <1>. QED BY <1>3, <1>4 DEF Continues

\* What an answer must be worth.
Deserved(x, answer, at) ==
    answer \in JobStates =>
        /\ x.cmd \in {"run", "wait"} =>
              /\ answer \in TerminalStates
              /\ \E a \in 1 .. Len(at[x.series]) : x.base <= a /\ at[x.series][a] = answer
        /\ x.cmd = "cancel" => Over(x.mode, at[x.series][x.base])
        /\ x.cmd = "events" => ~ x.full

LEMMA EndedIsFine ==
    ASSUME NEW x, NEW at, NEW lg, Fine(x, at, lg), x.pc # "connect",
           NEW answer \in JobStates \union Failures, Deserved(x, answer, at)
    PROVE  Fine(Ended(x, answer), at, lg)
PROOF
  <1>. PICK y : y = Ended(x, answer)
    OBVIOUS
  <1>1. x \in Records /\ x.cmd \in {"run", "wait", "events", "cancel", "rerun"}
        /\ x.tries <= MaxTries
    BY ClientAssumption DEF Fine, Records, Placed
  <1>2. Continues(x, y) /\ y.pc = "done" /\ y.answer = answer /\ y.tries = x.tries
    BY <1>1, EndedGoesOn
  <1>3. Stopped(y, at)
    BY <1>2 DEF Stopped, Continues, Deserved
  <1>4. EndSeen(y, at)
    BY <1>2 DEF EndSeen, Continues, Deserved
  <1>5. Followed(y)
    BY <1>2, Edges DEF Followed, Continues, Deserved
  <1>6. y.pc \in Stages[y.cmd] \ {"connect", "submit"} /\ y.tries <= MaxTries
    BY <1>1, <1>2 DEF Continues, Stages
  <1>. QED BY <1>2, <1>3, <1>4, <1>5, <1>6, GoesOn

-----------------------------------------------------------------------------
(* One command among the others.                                           *)

Apart(x, y) ==
    x.receipt # 0 /\ y.receipt # 0 => <<x.series, x.receipt>> # <<y.series, y.receipt>>

\* The command c makes its step, and the others keep theirs.
ComesTo(c) ==
    \E y : /\ cl' = [cl EXCEPT ![c] = y]
           /\ Fine(y, attempts', log')
           /\ \A d \in Clients \ {c} : Apart(cl[d], y)

LEMMA OneCommandMoves ==
    ASSUME ClientInv, NEW c \in Clients, ComesTo(c),
           Kept(attempts', log'), Grown(attempts, log, attempts', log'),
           daemon' \in {"down", "up", "closing"}, orphaned' \in BOOLEAN
    PROVE  ClientInv'
PROOF
  <1>1. /\ Kept(attempts, log) /\ cl = [d \in Clients |-> cl[d]]
        /\ \A d \in Clients : Fine(cl[d], attempts, log)
        /\ ReceiptsAreDistinct
    BY DEF ClientInv
  <1>2. PICK y : /\ cl' = [cl EXCEPT ![c] = y]
                 /\ Fine(y, attempts', log')
                 /\ \A d \in Clients \ {c} : Apart(cl[d], y)
    BY DEF ComesTo
  <1>3. /\ cl' = [d \in Clients |-> cl'[d]]
        /\ cl'[c] = y /\ \A d \in Clients \ {c} : cl'[d] = cl[d]
    BY <1>1, <1>2
  <1>4. ASSUME NEW d \in Clients
        PROVE  Fine(cl'[d], attempts', log')
    <2>1. Fine(cl[d], attempts', log')
      BY <1>1, StaysFine
    <2>. QED BY <1>2, <1>3, <2>1
  <1>5. ReceiptsAreDistinct'
    <2>. SUFFICES ASSUME NEW d \in Clients, NEW e \in Clients, d # e
                  PROVE  Apart(cl'[d], cl'[e])
      BY DEF ReceiptsAreDistinct, Apart
    <2>1. CASE d # c /\ e # c
      BY <1>1, <1>3, <2>1 DEF ReceiptsAreDistinct, Apart
    <2>2. CASE e = c
      BY <1>2, <1>3, <2>2
    <2>3. CASE d = c
      <3>1. Apart(cl[e], y)
        BY <1>2, <2>3
      <3>2. cl'[d] = y /\ cl'[e] = cl[e]
        BY <1>3, <2>3
      <3>. QED BY <3>1, <3>2 DEF Apart
    <2>. QED BY <2>1, <2>2, <2>3
  <1>. QED BY <1>3, <1>4, <1>5 DEF ClientInv

\* A command that holds the receipt it held is as far from the others as it was.
LEMMA StaysApart ==
    ASSUME ClientInv, NEW c \in Clients, NEW y, Continues(cl[c], y)
    PROVE  \A d \in Clients \ {c} : Apart(cl[d], y)
PROOF
  BY DEF ClientInv, ReceiptsAreDistinct, Apart, Continues

LEMMA ByMoving ==
    ASSUME ClientInv, NEW c \in Clients, Fine(cl[c], attempts', log'), cl[c].pc # "connect",
           NEW pc \in Stages[cl[c].cmd] \ {"connect", "submit", "done"},
           NEW tries \in Nat, tries <= MaxTries, NEW error \in Failures,
           cl[c].cmd = "rerun" /\ pc = "poll"
               => Over(cl[c].mode, attempts'[cl[c].series][cl[c].base]),
           cl' = [cl EXCEPT ![c] = Moved(cl[c], pc, tries, error)]
    PROVE  ComesTo(c)
PROOF
  <1>. PICK x : x = cl[c]
    OBVIOUS
  <1>. PICK y : y = Moved(x, pc, tries, error)
    OBVIOUS
  <1>1. Fine(y, attempts', log')
    BY MovedIsFine
  <1>2. x \in Records /\ x.cmd \in {"run", "wait", "events", "cancel", "rerun"}
    BY ClientAssumption DEF Fine, Records
  <1>3. pc \in Calls
    BY <1>2 DEF Stages, Calls
  <1>4. Continues(x, y)
    BY <1>2, <1>3, MovedGoesOn
  <1>5. \A d \in Clients \ {c} : Apart(cl[d], y)
    BY <1>4, StaysApart
  <1>. QED BY <1>1, <1>5 DEF ComesTo

LEMMA ByEnding ==
    ASSUME ClientInv, NEW c \in Clients, Fine(cl[c], attempts', log'), cl[c].pc # "connect",
           NEW answer \in JobStates \union Failures, Deserved(cl[c], answer, attempts'),
           Ends(c, answer)
    PROVE  ComesTo(c)
PROOF
  <1>. PICK x : x = cl[c]
    OBVIOUS
  <1>. PICK y : y = Ended(x, answer)
    OBVIOUS
  <1>1. Fine(y, attempts', log')
    BY EndedIsFine
  <1>2. x \in Records
    BY DEF Fine
  <1>3. Continues(x, y)
    BY <1>2, EndedGoesOn
  <1>4. \A d \in Clients \ {c} : Apart(cl[d], y)
    BY <1>3, StaysApart
  <1>5. cl' = [cl EXCEPT ![c] = y]
    BY DEF Ends, Ended
  <1>. QED BY <1>1, <1>4, <1>5 DEF ComesTo

LEMMA ByGoing ==
    ASSUME ClientInv, NEW c \in Clients, Fine(cl[c], attempts', log'), cl[c].pc # "connect",
           NEW pc \in Stages[cl[c].cmd] \ {"connect", "submit", "done"},
           cl[c].cmd = "rerun" /\ pc = "poll"
               => Over(cl[c].mode, attempts'[cl[c].series][cl[c].base]),
           Goes(c, pc)
    PROVE  ComesTo(c)
PROOF
  <1>. PICK x : x = cl[c]
    OBVIOUS
  <1>1. x \in Records /\ x.tries \in Nat /\ x.tries <= MaxTries /\ x.error \in Failures
    BY DEF Fine, Records, Placed
  <1>2. Moved(x, pc, x.tries, x.error) = [x EXCEPT !.pc = pc]
    BY <1>1 DEF Moved, Records
  <1>3. cl' = [cl EXCEPT ![c] = [x EXCEPT !.pc = pc]]
    BY DEF Goes
  <1>4. cl' = [cl EXCEPT ![c] = Moved(cl[c], pc, x.tries, x.error)]
    BY <1>2, <1>3
  <1>. QED BY <1>1, <1>4, ByMoving

\* The calls at which a command can be.
LEMMA StagesAre ==
    ASSUME ClientInv, NEW c \in Clients
    PROVE  /\ cl[c].pc \in Stages[cl[c].cmd]
           /\ cl[c].cmd \in {"run", "wait", "events", "cancel", "rerun"}
           /\ cl[c].pc = "submit" => cl[c].cmd = "run"
           /\ cl[c].pc \in {"page", "status"} => cl[c].cmd \in {"run", "wait", "events"}
           /\ cl[c].pc \in {"cancel", "check"} => cl[c].cmd \in {"cancel", "rerun"}
           /\ cl[c].pc \in {"first", "poll", "rerun"} => cl[c].cmd = "rerun"
PROOF
  <1>1. Fine(cl[c], attempts, log)
    BY DEF ClientInv
  <1>2. cl[c].pc \in Stages[cl[c].cmd] /\ cl[c].cmd \in {"run", "wait", "events", "cancel", "rerun"}
    BY <1>1, ClientAssumption DEF Fine, Placed, Records
  <1>. QED BY <1>2 DEF Stages

\* What every call finds, and what its request leaves.
LEMMA CallsAreServed ==
    ASSUME ClientInv, NEW c \in Clients, Executes(c) \/ UNCHANGED catalog
    PROVE  /\ Kept(attempts', log') /\ Grown(attempts, log, attempts', log')
           /\ Fine(cl[c], attempts, log) /\ Fine(cl[c], attempts', log')
PROOF
  <1>1. Kept(attempts, log) /\ Fine(cl[c], attempts, log)
    BY DEF ClientInv
  <1>2. cl[c].series \in 1 .. Len(attempts) /\ cl[c].mode \in {"safe", "force"}
    BY <1>1 DEF Fine, Placed, Records
  <1>3. Kept(attempts', log') /\ Grown(attempts, log, attempts', log')
    <2>1. CASE Executes(c)
      BY <1>1, <1>2, <2>1, ExecutesMoves
    <2>2. CASE UNCHANGED catalog
      <3>1. attempts' = attempts /\ log' = log
        BY <2>2 DEF catalog
      <3>. QED BY <1>1, <3>1, NothingMoves
    <2>. QED BY <2>1, <2>2
  <1>. QED BY <1>1, <1>3, StaysFine

LEMMA UnansweredMoves ==
    ASSUME ClientInv, NEW c \in Clients, cl[c].pc \in Calls, Unanswered(c),
           Fine(cl[c], attempts', log')
    PROVE  ComesTo(c)
PROOF
  <1>1. /\ cl[c] \in Records /\ cl[c].tries \in Nat /\ cl[c].tries <= MaxTries
        /\ cl[c].error \in Failures /\ cl[c].pc # "connect"
    BY DEF Fine, Records, Placed, Calls
  <1>2. \A e \in Failures : Deserved(cl[c], e, attempts')
    BY Edges DEF Deserved, Failures
  <1>3. CASE At(c, "cancel")
    <2>1. cl[c].cmd \in {"cancel", "rerun"}
      BY <1>3, StagesAre DEF At
    <2>2. "check" \in Stages[cl[c].cmd] \ {"connect", "submit", "done"} /\ "unavailable" \in Failures
      BY <2>1 DEF Stages, Failures
    <2>3. cl' = [cl EXCEPT ![c] = [cl[c] EXCEPT !.pc = "check", !.error = "unavailable"]]
      BY <1>3 DEF Unanswered, At
    <2>4. [cl[c] EXCEPT !.pc = "check", !.error = "unavailable"]
              = Moved(cl[c], "check", cl[c].tries, "unavailable")
      BY <1>1 DEF Moved, Records
    <2>5. cl' = [cl EXCEPT ![c] = Moved(cl[c], "check", cl[c].tries, "unavailable")]
      BY <2>3, <2>4
    <2>. QED BY <1>1, <2>2, <2>5, ByMoving
  <1>4. CASE At(c, "check") /\ cl[c].error = "unavailable" /\ cl[c].tries < MaxTries
    <2>1. cl[c].cmd \in {"cancel", "rerun"}
      BY <1>4, StagesAre DEF At
    <2>2. "cancel" \in Stages[cl[c].cmd] \ {"connect", "submit", "done"}
      BY <2>1 DEF Stages
    <2>3. cl' = [cl EXCEPT ![c] = [cl[c] EXCEPT !.pc = "cancel", !.tries = @ + 1]]
      BY <1>4 DEF Unanswered, CancelFailed, At
    <2>4. [cl[c] EXCEPT !.pc = "cancel", !.tries = @ + 1]
              = Moved(cl[c], "cancel", cl[c].tries + 1, cl[c].error)
      BY <1>1 DEF Moved, Records
    <2>5. cl' = [cl EXCEPT ![c] = Moved(cl[c], "cancel", cl[c].tries + 1, cl[c].error)]
      BY <2>3, <2>4
    <2>6. cl[c].tries + 1 \in Nat /\ cl[c].tries + 1 <= MaxTries
      BY <1>1, <1>4, ClientAssumption
    <2>. QED BY <1>1, <2>2, <2>5, <2>6, ByMoving
  <1>5. CASE At(c, "check") /\ ~ (cl[c].error = "unavailable" /\ cl[c].tries < MaxTries)
    <2>1. Ends(c, cl[c].error)
      BY <1>5 DEF Unanswered, CancelFailed, At
    <2>. QED BY <1>1, <1>2, <2>1, ByEnding
  <1>6. CASE ~ At(c, "cancel") /\ ~ At(c, "check")
    <2>1. Ends(c, "unavailable")
      BY <1>6 DEF Unanswered
    <2>2. "unavailable" \in Failures
      BY DEF Failures
    <2>. QED BY <1>1, <1>2, <2>1, <2>2, ByEnding
  <1>. QED BY <1>3, <1>4, <1>5, <1>6

\* The attempt of the start of a command, when the latest one is over or will be.
LEMMA BaseIsOver ==
    ASSUME NEW at, NEW lg, Kept(at, lg), NEW x, Fine(x, at, lg), x.cmd # "run", x.pc # "connect",
           Over(x.mode, at[x.series][Len(at[x.series])])
    PROVE  Over(x.mode, at[x.series][x.base])
PROOF
  <1>. PICK h : h = at[x.series]
    OBVIOUS
  <1>1. x.base \in Nat /\ x.base > 0 /\ x.base <= Len(h) /\ x.series \in 1 .. Len(at)
    BY DEF Fine, Placed, Records
  <1>2. at \in Seq(Seq(JobStates)) /\ OneLive(h)
    BY <1>1 DEF Kept, AllLive
  <1>3. Len(h) \in Nat
    BY <1>1, <1>2
  <1>4. CASE x.base = Len(h)
    BY <1>4
  <1>5. CASE x.base # Len(h)
    <2>1. x.base \in 1 .. Len(h) - 1
      BY <1>1, <1>3, <1>5
    <2>2. h[x.base] \in TerminalStates
      BY <1>2, <2>1 DEF OneLive
    <2>. QED BY <2>2 DEF Over
  <1>. QED BY <1>4, <1>5

\* A cancel that has been answered, of an attempt that it has stopped.
LEMMA CancelIsOk ==
    ASSUME ClientInv, NEW c \in Clients, cl[c].cmd \in {"cancel", "rerun"}, cl[c].pc # "connect",
           Fine(cl[c], attempts', log'), NEW state \in JobStates, CancelOk(c, state),
           Over(cl[c].mode, attempts'[cl[c].series][cl[c].base])
    PROVE  ComesTo(c)
PROOF
  <1>1. CASE cl[c].cmd = "rerun"
    <2>1. Goes(c, "poll") /\ "poll" \in Stages[cl[c].cmd] \ {"connect", "submit", "done"}
      BY <1>1 DEF CancelOk, Stages
    <2>. QED BY <2>1, ByGoing
  <1>2. CASE cl[c].cmd = "cancel"
    <2>1. Ends(c, state) /\ Deserved(cl[c], state, attempts')
      BY <1>2 DEF CancelOk, Deserved
    <2>. QED BY <2>1, ByEnding
  <1>. QED BY <1>1, <1>2

-----------------------------------------------------------------------------
(* The answers.                                                            *)

\* The state of the latest attempt is a state, and one of the history.
LEMMA LatestIs ==
    ASSUME NEW at, NEW lg, Kept(at, lg), NEW s \in 1 .. Len(at)
    PROVE  /\ at[s] \in Seq(JobStates) /\ Len(at[s]) \in Nat /\ Len(at[s]) > 0
           /\ at[s][Len(at[s])] \in JobStates
PROOF
  <1>1. at \in Seq(Seq(JobStates)) /\ OneLive(at[s])
    BY DEF Kept, AllLive
  <1>2. at[s] \in Seq(JobStates) /\ Len(at[s]) \in Nat /\ Len(at[s]) > 0
    BY <1>1 DEF OneLive
  <1>. QED BY <1>2

LEMMA SubmitAnswered ==
    ASSUME ClientInv, NEW c \in Clients, At(c, "submit"), Executes(c), Answered(c)
    PROVE  ComesTo(c)
PROOF
  <1>. PICK x : x = cl[c]
    OBVIOUS
  <1>. PICK n : n = Len(attempts')
    OBVIOUS
  <1>. PICK y : y = [x EXCEPT !.pc = "page", !.series = n, !.base = 1, !.receipt = 1]
    OBVIOUS
  <1>1. cl' = [cl EXCEPT ![c] = y]
    BY DEF Answered, At
  <1>2. Kept(attempts, log) /\ Fine(x, attempts, log) /\ Kept(attempts', log') /\ Fine(x, attempts', log')
    BY CallsAreServed DEF ClientInv
  <1>3. x.cmd = "run"
    BY StagesAre DEF At
  <1>4. SubmitRequest
    BY DEF Executes, At
  <1>5. Len(attempts') = Len(attempts) + 1 /\ Len(attempts'[n]) = 1
    BY <1>2, <1>4, SubmitMoves
  <1>6. Len(attempts) \in Nat /\ n \in Nat /\ n > 0 /\ n = Len(attempts) + 1
    <2>1. attempts \in Seq(Seq(JobStates))
      BY <1>2 DEF Kept
    <2>. QED BY <1>5, <2>1
  <1>7. x \in Records
    BY <1>2 DEF Fine
  <1>8. y \in Records
    BY <1>6, <1>7 DEF Records, Calls
  <1>9. /\ y.cmd = "run" /\ y.mode = x.mode /\ y.since = x.since /\ y.series = n
        /\ y.cursor = x.cursor /\ y.out = x.out /\ y.full = x.full /\ y.read = x.read
        /\ y.base = 1 /\ y.receipt = 1 /\ y.pc = "page" /\ y.tries = x.tries
    BY <1>3, <1>7 DEF Records
  <1>10. Placed(y, attempts')
    <2>1. x.tries <= MaxTries
      BY <1>2 DEF Fine, Placed
    <2>2. y.pc \in Stages[y.cmd] /\ n \in 1 .. Len(attempts')
      BY <1>6, <1>9 DEF Stages
    <2>3. y.tries <= MaxTries /\ y.series \in 1 .. Len(attempts')
      BY <1>9, <2>1, <2>2
    <2>4. y.base <= Len(attempts'[y.series]) /\ y.receipt <= Len(attempts'[y.series])
      <3>1. Len(attempts'[y.series]) = 1
        BY <1>5, <1>9
      <3>2. y.base = 1 /\ y.receipt = 1
        BY <1>9
      <3>. QED BY <3>1, <3>2
    <2>. QED BY <1>9, <2>2, <2>3, <2>4 DEF Placed
  <1>11. Stopped(y, attempts') /\ EndSeen(y, attempts') /\ Followed(y)
    BY <1>9 DEF Stopped, EndSeen, Followed
  <1>12. Reading(y, log')
    <2>1. x.read = 0 /\ x.out = <<>> /\ x.cursor = x.since /\ x.cursor <= Len(log') /\ x.read <= Len(log')
      BY <1>2 DEF Fine, Reading, At
    <2>2. x.cursor \in Nat /\ x.since \in Nat
      BY <1>7 DEF Records
    <2>3. Lists(<<>>, n, x.since, x.since, log')
      BY <2>2 DEF Lists
    <2>4. Drained(y, log')
      BY <1>9, <2>1, <2>2 DEF Drained
    <2>. QED BY <1>9, <2>1, <2>2, <2>3, <2>4 DEF Reading
  <1>13. Fine(y, attempts', log')
    BY <1>8, <1>10, <1>11, <1>12 DEF Fine
  <1>14. \A d \in Clients \ {c} : Apart(cl[d], y)
    <2>. TAKE d \in Clients \ {c}
    <2>1. cl[d].series \in 1 .. Len(attempts)
      BY DEF ClientInv, Fine, Placed
    <2>2. cl[d].series # y.series
      BY <1>6, <1>9, <2>1
    <2>. QED BY <2>2 DEF Apart
  <1>. QED BY <1>1, <1>13, <1>14 DEF ComesTo

LEMMA RerunAnswered ==
    ASSUME ClientInv, NEW c \in Clients, At(c, "rerun"), Executes(c), Answered(c)
    PROVE  ComesTo(c)
PROOF
  <1>. PICK x : x = cl[c]
    OBVIOUS
  <1>. PICK s : s = x.series
    OBVIOUS
  <1>2. Kept(attempts, log) /\ Fine(x, attempts, log) /\ Kept(attempts', log') /\ Fine(x, attempts', log')
    BY CallsAreServed DEF ClientInv
  <1>3. x.cmd = "rerun" /\ x.pc = "rerun"
    BY StagesAre DEF At
  <1>4. s \in 1 .. Len(attempts)
    BY <1>2 DEF Fine, Placed
  <1>5. CASE ~ Settled(s)
    <2>1. Ends(c, "conflict")
      BY <1>5 DEF Answered, At
    <2>2. "conflict" \in Failures /\ Deserved(x, "conflict", attempts')
      BY Edges DEF Failures, Deserved
    <2>. QED BY <1>2, <1>3, <2>1, <2>2, ByEnding
  <1>6. CASE Settled(s)
    <2>. PICK n : n = Len(attempts'[s])
      OBVIOUS
    <2>. PICK y : y = [x EXCEPT !.pc = "done", !.answer = "queued", !.exit = 0, !.receipt = n]
      OBVIOUS
    <2>1. cl' = [cl EXCEPT ![c] = y]
      BY <1>6 DEF Answered, At
    <2>2. RerunRequest(s)
      BY DEF Executes, At
    <2>3. n = Len(attempts[s]) + 1
      BY <1>2, <1>4, <1>6, <2>2, RerunMoves
    <2>4. Len(attempts[s]) \in Nat /\ n \in Nat
      BY <1>2, <1>4, <2>3, LatestIs
    <2>5. x \in Records
      BY <1>2 DEF Fine
    <2>6. y \in Records
      BY <2>4, <2>5, Edges DEF Records
    <2>7. /\ y.cmd = x.cmd /\ y.mode = x.mode /\ y.since = x.since /\ y.series = s
          /\ y.cursor = x.cursor /\ y.out = x.out /\ y.full = x.full /\ y.read = x.read
          /\ y.base = x.base /\ y.receipt = n /\ y.pc = "done" /\ y.tries = x.tries
      BY <2>5 DEF Records
    <2>8. Placed(y, attempts')
      <3>1. Placed(x, attempts')
        BY <1>2 DEF Fine
      <3>2. y.pc \in Stages[y.cmd] /\ n <= Len(attempts'[s])
        BY <1>3, <2>4, <2>7 DEF Stages
      <3>. QED BY <1>3, <2>7, <3>1, <3>2 DEF Placed
    <2>9. Stopped(y, attempts') /\ EndSeen(y, attempts') /\ Followed(y)
      BY <1>3, <2>7 DEF Stopped, EndSeen, Followed
    <2>10. Reading(y, log')
      <3>1. Reading(x, log')
        BY <1>2 DEF Fine
      <3>2. Lists(y.out, y.series, y.since, y.cursor, log') /\ Drained(y, log')
        BY <2>7, <3>1 DEF Reading, Drained
      <3>. QED BY <2>7, <3>1, <3>2 DEF Reading
    <2>11. Fine(y, attempts', log')
      BY <2>6, <2>8, <2>9, <2>10 DEF Fine
    <2>12. \A d \in Clients \ {c} : Apart(cl[d], y)
      <3>. TAKE d \in Clients \ {c}
      <3>1. Fine(cl[d], attempts, log)
        BY DEF ClientInv
      <3>2. cl[d].receipt \in Nat /\ cl[d].receipt <= Len(attempts[cl[d].series])
        BY <3>1 DEF Fine, Placed, Records
      <3>3. CASE cl[d].series = s
        <4>1. cl[d].receipt # n
          BY <2>3, <2>4, <3>2, <3>3
        <4>. QED BY <2>7, <4>1 DEF Apart
      <3>4. CASE cl[d].series # s
        BY <2>7, <3>4 DEF Apart
      <3>. QED BY <3>3, <3>4
    <2>. QED BY <2>1, <2>11, <2>12 DEF ComesTo
  <1>. QED BY <1>5, <1>6

\* A page goes behind what was printed.
LEMMA PageIsPrinted ==
    ASSUME NEW lg, NEW s, NEW out \in Seq(Nat), NEW since \in Nat, NEW cur \in Nat, NEW n \in Nat,
           since <= cur, cur <= n, Lists(out, s, since, cur, lg),
           NEW p, IsPage(p, lg, s, cur, n),
           NEW last, last = IF p = <<>> THEN cur ELSE Last(p)
    PROVE  /\ out \o p \in Seq(Nat) /\ Lists(out \o p, s, since, last, lg)
           /\ last \in Nat /\ since <= last /\ last <= n
           /\ Len(p) # Page => \A i \in last + 1 .. n : lg[i].series # s
PROOF
  <1>. PICK m : m = Len(out)
    OBVIOUS
  <1>. PICK q : q = out \o p
    OBVIOUS
  <1>1. p \in Seq(Nat) /\ Len(p) \in Nat /\ Len(p) <= Page /\ \A k \in 1 .. Len(p) : p[k] \in Nat
    BY DEF IsPage
  <1>2. \A k \in 1 .. Len(p) : cur < p[k] /\ p[k] <= n /\ lg[p[k]].series = s
    BY DEF IsPage
  <1>3. \A j, k \in 1 .. Len(p) : j < k => p[j] < p[k]
    BY DEF IsPage
  <1>4. \A i \in cur + 1 .. n :
            lg[i].series = s => \/ \E k \in 1 .. Len(p) : p[k] = i
                                \/ Len(p) = Page /\ \A k \in 1 .. Len(p) : p[k] < i
    BY DEF IsPage
  <1>5. /\ q \in Seq(Nat) /\ m \in Nat /\ Len(q) = m + Len(p)
        /\ \A k \in 1 .. m : q[k] = out[k] /\ out[k] \in Nat
        /\ \A k \in 1 .. Len(p) : q[m + k] = p[k]
    BY <1>1
  <1>6. \A k \in 1 .. m : since < out[k] /\ out[k] <= cur /\ lg[out[k]].series = s
    BY <1>5 DEF Lists
  <1>7. /\ last \in Nat /\ since <= last /\ cur <= last /\ last <= n
        /\ \A k \in 1 .. Len(p) : p[k] <= last
        /\ last # cur => \E k \in 1 .. Len(p) : p[k] = last
    <2>1. CASE p = <<>>
      BY <1>1, <2>1
    <2>2. CASE p # <<>>
      <3>. PICK l : l = Len(p)
        OBVIOUS
      <3>1. l \in 1 .. Len(p) /\ l \in Nat
        BY <1>1, <2>2
      <3>2. last = p[l]
        BY <2>2 DEF Last
      <3>3. last \in Nat /\ cur < last /\ last <= n
        BY <1>1, <1>2, <3>1, <3>2
      <3>4. \A k \in 1 .. Len(p) : k < l => p[k] < last
        BY <1>3, <3>1, <3>2
      <3>5. \A k \in 1 .. Len(p) : p[k] <= last
        <4>. TAKE k \in 1 .. Len(p)
        <4>1. CASE k = l
          BY <3>2, <3>3, <4>1
        <4>2. CASE k < l
          BY <1>1, <3>3, <3>4, <4>2
        <4>. QED BY <3>1, <4>1, <4>2
      <3>. QED BY <3>1, <3>2, <3>3, <3>5
    <2>. QED BY <2>1, <2>2
  <1>8. \A k \in 1 .. Len(q) : k \in 1 .. m \/ (k - m \in 1 .. Len(p) /\ m + (k - m) = k)
    BY <1>1, <1>5
  <1>9. \A k \in 1 .. Len(q) : since < q[k] /\ q[k] <= last /\ lg[q[k]].series = s
    <2>. TAKE k \in 1 .. Len(q)
    <2>1. CASE k \in 1 .. m
      BY <1>5, <1>6, <1>7, <2>1
    <2>2. CASE k - m \in 1 .. Len(p) /\ m + (k - m) = k
      <3>. PICK j \in 1 .. Len(p) : m + j = k
        BY <2>2
      <3>1. q[k] = p[j]
        BY <1>5
      <3>2. p[j] \in Nat /\ cur < p[j] /\ p[j] <= last /\ lg[p[j]].series = s
        BY <1>1, <1>2, <1>7
      <3>. QED BY <3>1, <3>2
    <2>. QED BY <1>8, <2>1, <2>2
  <1>10. \A i \in Nat : since < i /\ i <= cur /\ lg[i].series = s => \E k \in 1 .. m : out[k] = i
    BY DEF Lists
  <1>11. ASSUME NEW i \in Nat, since < i, i <= last, lg[i].series = s
         PROVE  \E k \in 1 .. Len(q) : q[k] = i
    <2>1. CASE i <= cur
      <3>1. PICK k \in 1 .. m : out[k] = i
        BY <1>10, <1>11, <2>1
      <3>2. k \in 1 .. Len(q) /\ q[k] = i
        BY <1>1, <1>5, <3>1
      <3>. QED BY <3>2
    <2>2. CASE ~ (i <= cur)
      <3>1. i \in cur + 1 .. n
        BY <1>7, <1>11, <2>2
      <3>2. PICK l \in 1 .. Len(p) : p[l] = last
        BY <1>7, <1>11, <2>2
      <3>3. \E k \in 1 .. Len(p) : p[k] = i
        <4>1. CASE Len(p) = Page /\ \A k \in 1 .. Len(p) : p[k] < i
          BY <1>7, <1>11, <3>2, <4>1
        <4>. QED BY <1>4, <1>11, <3>1, <4>1
      <3>4. PICK k \in 1 .. Len(p) : p[k] = i
        BY <3>3
      <3>5. q[m + k] = i
        BY <1>5, <3>4
      <3>6. Len(q) = m + Len(p) /\ m \in Nat /\ Len(p) \in Nat
        BY <1>1, <1>5
      <3>7. m + k \in 1 .. Len(q)
        BY <3>6
      <3>. QED BY <3>5, <3>7
    <2>. QED BY <2>1, <2>2
  <1>12. \A j, k \in 1 .. Len(q) : j < k => q[j] < q[k]
    <2>. TAKE j, k \in 1 .. Len(q)
    <2>. HAVE j < k
    <2>1. CASE k \in 1 .. m
      <3>1. j \in 1 .. m
        BY <1>1, <1>5, <2>1
      <3>2. out[j] < out[k]
        BY <2>1, <3>1 DEF Lists
      <3>. QED BY <1>5, <2>1, <3>1, <3>2
    <2>2. CASE k - m \in 1 .. Len(p) /\ m + (k - m) = k /\ j \in 1 .. m
      <3>1. q[k] = p[k - m] /\ q[j] = out[j]
        BY <1>5, <2>2
      <3>2. out[j] <= cur /\ cur < p[k - m] /\ out[j] \in Nat /\ p[k - m] \in Nat
        BY <1>1, <1>2, <1>5, <1>6, <2>2
      <3>. QED BY <3>1, <3>2
    <2>3. CASE /\ k - m \in 1 .. Len(p) /\ m + (k - m) = k
               /\ j - m \in 1 .. Len(p) /\ m + (j - m) = j
      <3>1. q[k] = p[k - m] /\ q[j] = p[j - m]
        BY <1>5, <2>3
      <3>2. j - m < k - m
        BY <1>5
      <3>. QED BY <1>3, <2>3, <3>1, <3>2
    <2>. QED BY <1>8, <2>1, <2>2, <2>3
  <1>13. Lists(q, s, since, last, lg)
    <2>1. \A i \in Nat : (\E k \in 1 .. Len(q) : q[k] = i) <=>
                         (since < i /\ i <= last /\ lg[i].series = s)
      BY <1>9, <1>11
    <2>. QED BY <1>12, <2>1 DEF Lists
  <1>14. ASSUME Len(p) # Page, NEW i \in last + 1 .. n
         PROVE  lg[i].series # s
    <2>1. i \in cur + 1 .. n /\ ~ (i <= last)
      BY <1>7
    <2>. QED BY <1>4, <1>7, <1>14, <2>1
  <1>. QED BY <1>5, <1>7, <1>13, <1>14

\* After a page.
Paged(x, out, k, n, last) ==
    [x EXCEPT !.pc = "status", !.out = out, !.full = (k = Page), !.read = n, !.cursor = last]

LEMMA PageTaken ==
    ASSUME NEW x \in Records, NEW out \in Seq(Nat), NEW k, NEW n \in Nat, NEW last \in Nat
    PROVE  Paged(x, out, k, n, last) \in Records
PROOF
  <1>. PICK full \in BOOLEAN : full = (k = Page)
    OBVIOUS
  <1>1. [x EXCEPT !.pc = "status", !.out = out, !.full = full, !.read = n, !.cursor = last]
            \in Records
    BY DEF Records, Calls
  <1>. QED BY <1>1 DEF Paged

LEMMA PagedGoesOn ==
    ASSUME NEW x \in Records, NEW out \in Seq(Nat), NEW k, NEW n \in Nat, NEW last \in Nat,
           NEW y, y = Paged(x, out, k, n, last)
    PROVE  /\ y.cmd = x.cmd /\ y.mode = x.mode /\ y.since = x.since /\ y.series = x.series
           /\ y.cursor = last /\ y.out = out /\ y.read = n /\ y.base = x.base
           /\ y.receipt = x.receipt /\ y.pc = "status" /\ y.tries = x.tries
           /\ ~ y.full => k # Page
PROOF
  BY DEF Records, Paged

LEMMA PagedIsFine ==
    ASSUME NEW x, NEW at, NEW lg, Fine(x, at, lg), x.cmd \in {"run", "wait", "events"},
           x.pc = "page", NEW out \in Seq(Nat), NEW k, NEW n \in Nat, n = Len(lg), NEW last \in Nat,
           Lists(out, x.series, x.since, last, lg), x.since <= last, last <= n,
           k # Page => \A i \in last + 1 .. n : lg[i].series # x.series
    PROVE  Fine(Paged(x, out, k, n, last), at, lg)
PROOF
  <1>. PICK y : y = Paged(x, out, k, n, last)
    OBVIOUS
  <1>1. x \in Records /\ Placed(x, at)
    BY DEF Fine
  <1>2. y \in Records
    BY <1>1, PageTaken
  <1>3. /\ y.cmd = x.cmd /\ y.mode = x.mode /\ y.since = x.since /\ y.series = x.series
        /\ y.cursor = last /\ y.out = out /\ y.read = n /\ y.base = x.base
        /\ y.receipt = x.receipt /\ y.pc = "status" /\ y.tries = x.tries
        /\ ~ y.full => k # Page
    BY <1>1, PagedGoesOn
  <1>4. Placed(y, at)
    <2>1. y.pc \in Stages[y.cmd]
      BY <1>3 DEF Stages
    <2>. QED BY <1>1, <1>3, <2>1 DEF Placed
  <1>5. Stopped(y, at) /\ EndSeen(y, at) /\ Followed(y)
    BY <1>3 DEF Stopped, EndSeen, Followed
  <1>6. Reading(y, lg)
    <2>1. Drained(y, lg)
      BY <1>3 DEF Drained
    <2>. QED BY <1>3, <2>1 DEF Reading
  <1>. QED BY <1>2, <1>4, <1>5, <1>6 DEF Fine

LEMMA PageAnswered ==
    ASSUME ClientInv, NEW c \in Clients, At(c, "page"), Executes(c), Answered(c)
    PROVE  ComesTo(c)
PROOF
  <1>. PICK x : x = cl[c]
    OBVIOUS
  <1>. PICK p : p = PageAfter(x.series, x.cursor)
    OBVIOUS
  <1>. PICK last : last = IF p = <<>> THEN x.cursor ELSE Last(p)
    OBVIOUS
  <1>. PICK out : out = x.out \o p
    OBVIOUS
  <1>. PICK n : n = Len(log)
    OBVIOUS
  <1>. PICK y : y = Paged(x, out, Len(p), n, last)
    OBVIOUS
  <1>1. cl' = [cl EXCEPT ![c] = y]
    <2>1. TakesPage(c)
      BY DEF Answered, At
    <2>2. cl' = [cl EXCEPT ![c].pc = "status", ![c].out = x.out \o p, ![c].full = (Len(p) = Page),
                           ![c].read = Len(log),
                           ![c].cursor = IF p = <<>> THEN x.cursor ELSE Last(p)]
      BY <2>1 DEF TakesPage
    <2>. QED BY <2>2 DEF Paged
  <1>2. Kept(attempts, log) /\ Fine(x, attempts, log)
    BY DEF ClientInv
  <1>3. attempts' = attempts /\ log' = log
    BY DEF Executes, At, catalog
  <1>4. x.cmd \in {"run", "wait", "events"} /\ x.pc = "page"
    BY StagesAre DEF At
  <1>5. x \in Records /\ x.cursor \in Nat /\ x.since \in Nat /\ x.out \in Seq(Nat)
    BY <1>2 DEF Fine, Records
  <1>6. /\ x.since <= x.cursor /\ x.cursor <= n /\ Lists(x.out, x.series, x.since, x.cursor, log)
    BY <1>2 DEF Fine, Reading
  <1>7. log \in Seq(Entries) /\ n \in Nat
    BY <1>2 DEF Kept
  <1>8. IsPage(p, log, x.series, x.cursor, n)
    BY <1>5, <1>7, PageIs
  <1>9. /\ out \in Seq(Nat) /\ Lists(out, x.series, x.since, last, log)
        /\ last \in Nat /\ x.since <= last /\ last <= n
        /\ Len(p) # Page => \A i \in last + 1 .. n : log[i].series # x.series
    BY <1>5, <1>6, <1>7, <1>8, PageIsPrinted
  <1>10. Fine(y, attempts', log')
    BY <1>2, <1>3, <1>4, <1>7, <1>9, PagedIsFine
  <1>11. \A d \in Clients \ {c} : Apart(cl[d], y)
    <2>1. y.series = x.series /\ y.receipt = x.receipt
      BY <1>5 DEF Records, Paged
    <2>. QED BY <2>1 DEF Apart, ClientInv, ReceiptsAreDistinct
  <1>. QED BY <1>1, <1>10, <1>11 DEF ComesTo

LEMMA StatusAnswered ==
    ASSUME ClientInv, NEW c \in Clients, At(c, "status"), Executes(c), Answered(c)
    PROVE  ComesTo(c)
PROOF
  <1>. PICK x : x = cl[c]
    OBVIOUS
  <1>. PICK s : s = x.series
    OBVIOUS
  <1>1. /\ Kept(attempts, log) /\ Fine(x, attempts, log) /\ Fine(x, attempts', log')
        /\ x.cmd \in {"run", "wait", "events"} /\ x.pc # "connect" /\ s \in 1 .. Len(attempts)
    BY CallsAreServed, StagesAre DEF ClientInv, At, Fine, Placed
  <1>2. attempts' = attempts
    BY DEF Executes, At, catalog
  <1>3. PollsStatus(c)
    BY DEF Answered, At
  <1>4. CASE Settled(s) /\ ~ (x.cmd = "events" /\ x.full)
    <2>1. Ends(c, Latest(s))
      BY <1>3, <1>4 DEF PollsStatus
    <2>2. Latest(s) = attempts[s][Len(attempts[s])] /\ Latest(s) \in TerminalStates
      BY <1>4 DEF Latest, Last, Settled
    <2>3. Len(attempts[s]) \in 1 .. Len(attempts[s]) /\ x.base <= Len(attempts[s])
      <3>1. Len(attempts[s]) \in Nat /\ Len(attempts[s]) > 0
        BY <1>1, LatestIs
      <3>2. x.base <= Len(attempts[s])
        BY <1>1 DEF Fine, Placed
      <3>. QED BY <3>1, <3>2
    <2>4. Deserved(x, Latest(s), attempts')
      <3>1. \E a \in 1 .. Len(attempts[x.series]) :
                x.base <= a /\ attempts[x.series][a] = Latest(s)
        BY <2>2, <2>3
      <3>. QED BY <1>1, <1>2, <1>4, <2>2, <3>1 DEF Deserved
    <2>5. Latest(s) \in JobStates \union Failures
      BY <2>2, Edges
    <2>. QED BY <1>1, <2>1, <2>4, <2>5, ByEnding
  <1>5. CASE ~ (Settled(s) /\ ~ (x.cmd = "events" /\ x.full))
    <2>1. Goes(c, "page")
      BY <1>3, <1>5 DEF PollsStatus
    <2>2. "page" \in Stages[x.cmd] \ {"connect", "submit", "done"}
      BY <1>1 DEF Stages
    <2>. QED BY <1>1, <2>1, <2>2, ByGoing
  <1>. QED BY <1>4, <1>5

LEMMA CancelAnswered ==
    ASSUME ClientInv, NEW c \in Clients, At(c, "cancel"), Executes(c), Answered(c)
    PROVE  ComesTo(c)
PROOF
  <1>. PICK x : x = cl[c]
    OBVIOUS
  <1>. PICK s : s = x.series
    OBVIOUS
  <1>1. /\ Kept(attempts, log) /\ Fine(x, attempts, log)
        /\ Kept(attempts', log') /\ Fine(x, attempts', log')
        /\ x.cmd \in {"cancel", "rerun"} /\ x.pc # "connect" /\ s \in 1 .. Len(attempts)
    BY CallsAreServed, StagesAre DEF ClientInv, At, Fine, Placed
  <1>2. x \in Records /\ x.tries \in Nat /\ x.tries <= MaxTries /\ x.mode \in {"safe", "force"}
    BY <1>1 DEF Fine, Records, Placed
  <1>3. CASE Settled(s)
    <2>1. cl' = [cl EXCEPT ![c] = [x EXCEPT !.pc = "check", !.error = "conflict"]]
      BY <1>3 DEF Answered, At
    <2>2. [x EXCEPT !.pc = "check", !.error = "conflict"] = Moved(x, "check", x.tries, "conflict")
      BY <1>2 DEF Moved, Records
    <2>3. cl' = [cl EXCEPT ![c] = Moved(cl[c], "check", x.tries, "conflict")]
      BY <2>1, <2>2
    <2>4. "check" \in Stages[x.cmd] \ {"connect", "submit", "done"} /\ "conflict" \in Failures
      BY <1>1 DEF Stages, Failures
    <2>. QED BY <1>1, <1>2, <2>3, <2>4, ByMoving
  <1>4. CASE ~ Settled(s)
    <2>1. CancelOk(c, Last(attempts'[s]))
      BY <1>4 DEF Answered, At
    <2>2. CancelRequest(s, x.mode)
      BY DEF Executes, At
    <2>3. /\ Len(attempts') = Len(attempts) /\ Len(attempts'[s]) = Len(attempts[s])
          /\ Over(x.mode, attempts'[s][Len(attempts[s])])
      BY <1>1, <1>2, <1>4, <2>2, CancelMoves
    <2>4. s \in 1 .. Len(attempts')
      BY <1>1, <2>3
    <2>5. Over(x.mode, attempts'[s][x.base])
      <3>1. Over(x.mode, attempts'[s][Len(attempts'[s])])
        BY <2>3
      <3>. QED BY <1>1, <3>1, BaseIsOver
    <2>6. Last(attempts'[s]) \in JobStates
      BY <1>1, <2>4, LatestIs DEF Last
    <2>. QED BY <1>1, <2>1, <2>5, <2>6, CancelIsOk
  <1>. QED BY <1>3, <1>4

LEMMA CheckAnswered ==
    ASSUME ClientInv, NEW c \in Clients, At(c, "check"), Executes(c), Answered(c)
    PROVE  ComesTo(c)
PROOF
  <1>. PICK x : x = cl[c]
    OBVIOUS
  <1>. PICK s : s = x.series
    OBVIOUS
  <1>1. /\ Kept(attempts, log) /\ Fine(x, attempts, log) /\ Fine(x, attempts', log')
        /\ x.cmd \in {"cancel", "rerun"} /\ x.pc # "connect" /\ s \in 1 .. Len(attempts)
        /\ x.pc \in Calls
    BY CallsAreServed, StagesAre DEF ClientInv, At, Fine, Placed, Calls
  <1>2. attempts' = attempts /\ log' = log
    BY DEF Executes, At, catalog
  <1>3. CASE ReachedBy(x.mode, Latest(s))
    <2>1. CancelOk(c, Latest(s))
      BY <1>3 DEF Answered, At
    <2>2. Latest(s) = attempts[s][Len(attempts[s])]
      BY DEF Latest, Last
    <2>3. Over(x.mode, attempts[s][Len(attempts[s])])
      BY <1>3, <2>2, Edges DEF ReachedBy, Over
    <2>4. Over(x.mode, attempts[s][x.base])
      BY <1>1, <2>3, BaseIsOver
    <2>5. Latest(s) \in JobStates
      BY <1>1, <2>2, LatestIs
    <2>. QED BY <1>1, <1>2, <2>1, <2>4, <2>5, CancelIsOk
  <1>4. CASE ~ ReachedBy(x.mode, Latest(s))
    <2>1. CancelFailed(c)
      BY <1>4 DEF Answered, At
    <2>2. Unanswered(c)
      BY <2>1 DEF Unanswered, At
    <2>. QED BY <1>1, <2>2, UnansweredMoves
  <1>. QED BY <1>3, <1>4

LEMMA LooksAnswered ==
    ASSUME ClientInv, NEW c \in Clients, At(c, "first") \/ At(c, "poll"), Executes(c), Answered(c)
    PROVE  ComesTo(c)
PROOF
  <1>. PICK x : x = cl[c]
    OBVIOUS
  <1>1. /\ Fine(x, attempts, log) /\ Fine(x, attempts', log') /\ x.cmd = "rerun"
        /\ x.pc # "connect"
    BY CallsAreServed, StagesAre DEF ClientInv, At
  <1>2. attempts' = attempts
    BY DEF Executes, At, catalog
  <1>3. {"rerun", "cancel", "poll"} \subseteq Stages[x.cmd] \ {"connect", "submit", "done"}
    BY <1>1 DEF Stages
  <1>4. CASE At(c, "first")
    <2>1. Goes(c, "rerun") \/ Goes(c, "cancel")
      BY <1>4 DEF Answered, At
    <2>. QED BY <1>1, <1>3, <2>1, ByGoing
  <1>5. CASE At(c, "poll")
    <2>1. Goes(c, "rerun") \/ Goes(c, "poll")
      BY <1>5 DEF Answered, At
    <2>2. Over(x.mode, attempts'[x.series][x.base])
      BY <1>1, <1>2, <1>5 DEF Fine, Stopped, At
    <2>. QED BY <1>1, <1>3, <2>1, <2>2, ByGoing
  <1>. QED BY <1>4, <1>5

LEMMA Connected ==
    ASSUME ClientInv, NEW c \in Clients, Connect(c)
    PROVE  ComesTo(c)
PROOF
  <1>. PICK x : x = cl[c]
    OBVIOUS
  <1>. PICK base : base = IF x.cmd = "run" THEN 0 ELSE Len(attempts[Job])
    OBVIOUS
  <1>. PICK pc : pc = FirstCall(x.cmd)
    OBVIOUS
  <1>. PICK y : y = [x EXCEPT !.pc = pc, !.base = base]
    OBVIOUS
  <1>1. cl' = [cl EXCEPT ![c] = y] /\ attempts' = attempts /\ log' = log
    BY DEF Connect, catalog
  <1>2. /\ Kept(attempts, log) /\ Fine(x, attempts, log) /\ x \in Records
        /\ x.cmd \in {"run", "wait", "events", "cancel", "rerun"}
        /\ x.pc = "connect" /\ x.series \in 1 .. Len(attempts)
    BY StagesAre DEF ClientInv, Connect, At, Fine, Placed
  <1>3. pc \in Stages[x.cmd] \ {"connect", "done", "poll"} /\ pc \in Calls
        /\ (pc = "submit" => x.cmd = "run")
    BY <1>2 DEF FirstCall, Stages, Calls
  <1>4. base \in Nat /\ base <= Len(attempts[x.series]) /\ (x.cmd # "run" => base > 0)
    <2>1. Len(attempts[x.series]) \in Nat /\ Len(attempts[x.series]) > 0
      BY <1>2, LatestIs
    <2>2. x.cmd # "run" => x.series = Job
      BY <1>2 DEF Fine, Placed
    <2>. QED BY <2>1, <2>2
  <1>5. y \in Records
    BY <1>2, <1>3, <1>4 DEF Records
  <1>6. /\ y.cmd = x.cmd /\ y.mode = x.mode /\ y.since = x.since /\ y.series = x.series
        /\ y.cursor = x.cursor /\ y.out = x.out /\ y.full = x.full /\ y.read = x.read
        /\ y.base = base /\ y.receipt = x.receipt /\ y.pc = pc /\ y.tries = x.tries
    BY <1>2 DEF Records
  <1>7. Placed(y, attempts)
    <2>1. Placed(x, attempts)
      BY <1>2 DEF Fine
    <2>. QED BY <1>3, <1>4, <1>6, <2>1 DEF Placed
  <1>8. Stopped(y, attempts) /\ EndSeen(y, attempts) /\ Followed(y)
    BY <1>3, <1>6 DEF Stopped, EndSeen, Followed
  <1>9. Reading(y, log)
    <2>1. Reading(x, log)
      BY <1>2 DEF Fine
    <2>2. Drained(y, log)
      BY <1>6, <2>1 DEF Reading, Drained
    <2>. QED BY <1>2, <1>6, <2>1, <2>2 DEF Reading
  <1>10. Fine(y, attempts', log')
    BY <1>1, <1>5, <1>7, <1>8, <1>9 DEF Fine
  <1>11. \A d \in Clients \ {c} : Apart(cl[d], y)
    BY <1>6 DEF Apart, ClientInv, ReceiptsAreDistinct
  <1>. QED BY <1>1, <1>10, <1>11 DEF ComesTo

-----------------------------------------------------------------------------
(* The steps of the system.                                                *)

LEMMA AnsweredMoves ==
    ASSUME ClientInv, NEW c \in Clients, cl[c].pc \in Calls, Executes(c), Answered(c)
    PROVE  ComesTo(c)
PROOF
  <1>1. \/ At(c, "submit") \/ At(c, "page") \/ At(c, "status") \/ At(c, "first") \/ At(c, "poll")
        \/ At(c, "cancel") \/ At(c, "check") \/ At(c, "rerun")
    BY DEF Calls, At
  <1>. QED BY <1>1, SubmitAnswered, PageAnswered, StatusAnswered, LooksAnswered, CancelAnswered,
              CheckAnswered, RerunAnswered

\* The others move on, and no command does.
LEMMA CommandsStay ==
    ASSUME ClientInv, cl' = cl, Kept(attempts', log'), Grown(attempts, log, attempts', log'),
           daemon' \in {"down", "up", "closing"}, orphaned' \in BOOLEAN
    PROVE  ClientInv'
PROOF
  <1>1. /\ Kept(attempts, log) /\ cl = [d \in Clients |-> cl[d]]
        /\ \A d \in Clients : Fine(cl[d], attempts, log)
        /\ ReceiptsAreDistinct
    BY DEF ClientInv
  <1>2. \A d \in Clients : Fine(cl[d], attempts', log')
    BY <1>1, StaysFine
  <1>3. ReceiptsAreDistinct'
    BY <1>1 DEF ReceiptsAreDistinct
  <1>. QED BY <1>1, <1>2, <1>3 DEF ClientInv

LEMMA CommandKeeps ==
    ASSUME ClientInv, NEW c \in Clients, CommandStep(c)
    PROVE  ClientInv'
PROOF
  <1>1. daemon \in {"down", "up", "closing"} /\ orphaned \in BOOLEAN
    BY DEF ClientInv
  <1>2. CASE Connect(c)
    <2>1. ComesTo(c) /\ UNCHANGED catalog
      BY <1>2, Connected DEF Connect
    <2>2. Kept(attempts', log') /\ Grown(attempts, log, attempts', log')
      BY <2>1, CallsAreServed
    <2>3. daemon' \in {"down", "up", "closing"} /\ orphaned' \in BOOLEAN
      BY <1>1, <1>2 DEF Connect
    <2>. QED BY <2>1, <2>2, <2>3, OneCommandMoves
  <1>3. CASE Call(c)
    <2>1. cl[c].pc \in Calls /\ Executes(c) /\ Answered(c)
      BY <1>3 DEF Call
    <2>2. Kept(attempts', log') /\ Grown(attempts, log, attempts', log') /\ ComesTo(c)
      BY <2>1, CallsAreServed, AnsweredMoves
    <2>3. daemon' \in {"down", "up", "closing"} /\ orphaned' \in BOOLEAN
      BY <1>1, <1>3 DEF Call
    <2>. QED BY <2>2, <2>3, OneCommandMoves
  <1>4. ASSUME cl[c].pc \in Calls, Executes(c) \/ UNCHANGED catalog, Unanswered(c),
               daemon' \in {"down", "up", "closing"}, orphaned' \in BOOLEAN
        PROVE  ClientInv'
    <2>1. Kept(attempts', log') /\ Grown(attempts, log, attempts', log') /\ Fine(cl[c], attempts', log')
      BY <1>4, CallsAreServed
    <2>2. ComesTo(c)
      BY <1>4, <2>1, UnansweredMoves
    <2>. QED BY <1>4, <2>1, <2>2, OneCommandMoves
  <1>5. CASE Refused(c)
    BY <1>1, <1>4, <1>5 DEF Refused
  <1>6. CASE AnswerLost(c)
    BY <1>1, <1>4, <1>6 DEF AnswerLost
  <1>7. CASE CancelLocked(c)
    BY <1>1, <1>4, <1>7 DEF CancelLocked, At, Calls
  <1>. QED BY <1>2, <1>3, <1>5, <1>6, <1>7 DEF CommandStep

LEMMA RunnersKeep ==
    ASSUME ClientInv, NEW s \in 1 .. Len(attempts), Dispatch(s) \/ Reports(s) \/ Progress(s)
    PROVE  ClientInv'
PROOF
  <1>1. /\ Kept(attempts, log) /\ daemon \in {"down", "up", "closing"} /\ orphaned \in BOOLEAN
    BY DEF ClientInv
  <1>2. ASSUME NEW t \in AllowedNext(Latest(s)), Becomes(s, t), UNCHANGED <<daemon, orphaned, cl, crashes>>
        PROVE  ClientInv'
    <2>1. Kept(attempts', log') /\ Grown(attempts, log, attempts', log')
      BY <1>1, <1>2, BecomesMoves
    <2>. QED BY <1>1, <1>2, <2>1, CommandsStay
  <1>3. CASE Dispatch(s)
    <2>1. "starting" \in AllowedNext(Latest(s))
      BY <1>3, Edges DEF Dispatch
    <2>. QED BY <1>2, <1>3, <2>1 DEF Dispatch
  <1>4. CASE Reports(s)
    BY <1>2, <1>4 DEF Reports
  <1>5. CASE Progress(s)
    <2>. PICK e : e = Event(s, Len(attempts[s]), "running")
      OBVIOUS
    <2>1. attempts' = attempts /\ log' = Append(log, e) /\ UNCHANGED <<daemon, orphaned, cl, crashes>>
      BY <1>5 DEF Progress
    <2>2. /\ attempts \in Seq(Seq(JobStates)) /\ log \in Seq(Entries) /\ Names(log, Len(attempts))
      BY <1>1 DEF Kept
    <2>3. Len(attempts) \in Nat /\ s \in Nat /\ Len(attempts) <= Len(attempts) /\ Len(attempts[s]) \in Nat
      BY <1>1, <2>2, LatestIs
    <2>4. e \in Entries /\ e.series \in 1 .. Len(attempts)
      BY <2>3 DEF Event, Entries, JobStates, ActiveStates
    <2>5. /\ log' \in Seq(Entries) /\ Len(log) <= Len(log')
          /\ \A i \in 1 .. Len(log) : log'[i] = log[i]
          /\ Names(log', Len(attempts))
      BY <2>1, <2>2, <2>3, <2>4, OneMoreEvent
    <2>6. Kept(attempts', log')
      BY <1>1, <2>1, <2>5 DEF Kept
    <2>7. Grown(attempts, log, attempts', log')
      <3>1. Grown(attempts, log, attempts, log)
        BY <1>1, NothingMoves
      <3>. QED BY <2>1, <2>5, <3>1 DEF Grown
    <2>. QED BY <1>1, <2>1, <2>6, <2>7, CommandsStay
  <1>. QED BY <1>3, <1>4, <1>5

LEMMA ClientInvNext ==
    ClientInv /\ [Next]_vars => ClientInv'
PROOF
  <1>. SUFFICES ASSUME ClientInv, [Next]_vars
                PROVE  ClientInv'
    OBVIOUS
  <1>1. /\ Kept(attempts, log) /\ daemon \in {"down", "up", "closing"} /\ orphaned \in BOOLEAN
    BY DEF ClientInv
  <1>2. ASSUME UNCHANGED <<catalog, cl>>, daemon' \in {"down", "up", "closing"}, orphaned' \in BOOLEAN
        PROVE  ClientInv'
    <2>1. attempts' = attempts /\ log' = log /\ cl' = cl
      BY <1>2 DEF catalog
    <2>2. Kept(attempts', log') /\ Grown(attempts, log, attempts', log')
      BY <1>1, <2>1, NothingMoves
    <2>. QED BY <1>2, <2>1, <2>2, CommandsStay
  <1>3. CASE \E c \in Clients : CommandStep(c)
    BY <1>3, CommandKeeps
  <1>4. CASE \E s \in 1 .. Len(attempts) : Dispatch(s) \/ Reports(s) \/ Progress(s)
    BY <1>4, RunnersKeep
  <1>5. CASE FindsIdle
    BY <1>1, <1>2, <1>5 DEF FindsIdle
  <1>6. CASE ShutsDown
    <2>1. orphaned' \in BOOLEAN
      BY <1>6 DEF ShutsDown
    <2>. QED BY <1>2, <1>6, <2>1 DEF ShutsDown
  <1>7. CASE Done \/ UNCHANGED vars
    BY <1>1, <1>2, <1>7 DEF Done, vars
  <1>. QED BY <1>3, <1>4, <1>5, <1>6, <1>7 DEF Next

LEMMA ClientInvInit == Init => ClientInv
PROOF
  <1>. SUFFICES ASSUME Init PROVE ClientInv
    OBVIOUS
  <1>1. PICK typed \in [Clients -> Command] :
          /\ \A c \in Clients : /\ typed[c].mode = "force" => typed[c].cmd = "cancel"
                                /\ typed[c].since = 3 => typed[c].cmd = "events"
          /\ attempts = IF \A c \in Clients : typed[c].cmd = "run"
                        THEN << <<"cancelled">> >> ELSE << <<"cancelled">>, <<"queued">> >>
          /\ log = <<Event(1, 1, "queued"), Event(1, 1, "cancelled")>> \o
                   (IF Len(attempts) = Job THEN <<Event(Job, 1, "queued")>> ELSE <<>>)
          /\ cl = [c \in Clients |->
                     [cmd |-> typed[c].cmd, mode |-> typed[c].mode, since |-> typed[c].since,
                      pc |-> "connect", series |-> IF typed[c].cmd = "run" THEN 1 ELSE Job,
                      cursor |-> typed[c].since,
                      out |-> <<>>, full |-> FALSE, read |-> 0, base |-> 0, receipt |-> 0,
                      tries |-> 0, error |-> "none", answer |-> "none", exit |-> 1]]
    BY DEF Init
  <1>. PICK old : old = <<"cancelled">>
    OBVIOUS
  <1>. PICK new : new = <<"queued">>
    OBVIOUS
  <1>2. /\ old \in Seq(JobStates) /\ Len(old) = 1 /\ OneLive(old)
        /\ new \in Seq(JobStates) /\ Len(new) = 1 /\ OneLive(new)
    <2>1. /\ old \in Seq(JobStates) /\ Len(old) = 1 /\ new \in Seq(JobStates) /\ Len(new) = 1
      BY Edges
    <2>. QED BY <2>1 DEF OneLive
  <1>3. /\ attempts \in Seq(Seq(JobStates)) /\ AllLive(attempts)
        /\ \/ Len(attempts) = 1 /\ \A c \in Clients : typed[c].cmd = "run"
           \/ Len(attempts) = 2
        /\ \A s \in 1 .. Len(attempts) : Len(attempts[s]) = 1
    <2>1. CASE \A c \in Clients : typed[c].cmd = "run"
      <3>1. attempts = <<old>>
        BY <1>1, <2>1
      <3>2. attempts \in Seq(Seq(JobStates)) /\ Len(attempts) = 1 /\ attempts[1] = old
        BY <1>2, <3>1
      <3>. QED BY <1>2, <2>1, <3>2 DEF AllLive
    <2>2. CASE ~ \A c \in Clients : typed[c].cmd = "run"
      <3>1. attempts = <<old, new>>
        BY <1>1, <2>2
      <3>2. /\ attempts \in Seq(Seq(JobStates)) /\ Len(attempts) = 2 /\ attempts[1] = old
            /\ attempts[2] = new
        BY <1>2, <3>1
      <3>. QED BY <1>2, <2>2, <3>2 DEF AllLive
    <2>. QED BY <2>1, <2>2
  <1>4. log \in Seq(Entries) /\ Names(log, Len(attempts)) /\ Len(log) = Len(attempts) + 1
    <2>. PICK e1 : e1 = Event(1, 1, "queued")
      OBVIOUS
    <2>. PICK e2 : e2 = Event(1, 1, "cancelled")
      OBVIOUS
    <2>. PICK e3 : e3 = Event(2, 1, "queued")
      OBVIOUS
    <2>1. e1 \in Entries /\ e2 \in Entries /\ e3 \in Entries
          /\ e1.series = 1 /\ e2.series = 1 /\ e3.series = 2
      BY Edges DEF Event, Entries
    <2>. PICK two : two = <<e1, e2>>
      OBVIOUS
    <2>4. two \in Seq(Entries) /\ Len(two) = 2 /\ two[1] = e1 /\ two[2] = e2
      BY <2>1
    <2>2. CASE Len(attempts) = 1
      <3>. PICK none : none = <<>>
        OBVIOUS
      <3>1. log = two \o none
        <4>1. Len(attempts) # Job
          BY <2>2 DEF Job
        <4>2. log = <<Event(1, 1, "queued"), Event(1, 1, "cancelled")>> \o <<>>
          BY <1>1, <4>1
        <4>. QED BY <4>2
      <3>2. log \in Seq(Entries) /\ Len(log) = 2 /\ log[1] = e1 /\ log[2] = e2
        BY <2>4, <3>1
      <3>. QED BY <2>1, <2>2, <3>2 DEF Names
    <2>3. CASE Len(attempts) = 2
      <3>. PICK one : one = <<e3>>
        OBVIOUS
      <3>1. log = two \o one
        BY <1>1, <2>3 DEF Job
      <3>2. one \in Seq(Entries) /\ Len(one) = 1 /\ one[1] = e3
        BY <2>1
      <3>3. log \in Seq(Entries) /\ Len(log) = 3 /\ log[1] = e1 /\ log[2] = e2 /\ log[3] = e3
        BY <2>4, <3>1, <3>2
      <3>. QED BY <2>1, <2>3, <3>3 DEF Names
    <2>. QED BY <1>3, <2>2, <2>3
  <1>5. ASSUME NEW c \in Clients
        PROVE  Fine(cl[c], attempts, log) /\ cl[c].receipt = 0
    <2>. PICK x : x = cl[c]
      OBVIOUS
    <2>1. /\ x.cmd = typed[c].cmd /\ x.mode = typed[c].mode /\ x.since = typed[c].since
          /\ x.series = (IF typed[c].cmd = "run" THEN 1 ELSE Job)
          /\ x.pc = "connect" /\ x.cursor = x.since /\ x.out = <<>> /\ x.read = 0
          /\ x.base = 0 /\ x.receipt = 0 /\ x.tries = 0
      BY <1>1
    <2>2. /\ typed[c].cmd \in Commands /\ typed[c].mode \in {"safe", "force"}
          /\ typed[c].since \in {0, 3}
      BY DEF Command
    <2>3. /\ typed[c].since = 3 => typed[c].cmd = "events"
      BY <1>1
    <2>4. x \in Records
      <3>1. x = [cmd |-> typed[c].cmd, mode |-> typed[c].mode, since |-> typed[c].since,
                 pc |-> "connect", series |-> IF typed[c].cmd = "run" THEN 1 ELSE Job,
                 cursor |-> typed[c].since,
                 out |-> <<>>, full |-> FALSE, read |-> 0, base |-> 0, receipt |-> 0,
                 tries |-> 0, error |-> "none", answer |-> "none", exit |-> 1]
        BY <1>1
      <3>. QED BY <2>2, <3>1 DEF Records, Failures, Job
    <2>5. x.series \in 1 .. Len(attempts) /\ x.cursor <= Len(log)
      <3>1. CASE Len(attempts) = 1 /\ \A d \in Clients : typed[d].cmd = "run"
        BY <1>4, <2>1, <2>2, <2>3, <3>1 DEF Job
      <3>2. CASE Len(attempts) = 2
        BY <1>4, <2>1, <2>2, <3>2 DEF Job
      <3>. QED BY <1>3, <3>1, <3>2
    <2>6. Placed(x, attempts)
      <3>1. x.cmd \in {"run", "wait", "events", "cancel", "rerun"} /\ x.pc = "connect"
        BY <2>1, <2>2, ClientAssumption
      <3>2. x.pc \in Stages[x.cmd]
        BY <3>1 DEF Stages
      <3>3. x.tries <= MaxTries /\ x.base <= Len(attempts[x.series]) /\ x.receipt <= Len(attempts[x.series])
        BY <1>3, <2>1, <2>5, ClientAssumption
      <3>4. x.cmd # "run" => x.series = Job
        BY <2>1
      <3>. QED BY <2>5, <3>1, <3>2, <3>3, <3>4 DEF Placed
    <2>7. Stopped(x, attempts) /\ EndSeen(x, attempts) /\ Followed(x)
      BY <2>1 DEF Stopped, EndSeen, Followed
    <2>8. Reading(x, log)
      <3>1. x.since \in Nat /\ x.cursor = x.since /\ Len(log) \in Nat
        BY <1>4, <2>1, <2>2
      <3>2. Lists(<<>>, x.series, x.since, x.since, log)
        BY <3>1 DEF Lists
      <3>3. Drained(x, log)
        BY <2>1, <3>1 DEF Drained
      <3>4. x.read <= Len(log)
        BY <2>1, <3>1
      <3>. QED BY <2>1, <2>5, <3>1, <3>2, <3>3, <3>4 DEF Reading
    <2>. QED BY <2>1, <2>4, <2>6, <2>7, <2>8 DEF Fine
  <1>6. cl = [c \in Clients |-> cl[c]]
    BY <1>1
  <1>7. ReceiptsAreDistinct
    BY <1>5 DEF ReceiptsAreDistinct
  <1>8. daemon \in {"down", "up", "closing"} /\ orphaned \in BOOLEAN
    BY DEF Init
  <1>. QED BY <1>3, <1>4, <1>5, <1>6, <1>7, <1>8 DEF ClientInv, Kept

-----------------------------------------------------------------------------
(* What it implies.                                                        *)

LEMMA ClientInvTells == ClientInv => ReadersAreTold
PROOF
  <1>. SUFFICES ASSUME ClientInv PROVE ReadersAreTold
    OBVIOUS
  <1>1. Kept(attempts, log) /\ \A c \in Clients : Fine(cl[c], attempts, log)
    BY DEF ClientInv
  <1>2. TypeOK
    <2>1. attempts \in Seq(Seq(JobStates)) /\ log \in Seq(Entries)
      BY <1>1 DEF Kept
    <2>2. \A e \in Range(log) : e.state \in JobStates /\ e.series \in 1 .. Len(attempts)
      <3>. TAKE e \in Range(log)
      <3>1. PICK i \in 1 .. Len(log) : e = log[i]
        BY <2>1 DEF Range
      <3>2. e \in Entries /\ e.series \in 1 .. Len(attempts)
        BY <1>1, <2>1, <3>1 DEF Kept, Names
      <3>. QED BY <3>2 DEF Entries
    <2>3. \A c \in Clients :
             /\ cl[c].pc \in Calls \union {"connect", "done"}
             /\ cl[c].series \in 1 .. Len(attempts)
             /\ cl[c].tries <= MaxTries /\ cl[c].cursor <= Len(log)
      BY <1>1 DEF Fine, Records, Placed, Reading
    <2>. QED BY <2>1, <2>2, <2>3 DEF TypeOK, ClientInv
  <1>3. ASSUME NEW c \in Clients
        PROVE  /\ Range(cl[c].out) = {i \in cl[c].since + 1 .. cl[c].cursor :
                                         log[i].series = cl[c].series}
               /\ \A j, k \in DOMAIN cl[c].out : j < k => cl[c].out[j] < cl[c].out[k]
               /\ DOMAIN cl[c].out = 1 .. Len(cl[c].out)
    <2>. PICK x : x = cl[c]
      OBVIOUS
    <2>1. x \in Records /\ Lists(x.out, x.series, x.since, x.cursor, log)
      BY <1>1 DEF Fine, Reading
    <2>2. x.out \in Seq(Nat) /\ x.since \in Nat /\ x.cursor \in Nat /\ DOMAIN x.out = 1 .. Len(x.out)
      BY <2>1 DEF Records
    <2>3. \A i : i \in Range(x.out) <=> i \in Nat /\ \E k \in 1 .. Len(x.out) : x.out[k] = i
      BY <2>2 DEF Range
    <2>4. \A i : i \in {j \in x.since + 1 .. x.cursor : log[j].series = x.series} <=>
                 i \in Nat /\ x.since < i /\ i <= x.cursor /\ log[i].series = x.series
      BY <2>2
    <2>5. Range(x.out) = {i \in x.since + 1 .. x.cursor : log[i].series = x.series}
      BY <2>1, <2>3, <2>4 DEF Lists
    <2>6. \A j, k \in DOMAIN x.out : j < k => x.out[j] < x.out[k]
      BY <2>1, <2>2 DEF Lists
    <2>. QED BY <2>2, <2>5, <2>6
  <1>4. PrintsWithoutGap
    BY <1>3 DEF PrintsWithoutGap
  <1>5. FollowerDrainsBacklog
    <2>. SUFFICES ASSUME NEW c \in Clients, cl[c].cmd = "events", At(c, "done"),
                         cl[c].answer \in TerminalStates,
                         NEW i \in (cl[c].since + 1) .. cl[c].read, log[i].series = cl[c].series
                  PROVE  \E j \in DOMAIN cl[c].out : cl[c].out[j] = i
      BY DEF FollowerDrainsBacklog
    <2>. PICK x : x = cl[c]
      OBVIOUS
    <2>1. x \in Records /\ Drained(x, log) /\ Followed(x) /\ Lists(x.out, x.series, x.since, x.cursor, log)
      BY <1>1 DEF Fine, Reading
    <2>2. \A k \in x.cursor + 1 .. x.read : log[k].series # x.series
      BY <2>1 DEF Followed, Drained, At
    <2>3. x.since \in Nat /\ x.cursor \in Nat /\ x.read \in Nat
      BY <2>1 DEF Records
    <2>4. i \in Nat /\ x.since < i /\ i <= x.cursor
      BY <2>2, <2>3
    <2>5. \E k \in 1 .. Len(x.out) : x.out[k] = i
      BY <2>1, <2>4 DEF Lists
    <2>. QED BY <1>3, <2>5
  <1>6. WaitTellsTheTruth
    <2>. SUFFICES ASSUME NEW c \in Clients, cl[c].cmd \in {"run", "wait"}, At(c, "done"),
                         cl[c].answer \in JobStates
                  PROVE  \E a \in cl[c].base .. Len(attempts[cl[c].series]) :
                             attempts[cl[c].series][a] = cl[c].answer
      BY DEF WaitTellsTheTruth
    <2>1. /\ EndSeen(cl[c], attempts) /\ cl[c] \in Records /\ cl[c].series \in 1 .. Len(attempts)
      BY <1>1 DEF Fine, Placed
    <2>2. PICK a \in 1 .. Len(attempts[cl[c].series]) :
              cl[c].base <= a /\ attempts[cl[c].series][a] = cl[c].answer
      BY <2>1 DEF EndSeen, At
    <2>3. Len(attempts[cl[c].series]) \in Nat
      BY <1>1, <2>1, LatestIs
    <2>4. cl[c].base \in Nat
      BY <2>1 DEF Records
    <2>5. a \in cl[c].base .. Len(attempts[cl[c].series])
      BY <2>2, <2>3, <2>4
    <2>. QED BY <2>2, <2>5
  <1>. QED BY <1>2, <1>4, <1>5, <1>6 DEF ReadersAreTold

LEMMA ClientInvWorks == ClientInv => CommandsHaveEffect
PROOF
  <1>. SUFFICES ASSUME ClientInv PROVE CommandsHaveEffect
    OBVIOUS
  <1>1. Kept(attempts, log) /\ \A c \in Clients : Fine(cl[c], attempts, log)
    BY DEF ClientInv
  <1>2. CancelStops
    BY <1>1 DEF CancelStops, Fine, Stopped, Over, At
  <1>3. OneLiveAttempt
    BY <1>1 DEF OneLiveAttempt, Kept, AllLive, OneLive
  <1>. QED BY <1>2, <1>3 DEF CommandsHaveEffect, ClientInv

-----------------------------------------------------------------------------
(***************************************************************************)
(* Whatever is logged while a command pages through the events, whichever  *)
(* daemon is killed in between, and however long the log is: a reader      *)
(* prints each event of its series once and in order, a follower has       *)
(* printed all there was at its last page, and the state that ends a wait  *)
(* or a foreground run is the end of an attempt of the series it is about. *)
(***************************************************************************)
THEOREM ReadersTold == Spec => []ReadersAreTold
PROOF
  <1>1. Spec => []ClientInv
    BY ClientInvInit, ClientInvNext, PTL DEF Spec
  <1>. QED BY <1>1, ClientInvTells, PTL

(***************************************************************************)
(* For any number of commands: a cancel that reports success has stopped   *)
(* the attempt it was typed for, also when its answer was lost and it was  *)
(* sent again; a series has one attempt alive, and no two submissions or   *)
(* reruns were given the same one.                                         *)
(***************************************************************************)
THEOREM CommandsEffective == Spec => []CommandsHaveEffect
PROOF
  <1>1. Spec => []ClientInv
    BY ClientInvInit, ClientInvNext, PTL DEF Spec
  <1>. QED BY <1>1, ClientInvWorks, PTL
=============================================================================
