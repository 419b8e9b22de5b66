------------------------ MODULE ComponentTestsProofs ------------------------
(* Theorems about ComponentTests: whatever the files, directories and      *)
(* processes main.cpp meets.                                               *)
EXTENDS ComponentTests, SelectionProofs

-----------------------------------------------------------------------------
(* What Get finds in the kernel's file about a process.                    *)

\* The value of the only line with a key.
LEMMA GetFound ==
  ASSUME NEW entries, NEW i \in DOMAIN entries, NEW key, NEW type, NEW fallback,
         \A j \in DOMAIN entries : entries[j].key = key <=> j = i
  PROVE  Get(entries, key, type, fallback) =
           IF entries[i].words # <<>> /\ TypeOf(Head(entries[i].words)) = type
           THEN Head(entries[i].words).value ELSE fallback
<1> DEFINE found == {j \in DOMAIN entries :
                       /\ entries[j].key = key
                       /\ entries[j].words # <<>>
                       /\ TypeOf(Head(entries[j].words)) = type}
<1>1. Get(entries, key, type, fallback) =
        IF found = {} THEN fallback
        ELSE Head(entries[CHOOSE j \in found : TRUE].words).value
  BY DEF Get
<1>2. CASE entries[i].words # <<>> /\ TypeOf(Head(entries[i].words)) = type
  <2>1. found = {i}
    BY <1>2
  <2>2. (CHOOSE j \in found : TRUE) = i
    BY <2>1
  <2> QED
    BY <1>1, <1>2, <2>1, <2>2
<1>3. CASE ~(entries[i].words # <<>> /\ TypeOf(Head(entries[i].words)) = type)
  <2>1. found = {}
    BY <1>3
  <2>. HIDE DEF found
  <2> QED
    BY <1>1, <1>3, <2>1
<1> QED
  BY <1>2, <1>3

\* A key the file does not have.
LEMMA GetMissing ==
  ASSUME NEW entries, NEW key, NEW type, NEW fallback,
         \A j \in DOMAIN entries : entries[j].key # key
  PROVE  Get(entries, key, type, fallback) = fallback
BY DEF Get

\* The lines of the file.
LEMMA StatusLines ==
  ASSUME NEW q \in Process, NEW line \in BOOLEAN
  PROVE  LET s == StatusFile(q, line) IN
         /\ DOMAIN s = 1..(IF line THEN 5 ELSE 4)
         /\ s[1] = [key |-> "Name", words |-> q.comm]
         /\ s[2] = [key |-> "State",
                    words |-> IF q.zombie THEN <<Text("Z"), Text("(zombie)")>>
                              ELSE <<Text("S"), Text("(sleeping)")>>]
         /\ s[3] = [key |-> "PPid", words |-> <<Number(q.ppid)>>]
         /\ line => s[4] = [key |-> "Kthread",
                            words |-> <<Number(IF q.kthread THEN 1 ELSE 0)>>]
         /\ s[IF line THEN 5 ELSE 4] =
              [key |-> "Threads", words |-> <<Number(q.threads)>>]
<1> DEFINE name == [key |-> "Name", words |-> q.comm]
           state == [key |-> "State",
                     words |-> IF q.zombie THEN <<Text("Z"), Text("(zombie)")>>
                               ELSE <<Text("S"), Text("(sleeping)")>>]
           ppid == [key |-> "PPid", words |-> <<Number(q.ppid)>>]
           kthread == [key |-> "Kthread",
                       words |-> <<Number(IF q.kthread THEN 1 ELSE 0)>>]
           threads == [key |-> "Threads", words |-> <<Number(q.threads)>>]
<1>2. StatusFile(q, line) = IF line THEN <<name, state, ppid, kthread, threads>>
                            ELSE <<name, state, ppid, threads>>
  BY DEF StatusFile
<1>. HIDE DEF name, state, ppid, kthread, threads
<1>3. DOMAIN StatusFile(q, line) = 1..(IF line THEN 5 ELSE 4)
  <2>1. CASE line
    BY <1>2, <2>1
  <2>2. CASE ~line
    BY <1>2, <2>2
  <2> QED BY <2>1, <2>2
<1>4. /\ StatusFile(q, line)[1] = name /\ StatusFile(q, line)[2] = state
      /\ StatusFile(q, line)[3] = ppid
      /\ line => StatusFile(q, line)[4] = kthread
      /\ StatusFile(q, line)[IF line THEN 5 ELSE 4] = threads
  BY <1>2
<1> QED
  BY <1>3, <1>4 DEF name, state, ppid, kthread, threads

\* What the program reads in it.
LEMMA StatusValues ==
  ASSUME NEW q \in Process, NEW line \in BOOLEAN
  PROVE  LET s == StatusFile(q, line) IN
         /\ Get(s, "Name", "string", "Unknown") =
              IF q.comm # <<>> /\ TypeOf(Head(q.comm)) = "string"
              THEN Head(q.comm).value ELSE "Unknown"
         /\ \A fallback :
              Get(s, "State", "string", fallback) = IF q.zombie THEN "Z" ELSE "S"
         /\ Get(s, "PPid", "long", 0) = q.ppid
         /\ Get(s, "Kthread", "long", 0) = IF line /\ q.kthread THEN 1 ELSE 0
         /\ Get(s, "Threads", "long", 1) = q.threads
<1> DEFINE s == StatusFile(q, line)
           last == IF line THEN 5 ELSE 4
<1>1. /\ DOMAIN s = 1..last
      /\ s[1].key = "Name" /\ s[1].words = q.comm
      /\ s[2].key = "State"
      /\ s[2].words = IF q.zombie THEN <<Text("Z"), Text("(zombie)")>>
                      ELSE <<Text("S"), Text("(sleeping)")>>
      /\ s[3].key = "PPid" /\ s[3].words = <<Number(q.ppid)>>
      /\ line => s[4].key = "Kthread"
                 /\ s[4].words = <<Number(IF q.kthread THEN 1 ELSE 0)>>
      /\ s[last].key = "Threads" /\ s[last].words = <<Number(q.threads)>>
  <2>1. /\ DOMAIN s = 1..last
        /\ s[1] = [key |-> "Name", words |-> q.comm]
        /\ s[2] = [key |-> "State",
                   words |-> IF q.zombie THEN <<Text("Z"), Text("(zombie)")>>
                             ELSE <<Text("S"), Text("(sleeping)")>>]
        /\ s[3] = [key |-> "PPid", words |-> <<Number(q.ppid)>>]
        /\ line => s[4] = [key |-> "Kthread",
                           words |-> <<Number(IF q.kthread THEN 1 ELSE 0)>>]
        /\ s[last] = [key |-> "Threads", words |-> <<Number(q.threads)>>]
    BY StatusLines
  <2>. HIDE DEF s, last
  <2> QED BY <2>1
<1>. HIDE DEF s
<1>2. DOMAIN s = IF line THEN {1, 2, 3, 4, 5} ELSE {1, 2, 3, 4}
  <2>1. CASE line
    BY <1>1, <2>1
  <2>2. CASE ~line
    BY <1>1, <2>2
  <2> QED BY <2>1, <2>2
<1>3. \A i, j \in DOMAIN s : s[i].key = s[j].key => i = j
  <2>1. CASE line
    BY <1>1, <1>2, <2>1
  <2>2. CASE ~line
    BY <1>1, <1>2, <2>2
  <2> QED BY <2>1, <2>2
<1>4. Get(s, "Name", "string", "Unknown") =
        IF q.comm # <<>> /\ TypeOf(Head(q.comm)) = "string"
        THEN Head(q.comm).value ELSE "Unknown"
  <2>1. 1 \in DOMAIN s /\ \A j \in DOMAIN s : s[j].key = "Name" <=> j = 1
    BY <1>1, <1>2, <1>3
  <2>2. Get(s, "Name", "string", "Unknown") =
          IF s[1].words # <<>> /\ TypeOf(Head(s[1].words)) = "string"
          THEN Head(s[1].words).value ELSE "Unknown"
    BY <2>1, GetFound
  <2> QED
    BY <1>1, <2>2
<1>5. ASSUME NEW fallback
      PROVE  Get(s, "State", "string", fallback) = IF q.zombie THEN "Z" ELSE "S"
  <2>1. 2 \in DOMAIN s /\ \A j \in DOMAIN s : s[j].key = "State" <=> j = 2
    BY <1>1, <1>2, <1>3
  <2>2. s[2].words # <<>> /\ TypeOf(Head(s[2].words)) = "string"
        /\ Head(s[2].words).value = IF q.zombie THEN "Z" ELSE "S"
    BY <1>1 DEF Text, TypeOf
  <2>3. Get(s, "State", "string", fallback) =
          IF s[2].words # <<>> /\ TypeOf(Head(s[2].words)) = "string"
          THEN Head(s[2].words).value ELSE fallback
    BY <2>1, GetFound
  <2> QED
    BY <2>2, <2>3
<1>6. Get(s, "PPid", "long", 0) = q.ppid
  <2>1. 3 \in DOMAIN s
    BY <1>2
  <2>2. s[3].words # <<>> /\ TypeOf(Head(s[3].words)) = "long"
        /\ Head(s[3].words).value = q.ppid
    BY <1>1 DEF Number, TypeOf
  <2> QED
    BY <1>1, <1>3, <2>1, <2>2, GetFound
<1>7. Get(s, "Kthread", "long", 0) = IF line /\ q.kthread THEN 1 ELSE 0
  <2>1. CASE line
    <3>1. 4 \in DOMAIN s
      BY <1>2, <2>1
    <3> DEFINE n == IF q.kthread THEN 1 ELSE 0
    <3>0. s[4].words = <<Number(n)>>
      BY <1>1, <2>1
    <3>2. s[4].words # <<>> /\ TypeOf(Head(s[4].words)) = "long"
          /\ Head(s[4].words).value = n
      <4>. HIDE DEF n
      <4> QED BY <3>0 DEF Number, TypeOf
    <3> QED
      BY <1>1, <1>3, <2>1, <3>1, <3>2, GetFound
  <2>2. CASE ~line
    <3>1. \A i \in DOMAIN s : s[i].key # "Kthread"
      BY <1>1, <1>2, <2>2
    <3> QED
      BY <2>2, <3>1, GetMissing
  <2> QED BY <2>1, <2>2
<1>8. Get(s, "Threads", "long", 1) = q.threads
  <2>1. last \in DOMAIN s
    BY <1>2
  <2>2. s[last].words # <<>> /\ TypeOf(Head(s[last].words)) = "long"
        /\ Head(s[last].words).value = q.threads
    BY <1>1 DEF Number, TypeOf
  <2>. HIDE DEF last
  <2> QED
    BY <1>1, <1>3, <2>1, <2>2, GetFound
<1> QED
  BY <1>4, <1>5, <1>6, <1>7, <1>8 DEF s

\* The text of the file is accepted if every word of the name is legible.
LEMMA StatusAccepted ==
  ASSUME NEW q \in Process, NEW line \in BOOLEAN
  PROVE  KvAccepts(TextOf(StatusFile(q, line))) <=> Legible(q)
<1> DEFINE s == StatusFile(q, line)
           text == TextOf(s)
           last == IF line THEN 5 ELSE 4
           Clear(words) == \A k \in DOMAIN words : words[k].looks # "odd"
<1>1. /\ DOMAIN s = 1..last /\ last \in {4, 5}
      /\ s[1].words = q.comm
      /\ s[2].words = IF q.zombie THEN <<Text("Z"), Text("(zombie)")>>
                      ELSE <<Text("S"), Text("(sleeping)")>>
      /\ s[3].words = <<Number(q.ppid)>>
      /\ line => s[4].words = <<Number(IF q.kthread THEN 1 ELSE 0)>>
      /\ s[last].words = <<Number(q.threads)>>
  <2>1. /\ DOMAIN s = 1..last
        /\ s[1] = [key |-> "Name", words |-> q.comm]
        /\ s[2] = [key |-> "State",
                   words |-> IF q.zombie THEN <<Text("Z"), Text("(zombie)")>>
                             ELSE <<Text("S"), Text("(sleeping)")>>]
        /\ s[3] = [key |-> "PPid", words |-> <<Number(q.ppid)>>]
        /\ line => s[4] = [key |-> "Kthread",
                           words |-> <<Number(IF q.kthread THEN 1 ELSE 0)>>]
        /\ s[last] = [key |-> "Threads", words |-> <<Number(q.threads)>>]
    BY StatusLines
  <2>2. last \in {4, 5}
    OBVIOUS
  <2>. HIDE DEF s, last
  <2> QED BY <2>1, <2>2
<1>. HIDE DEF s
<1>2. Clear(s[1].words) <=> Legible(q)
  BY <1>1 DEF Legible
<1>3. Clear(s[2].words)
  <2>1. CASE q.zombie
    BY <1>1, <2>1 DEF Text
  <2>2. CASE ~q.zombie
    BY <1>1, <2>2 DEF Text
  <2> QED BY <2>1, <2>2
<1>4. Clear(s[3].words)
  BY <1>1 DEF Number
<1>5. line => Clear(s[4].words)
  <2> DEFINE n == IF q.kthread THEN 1 ELSE 0
  <2>1. line => s[4].words = <<Number(n)>>
    BY <1>1
  <2>. HIDE DEF n
  <2> QED
    BY <2>1 DEF Number
<1>6. Clear(s[last].words)
  <2>1. s[last].words = <<Number(q.threads)>>
    BY <1>1
  <2>. HIDE DEF last
  <2> QED
    BY <2>1 DEF Number
<1>. HIDE DEF Clear
<1>7. DOMAIN s = IF line THEN {1, 2, 3, 4, 5} ELSE {1, 2, 3, 4}
  <2>1. CASE line
    BY <1>1, <2>1
  <2>2. CASE ~line
    BY <1>1, <2>2
  <2> QED BY <2>1, <2>2
<1>8. (\A i \in DOMAIN s : Clear(s[i].words)) <=> Legible(q)
  <2>1. CASE line
    BY <1>2, <1>3, <1>4, <1>5, <1>6, <1>7, <2>1
  <2>2. CASE ~line
    BY <1>2, <1>3, <1>4, <1>6, <1>7, <2>2
  <2> QED BY <2>1, <2>2
<1>9. /\ text = [i \in 1..last |-> [kind |-> "metric", newline |-> TRUE,
                                    plain |-> Clear(s[i].words)]]
      /\ DOMAIN text = 1..last /\ Len(text) = last
  BY <1>1 DEF TextOf, Clear
<1>. HIDE DEF text, last
<1>10. \A i \in 1..last : text[i].kind = "metric"
                          /\ (text[i].plain <=> Clear(s[i].words))
  BY <1>9
<1>11. KvAccepts(text) <=> \A i \in 1..last : Clear(s[i].words)
  <2>1. ASSUME KvAccepts(text) PROVE \A i \in 1..last : Clear(s[i].words)
    <3>1. PICK n \in 1..last : /\ \A i \in 1..n : IsKeyed(text[i])
                               /\ \A i \in n + 1..last : text[i].kind = "blank"
      BY <1>9, <2>1 DEF KvAccepts
    <3>2. ASSUME n # last PROVE FALSE
      <4>1. last \in n + 1..last /\ last \in 1..last
        BY <1>1, <3>2
      <4>2. text[last].kind = "blank" /\ text[last].kind = "metric"
        BY <1>10, <3>1, <4>1
      <4> QED BY <4>2
    <3> QED
      BY <1>10, <3>1, <3>2 DEF IsKeyed
  <2>2. ASSUME \A i \in 1..last : Clear(s[i].words) PROVE KvAccepts(text)
    <3>1. last \in 1..last /\ \A i \in last + 1..last : FALSE
      BY <1>1
    <3>2. \A i \in 1..last : IsKeyed(text[i])
      BY <1>10, <2>2 DEF IsKeyed
    <3> QED
      BY <1>9, <3>1, <3>2 DEF KvAccepts
  <2> QED BY <2>1, <2>2
<1> QED
  BY <1>1, <1>8, <1>11 DEF text, s

-----------------------------------------------------------------------------
(* What the program learns of a process from one table of the kernel's.    *)

\* The tables /proc may have.
Tables == {t \in [DOMAIN world.procs -> Process] : ThreadsKnown(t)}

\* What is known of the processes of a table.
LEMMA TableTypes ==
  ASSUME world \in Worlds, NEW t \in Tables, NEW p \in DOMAIN world.procs
  PROVE  /\ p \in Nat /\ t[p] \in Process /\ DOMAIN t = DOMAIN world.procs
         /\ world.kthreadLine \in BOOLEAN
         /\ t[p].kthread => p = 2 \/ t[p].ppid = 2
         /\ t[p].present \in BOOLEAN /\ t[p].zombie \in BOOLEAN
         /\ t[p].kthread \in BOOLEAN /\ t[p].ppid \in Nat
<1>1. p \in Nat /\ t[p] \in Process /\ DOMAIN t = DOMAIN world.procs
      /\ world.kthreadLine \in BOOLEAN
  BY WorldAssumption DEF Tables
<1>2. t[p].kthread => p = 2 \/ t[p].ppid = 2
  BY <1>1 DEF Tables, ThreadsKnown
<1> QED
  BY <1>1, <1>2 DEF Process

\* should_track admits the legible user processes, but itself and init.
LEMMA Tracked ==
  ASSUME world \in Worlds, NEW t \in Tables, NEW p \in DOMAIN world.procs
  PROVE  t[p].present /\ StatAllows(p)
           /\ StatusAllows(p, StatusFile(t[p], world.kthreadLine))
         <=> Admits(t, p)
<1> DEFINE q == t[p]
           s == StatusFile(t[p], world.kthreadLine)
<1>1. /\ q \in Process /\ world.kthreadLine \in BOOLEAN
      /\ q.kthread => p = 2 \/ q.ppid = 2
      /\ q.zombie \in BOOLEAN /\ q.kthread \in BOOLEAN
  BY TableTypes
<1>2. /\ \A fallback :
           Get(s, "State", "string", fallback) = IF q.zombie THEN "Z" ELSE "S"
      /\ Get(s, "PPid", "long", 0) = q.ppid
      /\ Get(s, "Kthread", "long", 0) =
           IF world.kthreadLine /\ q.kthread THEN 1 ELSE 0
  BY <1>1, StatusValues
<1>3. KvAccepts(TextOf(s)) <=> Legible(q)
  BY <1>1, StatusAccepted
<1>4. Admits(t, p) <=>
        p > 1 /\ p # 2 /\ p # SelfPid /\ q.present /\ Legible(q)
        /\ ~q.kthread /\ ~q.zombie /\ q.ppid # 2
  BY DEF Admits
<1>. HIDE DEF s, q
<1>5. Get(s, "State", "string", "") = IF q.zombie THEN "Z" ELSE "S"
  BY <1>2, Zenon
<1>6. Get(s, "State", "string", "") # "Z" <=> ~q.zombie
  <2>1. \A x : x = (IF q.zombie THEN "Z" ELSE "S") => (x # "Z" <=> ~q.zombie)
    OBVIOUS
  <2> QED
    BY <1>5, <2>1, Zenon
<1>7. Get(s, "Kthread", "long", 0) # 1 <=> ~(world.kthreadLine /\ q.kthread)
  BY <1>2
<1>8. StatAllows(p) /\ StatusAllows(p, s) <=>
        p > 1 /\ p # SelfPid /\ Legible(q) /\ p # 2 /\ q.ppid # 2
        /\ ~(world.kthreadLine /\ q.kthread) /\ ~q.zombie
  BY <1>2, <1>3, <1>6, <1>7, Zenon DEF StatAllows, StatusAllows
<1>9. q.present /\ StatAllows(p) /\ StatusAllows(p, s) <=> Admits(t, p)
  BY <1>1, <1>4, <1>8
<1> QED
  BY <1>9 DEF s, q

\* fetch_status_meta reads what a line of the list says.
LEMMA Fetched ==
  ASSUME world \in Worlds, NEW t \in Tables, NEW p \in DOMAIN world.procs,
         KvAccepts(TextOf(StatusFile(t[p], world.kthreadLine)))
  PROVE  /\ Legible(t[p])
         /\ FetchStatusMeta(StatusFile(t[p], world.kthreadLine)) =
              [name |-> ShownName(t[p]), ppid |-> t[p].ppid,
               thread_count |-> t[p].threads]
<1> DEFINE q == t[p]
<1>1. q \in Process /\ Legible(q) /\ world.kthreadLine \in BOOLEAN
  BY TableTypes, StatusAccepted
<1>2. ASSUME q.comm # <<>>
      PROVE  TypeOf(Head(q.comm)) = "string" <=> Head(q.comm).looks = "text"
  <2>1. q.comm \in Seq(Word) /\ 1 \in DOMAIN q.comm /\ Head(q.comm) = q.comm[1]
    BY <1>1, <1>2 DEF Process
  <2>2. q.comm[1] \in Word /\ q.comm[1].looks # "odd"
    BY <1>1, <2>1, ElementOfSeq DEF Legible
  <2>3. q.comm[1].looks \in {"number", "hex", "text", "odd"}
    BY <2>2 DEF Word
  <2> QED
    BY <2>1, <2>2, <2>3 DEF TypeOf
<1> QED
  BY <1>1, <1>2, StatusValues DEF FetchStatusMeta, ShownName

-----------------------------------------------------------------------------
(* The inductive invariant.                                                *)

\* A pid that is never free is the kernel's, or not, all the time.
SameThreads ==
  \A p \in DOMAIN procs :
    (\A n \in DOMAIN past : past[n][p].present) =>
      \A m, n \in DOMAIN past : past[m][p].kthread = past[n][p].kthread

WorldKept ==
  /\ world \in Worlds
  /\ past \in Seq(Tables) /\ past # <<>> /\ procs = past[Len(past)]
  /\ SameThreads

\* The list is the tenth test.
Listed == Len(results) >= 10 /\ results[10]

Phase ==
  /\ pc \in {"tests", "readdir", "stat", "filter", "list", "metrics"}
  /\ pc # "tests" => Len(results) = 9 /\ "/proc" \in world.listable
  /\ cursor \in Nat
  /\ pc \in {"stat", "filter"} => cursor \in DOMAIN procs
  /\ pc = "filter" => StatAllows(cursor)
  /\ Len(results) < 10 /\ pc \notin {"list", "metrics"} => rows = <<>>
  /\ Len(results) < 10 /\ pc = "tests" => pids = {}

\* The filter has admitted every pid to come.
PidsFrom ==
  /\ pids \subseteq DOMAIN procs
  /\ \A p \in pids : \E a \in DOMAIN past : Admits(past[a], p)

\* The metadata was read of the first of them, after that.
MetaOf(t, p, m) ==
  /\ t[p].present /\ Legible(t[p])
  /\ m = [name |-> ShownName(t[p]), ppid |-> t[p].ppid,
          thread_count |-> t[p].threads]
MetaFrom ==
  pc = "metrics" =>
    /\ InList
    /\ \E a, b \in DOMAIN past :
         a <= b /\ Admits(past[a], First) /\ MetaOf(past[b], First, meta)

\* The lines are made of three looks each, and are of processes listed before
\* the pids to come.
RowIn(tables, row) ==
  \E a, b, c \in DOMAIN tables :
    /\ a <= b /\ b <= c
    /\ Admits(tables[a], row.pid) /\ HasMeta(tables[b], row)
    /\ HasMemory(tables[c], row)
RowsFrom ==
  /\ \E S : rows \in Seq(S)
  /\ Len(rows) <= Shown
  /\ \A i \in DOMAIN rows : rows[i].pid \in DOMAIN procs /\ RowIn(past, rows[i])
  /\ \A i, j \in DOMAIN rows : j < i => rows[j].pid < rows[i].pid
  /\ \A i \in DOMAIN rows : \A p \in pids : rows[i].pid < p

\* No process that was always there has been passed over.
Steady(p) == p \notin failed /\ \A n \in DOMAIN past : Admits(past[n], p)
HasRow(p) == \E i \in DOMAIN rows : rows[i].pid = p
Covered ==
  \A p \in DOMAIN procs : Steady(p) =>
    /\ pc = "readdir" /\ p <= cursor => p \in pids
    /\ pc \in {"stat", "filter"} /\ p < cursor => p \in pids
    /\ pc \in {"list", "metrics"} \/ Listed => p \in pids \/ HasRow(p)

ListEnded == Listed => ~InList

\* What each test returns.
Returns(i) ==
  IF i = 10 THEN "/proc" \in world.listable
  ELSE IF i = 11 THEN TRUE ELSE Simple[Tests[i]]

Returned ==
  /\ results \in Seq(BOOLEAN) /\ Len(results) <= 11
  /\ \A i \in DOMAIN results : results[i] = Returns(i)

Summarised ==
  /\ status \in {-1, 0, 1}
  /\ status # -1 => Len(results) = 11
  /\ status = 0 => \A i \in DOMAIN results : results[i]
  /\ status = 1 => ~\A i \in DOMAIN results : results[i]

IInv ==
  /\ WorldKept /\ Phase /\ PidsFrom /\ MetaFrom /\ RowsFrom /\ Covered
  /\ ListEnded /\ Returned /\ Summarised

-----------------------------------------------------------------------------
(* The steps.                                                              *)

\* The simple tests by name.
LEMMA SimpleIs ==
  /\ DOMAIN FileTests =
       {"read_all", "read_lines", "enumerate_directory", "error_handling"}
  /\ DOMAIN ScraperTests =
       {"statm_scraper", "maps_scraper", "smaps_scraper",
        "scraper_error_handling", "pid_scanner"}
  /\ DOMAIN Simple = DOMAIN FileTests \cup DOMAIN ScraperTests
  /\ \A test \in DOMAIN FileTests : Simple[test] = FileTests[test]
  /\ \A test \in DOMAIN ScraperTests : Simple[test] = ScraperTests[test]
<1>1. DOMAIN FileTests =
        {"read_all", "read_lines", "enumerate_directory", "error_handling"}
  BY DEF FileTests
<1>2. DOMAIN ScraperTests =
        {"statm_scraper", "maps_scraper", "smaps_scraper",
         "scraper_error_handling", "pid_scanner"}
  BY DEF ScraperTests
<1>3. \A test \in DOMAIN ScraperTests : test \notin DOMAIN FileTests
  BY <1>1, <1>2
<1> QED
  BY <1>1, <1>2, <1>3 DEF Simple

\* The results of the simple tests are results.
LEMMA SimpleType ==
  /\ DOMAIN Simple =
       {"read_all", "read_lines", "enumerate_directory", "error_handling",
        "statm_scraper", "maps_scraper", "smaps_scraper",
        "scraper_error_handling", "pid_scanner"}
  /\ \A test \in DOMAIN Simple : world \in Worlds => Simple[test] \in BOOLEAN
<1>1. ASSUME NEW test \in DOMAIN FileTests, world \in Worlds
      PROVE  FileTests[test] \in BOOLEAN
  <2>1. FileTests["read_all"] \in BOOLEAN /\ FileTests["read_lines"] \in BOOLEAN
        /\ FileTests["enumerate_directory"] \in BOOLEAN
        /\ FileTests["error_handling"] \in BOOLEAN
    BY DEF FileTests, Readable
  <2> QED BY <2>1, SimpleIs
<1>2. ASSUME NEW test \in DOMAIN ScraperTests
      PROVE  ScraperTests[test] \in BOOLEAN
  <2>1. ScraperTests["statm_scraper"] \in BOOLEAN
        /\ ScraperTests["maps_scraper"] \in BOOLEAN
        /\ ScraperTests["smaps_scraper"] \in BOOLEAN
        /\ ScraperTests["scraper_error_handling"] \in BOOLEAN
        /\ ScraperTests["pid_scanner"] \in BOOLEAN
    BY DEF ScraperTests
  <2> QED BY <2>1, SimpleIs
<1> QED
  BY <1>1, <1>2, SimpleIs

\* What does not change as long as the world does not.
LEMMA SameWorld ==
  ASSUME world' = world
  PROVE  /\ Tables' = Tables /\ Simple' = Simple
         /\ \A i : Returns(i)' = Returns(i)
BY DEF Tables, Simple, FileTests, ScraperTests, Returns

\* The current table is one of the tables so far.
LEMMA TablesType ==
  ASSUME WorldKept
  PROVE  /\ Len(past) \in Nat /\ Len(past) >= 1 /\ DOMAIN past = 1..Len(past)
         /\ \A n \in DOMAIN past : past[n] \in Tables
         /\ Len(past) \in DOMAIN past /\ procs \in Tables
         /\ DOMAIN procs = DOMAIN world.procs /\ DOMAIN procs \subseteq Nat
         /\ \A n \in DOMAIN past : n <= Len(past)
<1>1. /\ Len(past) \in Nat /\ DOMAIN past = 1..Len(past)
      /\ \A n \in DOMAIN past : past[n] \in Tables
  BY LenProperties, ElementOfSeq DEF WorldKept
<1>2. Len(past) >= 1
  BY <1>1, EmptySeq DEF WorldKept
<1>3. Len(past) \in DOMAIN past /\ \A n \in DOMAIN past : n <= Len(past)
  BY <1>1, <1>2
<1>4. procs \in Tables
  BY <1>1, <1>3 DEF WorldKept
<1> QED
  BY <1>1, <1>2, <1>3, <1>4, WorldAssumption DEF WorldKept, Tables

\* First is the least of the pids to come.
LEMMA FirstType ==
  ASSUME WorldKept, PidsFrom, InList
  PROVE  First \in pids /\ First \in DOMAIN procs /\ \A q \in pids : First <= q
<1>1. pids \in SUBSET Nat /\ pids # {}
  BY TablesType DEF PidsFrom, InList
<1>2. \E p \in pids : \A q \in pids : p <= q
  BY <1>1, NatLeast
<1>3. First \in pids /\ \A q \in pids : First <= q
  BY <1>2 DEF First
<1> QED
  BY <1>3 DEF PidsFrom

\* The tests by their numbers.
LEMMA TestNumbers ==
  /\ Len(Tests) = 11 /\ Tests[10] = "process_list"
  /\ Tests[11] = "process_monitoring"
  /\ \A i \in 1..9 : Tests[i] \notin {"process_list", "process_monitoring"}
BY DEF Tests

\* Which test comes next.
LEMMA AtWhich ==
  ASSUME WorldKept, Returned, NEW test, At(test)
  PROVE  /\ pc = "tests" /\ Len(results) \in 0..10 /\ test = Tests[Len(results) + 1]
         /\ test = "process_list" => Len(results) = 9
         /\ test = "process_monitoring" => Len(results) = 10
         /\ test \in DOMAIN Simple => Len(results) \in 0..8
<1> DEFINE n == Len(results)
<1>1. n \in Nat
  BY LenProperties DEF Returned
<1>2. pc = "tests" /\ n < 11 /\ test = Tests[n + 1]
  BY TestNumbers DEF At, Current
<1>. HIDE DEF n
<1>3. CASE n = 9
  <2>1. test = "process_list"
    BY <1>2, <1>3, TestNumbers
  <2>2. test \notin DOMAIN Simple
    BY <2>1, SimpleType
  <2> QED
    BY <1>2, <1>3, <2>1, <2>2 DEF n
<1>4. CASE n = 10
  <2>1. test = "process_monitoring"
    BY <1>2, <1>4, TestNumbers
  <2>2. test \notin DOMAIN Simple
    BY <2>1, SimpleType
  <2> QED
    BY <1>2, <1>4, <2>1, <2>2 DEF n
<1>5. CASE n \in 0..8
  <2>1. n + 1 \in 1..9
    BY <1>5
  <2>2. test \notin {"process_list", "process_monitoring"}
    BY <1>2, <2>1, TestNumbers
  <2>3. n \in 0..10
    BY <1>5
  <2> QED
    BY <1>2, <1>5, <2>2, <2>3 DEF n
<1>6. n \in 0..8 \/ n = 9 \/ n = 10
  BY <1>1, <1>2
<1> QED
  BY <1>3, <1>4, <1>5, <1>6

\* A test ends with its result.
LEMMA FinishReturns ==
  ASSUME Returned, Len(results) < 11, world' = world,
         NEW passed \in BOOLEAN, passed = Returns(Len(results) + 1), Finish(passed)
  PROVE  /\ Returned' /\ Len(results) \in Nat /\ Len(results') = Len(results) + 1
         /\ results'[Len(results) + 1] = passed
         /\ \A i \in 1..Len(results) : results'[i] = results[i]
<1>1. /\ results \in Seq(BOOLEAN) /\ Len(results) \in Nat
      /\ results' = Append(results, passed)
  BY LenProperties DEF Returned, Finish
<1>2. /\ results' \in Seq(BOOLEAN) /\ Len(results') = Len(results) + 1
      /\ results'[Len(results) + 1] = passed
      /\ \A i \in 1..Len(results) : results'[i] = results[i]
  BY <1>1, AppendProperties
<1>3. \A i \in DOMAIN results' : results'[i] = Returns(i)
  <2>1. DOMAIN results' = 1..Len(results) + 1 /\ DOMAIN results = 1..Len(results)
    BY <1>1, <1>2, LenProperties
  <2>2. \A i \in 1..Len(results) : results'[i] = Returns(i)
    BY <1>2, <2>1 DEF Returned
  <2> QED
    BY <1>1, <1>2, <2>1, <2>2
<1>4. Returned'
  BY <1>1, <1>2, <1>3, SameWorld DEF Returned
<1> QED
  BY <1>1, <1>2, <1>4

\* Where the tables stay as they are.
LEMMA WorldSame ==
  ASSUME WorldKept, UNCHANGED <<world, procs, past>>
  PROVE  WorldKept'
BY SameWorld DEF WorldKept, SameThreads

\* Outside of the list, nothing is asked of pids and metadata.
LEMMA NoList ==
  ASSUME pids = {}, rows = <<>>, WorldKept, pc # "metrics"
  PROVE  PidsFrom /\ MetaFrom /\ RowsFrom
<1>1. /\ rows \in Seq({}) /\ Len(rows) = 0 /\ DOMAIN rows = {}
      /\ Shown \in Nat \ {0}
  BY WorldAssumption
<1> QED
  BY <1>1 DEF PidsFrom, MetaFrom, RowsFrom

\* A step of another test: the list has nothing yet, or stays as it is.
LEMMA Elsewhere ==
  ASSUME IInv, pc = "tests",
         UNCHANGED <<world, procs, past, pc, cursor, pids, failed, meta, rows>>,
         Returned', Len(results') >= Len(results),
         Len(results') < 10 \/ (Len(results) >= 10 /\ results'[10] = results[10])
  PROVE  /\ WorldKept' /\ Phase' /\ PidsFrom' /\ MetaFrom' /\ RowsFrom' /\ Covered'
         /\ ListEnded'
<1>1. Len(results) \in Nat /\ Len(results') \in Nat
  BY LenProperties DEF IInv, Returned
<1>2. Listed' => Listed
  <2>1. ASSUME Len(results') >= 10 PROVE Len(results) >= 10 /\ results'[10] = results[10]
    BY <1>1, <2>1
  <2> QED
    BY <2>1 DEF Listed
<1>3. WorldKept'
  BY WorldSame DEF IInv
<1>4. Phase'
  <2>1. Len(results') < 10 => Len(results) < 10
    BY <1>1
  <2> QED
    BY <2>1 DEF IInv, Phase
<1>5. PidsFrom' /\ MetaFrom'
  BY DEF IInv, PidsFrom, MetaFrom
<1>6. RowsFrom'
  BY DEF IInv, RowsFrom
<1>7. Covered' /\ ListEnded'
  BY <1>2 DEF IInv, Covered, ListEnded, Steady, HasRow, InList
<1> QED
  BY <1>3, <1>4, <1>5, <1>6, <1>7

\* A test of one file or directory, before the list.
LEMMA RunSimpleKeeps == IInv /\ RunSimple => IInv'
<1> SUFFICES ASSUME IInv, RunSimple PROVE IInv'
  OBVIOUS
<1> DEFINE n == Len(results)
<1>1. WorldKept /\ Returned /\ Summarised
  BY DEF IInv
<1>2. PICK test \in DOMAIN Simple : At(test) /\ Finish(Simple[test])
  BY DEF RunSimple
<1>3. UNCHANGED <<world, procs, past, pc, cursor, pids, failed, meta, rows, status>>
  BY DEF RunSimple, kernelVars, scanVars, listVars
<1>4. pc = "tests" /\ n \in 0..8 /\ test = Tests[n + 1]
  BY <1>1, <1>2, AtWhich
<1>5. n + 1 # 10 /\ n + 1 # 11 /\ n < 11 /\ n # 11
  <2>1. n \in 0..8
    BY <1>4
  <2>. HIDE DEF n
  <2> QED BY <2>1
<1>6. Returned' /\ Len(results') = n + 1
  <2>1. Simple[test] \in BOOLEAN
    BY <1>1, SimpleType DEF WorldKept
  <2>2. Simple[test] = Returns(n + 1)
    <3>. HIDE DEF n
    <3> QED BY <1>4, <1>5 DEF Returns
  <2> QED
    BY <1>1, <1>2, <1>3, <1>5, <2>1, <2>2, FinishReturns
<1>7. Len(results') >= n /\ Len(results') < 10
  <2>1. n \in 0..8 /\ Len(results') = n + 1
    BY <1>4, <1>6
  <2>. HIDE DEF n
  <2> QED BY <2>1
<1>8. Summarised'
  <2>1. status = -1
    BY <1>1, <1>5 DEF Summarised
  <2> QED
    BY <1>3, <2>1 DEF Summarised
<1> QED
  BY <1>3, <1>4, <1>6, <1>7, <1>8, Elsewhere DEF IInv

\* A step of the list but its end and its failure to begin: no test ends, and
\* no result can be read of the list yet.
LEMMA InsideList ==
  ASSUME IInv, Len(results) = 9, UNCHANGED <<world, results, status>>
  PROVE  /\ Returned' /\ Summarised' /\ ListEnded' /\ ~Listed' /\ Len(results') = 9
<1>1. ~Listed'
  <2>1. Len(results') = 9
    OBVIOUS
  <2>2. ~(9 >= 10)
    OBVIOUS
  <2> QED BY <2>1, <2>2, Zenon DEF Listed
<1> QED
  BY <1>1, SameWorld DEF IInv, Returned, Summarised, ListEnded

\* What a step that leaves the tables alone makes of the rest.
LEMMA StillSteady ==
  ASSUME past' = past, failed \subseteq failed', NEW p, Steady(p)'
  PROVE  Steady(p)
BY DEF Steady

\* The rows of a step that leaves the tables and the rows alone.
LEMMA StillRows ==
  ASSUME RowsFrom, UNCHANGED <<procs, past, rows>>, pids' \subseteq pids
  PROVE  RowsFrom'
BY DEF RowsFrom

\* The list begins with the scan, or fails.
LEMMA BeginListKeeps == IInv /\ BeginList => IInv'
<1> SUFFICES ASSUME IInv, BeginList PROVE IInv'
  OBVIOUS
<1>0. WorldKept /\ Phase /\ RowsFrom /\ Covered /\ Returned /\ Summarised
  BY DEF IInv
<1>1. UNCHANGED <<world, procs, past, pids, failed, meta, rows, skipped, status>>
  BY DEF BeginList, kernelVars, listVars
<1>2. pc = "tests" /\ Len(results) = 9
  BY <1>0, AtWhich DEF BeginList
<1>3. pids = {} /\ rows = <<>> /\ status = -1
  BY <1>0, <1>2 DEF Phase, Summarised
<1>4. WorldKept'
  BY <1>0, <1>1, WorldSame
<1>5. CASE /\ "/proc" \in world.listable
           /\ pc' = "readdir" /\ cursor' = 0 /\ UNCHANGED results
  <2>1. Returned' /\ Summarised' /\ ListEnded' /\ ~Listed' /\ Len(results') = 9
    BY <1>1, <1>2, <1>5, InsideList
  <2>2. Phase'
    BY <1>1, <1>3, <1>5, <2>1 DEF Phase
  <2>3. PidsFrom' /\ MetaFrom'
    BY <1>1, <1>3, <1>5 DEF PidsFrom, MetaFrom
  <2>4. RowsFrom'
    BY <1>0, <1>1, StillRows
  <2>5. Covered'
    <3>1. ASSUME NEW p \in DOMAIN procs, Steady(p)'
          PROVE  ~(p <= 0)
      <4>1. Admits(procs, p)
        BY <1>0, <1>1, <3>1, TablesType DEF Steady, WorldKept
      <4> QED
        BY <1>0, <4>1, TablesType DEF Admits
    <3> QED
      BY <1>1, <1>5, <2>1, <3>1 DEF Covered
  <2> QED
    BY <1>4, <2>1, <2>2, <2>3, <2>4, <2>5 DEF IInv
<1>6. CASE /\ "/proc" \notin world.listable
           /\ Finish(FALSE) /\ UNCHANGED <<pc, cursor>>
  <2>1. Returned' /\ Len(results') = 10 /\ results'[10] = FALSE
    <3>0. Len(results) < 11 /\ Len(results) + 1 = 10
      BY <1>2
    <3>1. FALSE = Returns(10)
      BY <1>6 DEF Returns
    <3> QED
      BY <1>0, <1>1, <1>6, <3>0, <3>1, FinishReturns
  <2>2. ~Listed'
    BY <2>1 DEF Listed
  <2>3. Phase'
    BY <1>0, <1>1, <1>2, <1>3, <1>6, <2>1 DEF Phase
  <2>4. PidsFrom' /\ MetaFrom'
    BY <1>1, <1>2, <1>3, <1>6 DEF PidsFrom, MetaFrom
  <2>5. RowsFrom'
    BY <1>0, <1>1, StillRows
  <2>6. Covered' /\ ListEnded'
    BY <1>2, <1>6, <2>2 DEF Covered, ListEnded
  <2>7. Summarised'
    BY <1>1, <1>3 DEF Summarised
  <2> QED
    BY <1>4, <2>1, <2>3, <2>4, <2>5, <2>6, <2>7 DEF IInv
<1> QED
  BY <1>5, <1>6 DEF BeginList

\* What the parts of the scan leave alone.
LEMMA Scans ==
  ASSUME IInv, pc \in {"readdir", "stat", "filter"},
         pc' \in {"readdir", "stat", "filter", "list"},
         UNCHANGED <<world, procs, past, results, meta, rows, status>>,
         PidsFrom', pids \subseteq pids'
  PROVE  /\ WorldKept' /\ MetaFrom' /\ RowsFrom' /\ ListEnded' /\ ~Listed'
         /\ Returned' /\ Summarised'
         /\ rows = <<>> /\ Len(results') = 9 /\ "/proc" \in world'.listable
<1>1. Len(results) = 9 /\ rows = <<>> /\ "/proc" \in world.listable
  <2>1. pc # "tests" /\ pc \notin {"list", "metrics"} /\ Phase
    BY DEF IInv
  <2>2. Len(results) = 9 /\ "/proc" \in world.listable
    BY <2>1 DEF Phase
  <2>3. Len(results) < 10
    BY <2>2
  <2> QED
    BY <2>1, <2>2, <2>3 DEF Phase
<1>2. Returned' /\ Summarised' /\ ListEnded' /\ ~Listed' /\ Len(results') = 9
  BY <1>1, InsideList
<1>3. WorldKept'
  BY WorldSame DEF IInv
<1>4. MetaFrom'
  BY DEF MetaFrom
<1>5. RowsFrom'
  <2>1. DOMAIN rows = {}
    BY <1>1
  <2> QED
    BY <2>1 DEF IInv, RowsFrom
<1> QED
  BY <1>1, <1>2, <1>3, <1>4, <1>5

\* The scan goes to the next entry.
LEMMA ReadDirKeeps == IInv /\ ReadDir => IInv'
<1> SUFFICES ASSUME IInv, ReadDir PROVE IInv'
  OBVIOUS
<1>0. WorldKept /\ Phase /\ PidsFrom /\ Covered
  BY DEF IInv
<1>1. /\ pc = "readdir" /\ pc' = "stat"
      /\ UNCHANGED <<world, procs, past, results, pids, failed, meta, rows, status>>
  BY DEF ReadDir, kernelVars, listVars
<1>2. PICK p \in Ahead : (\A q \in Ahead : p <= q) /\ cursor' = p
  BY DEF ReadDir
<1>3. PidsFrom'
  BY <1>0, <1>1 DEF PidsFrom
<1>4. /\ WorldKept' /\ MetaFrom' /\ RowsFrom' /\ ListEnded' /\ ~Listed' /\ Returned'
      /\ Summarised' /\ rows = <<>> /\ Len(results') = 9 /\ "/proc" \in world'.listable
  BY <1>1, <1>3, Scans
<1>5. p \in DOMAIN procs /\ p \in Nat
  BY <1>0, TablesType DEF Ahead, Present
<1>6. Phase'
  BY <1>1, <1>2, <1>4, <1>5 DEF Phase
<1>7. Covered'
  <2>1. ASSUME NEW q \in DOMAIN procs, Steady(q)', q < p PROVE q \in pids
    <3>1. Steady(q)
      BY <1>1, <2>1, StillSteady
    <3>2. procs[q].present
      BY <1>0, <3>1, TablesType DEF Steady, WorldKept, Admits
    <3>3. q \in Nat /\ cursor \in Nat
      BY <1>0, TablesType DEF Phase
    <3>4. ~(q > cursor)
      BY <1>2, <1>5, <2>1, <3>2, <3>3 DEF Ahead, Present
    <3>5. q <= cursor
      BY <3>3, <3>4
    <3> QED
      BY <1>0, <1>1, <3>1, <3>5 DEF Covered
  <2> QED
    BY <1>1, <1>2, <1>4, <2>1 DEF Covered
<1> QED
  BY <1>3, <1>4, <1>6, <1>7 DEF IInv

\* The scan ends; a pid that is still ahead is one readdir has failed for.
LEMMA EndOfDirKeeps == IInv /\ EndOfDir => IInv'
<1> SUFFICES ASSUME IInv, EndOfDir PROVE IInv'
  OBVIOUS
<1>0. WorldKept /\ Phase /\ PidsFrom /\ Covered
  BY DEF IInv
<1>1. /\ pc = "readdir" /\ pc' = "list" /\ failed' = failed \cup Ahead
      /\ UNCHANGED <<world, procs, past, results, cursor, pids, meta, rows, status>>
  BY DEF EndOfDir, kernelVars, listVars
<1>2. PidsFrom'
  BY <1>0, <1>1 DEF PidsFrom
<1>3. /\ WorldKept' /\ MetaFrom' /\ RowsFrom' /\ ListEnded' /\ ~Listed' /\ Returned'
      /\ Summarised' /\ rows = <<>> /\ Len(results') = 9 /\ "/proc" \in world'.listable
  BY <1>1, <1>2, Scans
<1>4. Phase'
  BY <1>0, <1>1, <1>3 DEF Phase
<1>5. Covered'
  <2>1. ASSUME NEW q \in DOMAIN procs, Steady(q)' PROVE q \in pids
    <3>1. Steady(q)
      BY <1>1, <2>1, StillSteady
    <3>2. procs[q].present
      BY <1>0, <3>1, TablesType DEF Steady, WorldKept, Admits
    <3>3. q \in Nat /\ cursor \in Nat
      BY <1>0, TablesType DEF Phase
    <3>4. q \notin Ahead
      BY <1>1, <2>1 DEF Steady
    <3>5. q <= cursor
      BY <3>2, <3>3, <3>4 DEF Ahead, Present
    <3> QED
      BY <1>0, <1>1, <3>1, <3>5 DEF Covered
  <2> QED
    BY <1>1, <2>1 DEF Covered
<1> QED
  BY <1>2, <1>3, <1>4, <1>5 DEF IInv

\* A pid the scan is done with: it is one to come, or not always there.
LEMMA ScannedCovers ==
  ASSUME Covered, Phase, WorldKept, pc \in {"stat", "filter"},
         UNCHANGED <<procs, past, cursor>>, pc' = "readdir", ~Listed',
         pids \subseteq pids', failed \subseteq failed',
         Steady(cursor)' => cursor \in pids'
  PROVE  Covered'
<1>1. ASSUME NEW q \in DOMAIN procs, Steady(q)', q <= cursor PROVE q \in pids'
  <2>1. Steady(q)
    BY <1>1, StillSteady
  <2>2. q \in Nat /\ cursor \in Nat
    BY TablesType DEF Phase
  <2>3. CASE q < cursor
    BY <2>1, <2>3 DEF Covered
  <2>4. CASE q = cursor
    BY <1>1, <2>4
  <2> QED
    BY <1>1, <2>2, <2>3, <2>4
<1> QED
  BY <1>1 DEF Covered

\* should_track looks for the directory of the process.
LEMMA StatKeeps == IInv /\ Stat => IInv'
<1> SUFFICES ASSUME IInv, Stat PROVE IInv'
  OBVIOUS
<1>0. WorldKept /\ Phase /\ PidsFrom /\ Covered
  BY DEF IInv
<1>1. /\ pc = "stat"
      /\ UNCHANGED <<world, procs, past, results, cursor, pids, meta, rows, status>>
  BY DEF Stat, kernelVars, listVars
<1>2. /\ pc' \in {"readdir", "filter"} /\ failed \subseteq failed'
      /\ pc' = "filter" => StatAllows(cursor)
      /\ pc' = "readdir" =>
           ~(cursor \in Present /\ StatAllows(cursor)) \/ cursor \in failed'
  BY DEF Stat, CallFails
<1>3. PidsFrom'
  BY <1>0, <1>1 DEF PidsFrom
<1>4. /\ WorldKept' /\ MetaFrom' /\ RowsFrom' /\ ListEnded' /\ ~Listed' /\ Returned'
      /\ Summarised' /\ rows = <<>> /\ Len(results') = 9 /\ "/proc" \in world'.listable
  BY <1>1, <1>2, <1>3, Scans
<1>5. Phase'
  BY <1>0, <1>1, <1>2, <1>4 DEF Phase, StatAllows
<1>6. Covered'
  <2>1. CASE pc' = "filter"
    <3>1. ASSUME NEW q \in DOMAIN procs, Steady(q)', q < cursor PROVE q \in pids
      BY <1>0, <1>1, <1>2, <3>1, StillSteady DEF Covered
    <3> QED
      BY <1>1, <1>4, <2>1, <3>1 DEF Covered
  <2>2. CASE pc' = "readdir"
    <3>1. ~Steady(cursor)'
      <4>1. SUFFICES ASSUME Steady(cursor)' PROVE FALSE
        OBVIOUS
      <4>2. Admits(procs, cursor) /\ cursor \notin failed'
        BY <1>0, <1>1, <4>1, TablesType DEF Steady, WorldKept
      <4>3. cursor \in Present /\ StatAllows(cursor)
        BY <1>0, <1>1, <4>2 DEF Phase, Present, Admits, StatAllows
      <4> QED
        BY <1>2, <2>2, <4>2, <4>3
    <3> QED
      BY <1>0, <1>1, <1>2, <1>4, <2>2, <3>1, ScannedCovers
  <2> QED
    BY <1>2, <2>1, <2>2
<1> QED
  BY <1>3, <1>4, <1>5, <1>6 DEF IInv

\* should_track reads the status file and decides.
LEMMA FilterKeeps == IInv /\ Filter => IInv'
<1> SUFFICES ASSUME IInv, Filter PROVE IInv'
  OBVIOUS
<1> DEFINE allowed == cursor \in Present /\ StatusAllows(cursor, Status(cursor))
<1>0. WorldKept /\ Phase /\ PidsFrom /\ Covered
  BY DEF IInv
<1>1. /\ pc = "filter" /\ pc' = "readdir"
      /\ UNCHANGED <<world, procs, past, results, cursor, meta, rows, status>>
  BY DEF Filter, kernelVars, listVars
<1>2. \/ allowed /\ pids' = pids \cup {cursor} /\ UNCHANGED failed
      \/ ~allowed /\ UNCHANGED <<pids, failed>>
      \/ cursor \in failed' /\ failed \subseteq failed' /\ UNCHANGED pids
  BY DEF Filter, CallFails
<1>3. cursor \in DOMAIN procs /\ cursor \in DOMAIN world.procs /\ StatAllows(cursor)
      /\ world \in Worlds /\ procs \in Tables
  BY <1>0, <1>1, TablesType DEF Phase, WorldKept
<1>4. allowed <=> Admits(procs, cursor)
  BY <1>3, Tracked DEF Present, Status
<1>5. PidsFrom'
  <2>1. allowed => \E a \in DOMAIN past : Admits(past[a], cursor)
    BY <1>0, <1>4, TablesType DEF WorldKept
  <2>. HIDE DEF allowed
  <2> QED
    BY <1>0, <1>1, <1>2, <1>3, <2>1 DEF PidsFrom
<1>. HIDE DEF allowed
<1>6. pids \subseteq pids' /\ failed \subseteq failed'
  BY <1>2
<1>7. /\ WorldKept' /\ MetaFrom' /\ RowsFrom' /\ ListEnded' /\ ~Listed' /\ Returned'
      /\ Summarised' /\ rows = <<>> /\ Len(results') = 9 /\ "/proc" \in world'.listable
  BY <1>1, <1>5, <1>6, Scans
<1>8. Phase'
  BY <1>0, <1>1, <1>7 DEF Phase
<1>9. Covered'
  <2>1. ASSUME Steady(cursor)' PROVE cursor \in pids'
    <3>1. Admits(procs, cursor) /\ cursor \notin failed'
      BY <1>0, <1>1, <2>1, TablesType DEF Steady, WorldKept
    <3> QED
      BY <1>2, <1>4, <3>1
  <2> QED
    BY <1>0, <1>1, <1>6, <1>7, <2>1, ScannedCovers
<1> QED
  BY <1>5, <1>7, <1>8, <1>9 DEF IInv

\* What a step inside the list's loop leaves alone.
LEMMA Loops ==
  ASSUME IInv, pc \in {"list", "metrics"}, pc' \in {"list", "metrics"},
         UNCHANGED <<world, procs, past, results, cursor, status>>, pids' \subseteq pids
  PROVE  /\ WorldKept' /\ Phase' /\ PidsFrom' /\ ListEnded' /\ Returned' /\ Summarised'
<1>1. Len(results) = 9 /\ "/proc" \in world.listable
  BY DEF IInv, Phase
<1>2. Returned' /\ Summarised' /\ ListEnded' /\ ~Listed' /\ Len(results') = 9
  BY <1>1, InsideList
<1>3. WorldKept'
  BY WorldSame DEF IInv
<1>4. Phase'
  BY <1>1, <1>2 DEF IInv, Phase
<1>5. PidsFrom'
  BY DEF IInv, PidsFrom
<1> QED
  BY <1>2, <1>3, <1>4, <1>5

\* A pid is passed over if it has not always been there.
LEMMA SkipKeeps ==
  ASSUME IInv, pc \in {"list", "metrics"}, InList, Skip,
         NEW gone, gone = First, ~Steady(gone)', failed \subseteq failed',
         UNCHANGED <<world, procs, past, results, cursor, rows, status>>
  PROVE  IInv'
<1>0. WorldKept /\ RowsFrom /\ Covered
  BY DEF IInv
<1>1. pids' = pids \ {gone} /\ pc' = "list"
  BY DEF Skip
<1>2. WorldKept' /\ Phase' /\ PidsFrom' /\ ListEnded' /\ Returned' /\ Summarised'
  BY <1>1, Loops
<1>3. MetaFrom'
  BY <1>1 DEF MetaFrom
<1>4. RowsFrom'
  BY <1>0, <1>1, StillRows
<1>5. Covered'
  <2>1. ASSUME NEW q \in DOMAIN procs, Steady(q)' PROVE q \in pids' \/ HasRow(q)
    <3>1. Steady(q) /\ q # gone
      BY <2>1, StillSteady
    <3> QED
      BY <1>0, <1>1, <3>1 DEF Covered
  <2> QED
    BY <1>1, <2>1 DEF Covered, HasRow
<1> QED
  BY <1>2, <1>3, <1>4, <1>5 DEF IInv

\* The first of the pids to come, in the current table.
LEMMA FirstKnown ==
  ASSUME IInv, InList
  PROVE  /\ First \in pids /\ First \in DOMAIN procs /\ \A q \in pids : First <= q
         /\ First \in DOMAIN world.procs /\ world \in Worlds
         /\ procs \in Tables /\ procs = past[Len(past)] /\ Len(past) \in DOMAIN past
         /\ world.kthreadLine \in BOOLEAN /\ procs[First] \in Process
<1>1. First \in pids /\ First \in DOMAIN procs /\ \A q \in pids : First <= q
  BY FirstType DEF IInv
<1>2. /\ First \in DOMAIN world.procs /\ world \in Worlds /\ procs \in Tables
      /\ procs = past[Len(past)] /\ Len(past) \in DOMAIN past
  BY <1>1, TablesType DEF IInv, WorldKept
<1> QED
  BY <1>1, <1>2, TableTypes

\* The list asks for the metadata of the next process.
LEMMA ListStatusKeeps == IInv /\ ListStatus => IInv'
<1> SUFFICES ASSUME IInv, ListStatus PROVE IInv'
  OBVIOUS
<1>p. PICK first : first = First
  OBVIOUS
<1> DEFINE readable == first \in Present /\ KvAccepts(TextOf(Status(first)))
<1>0. WorldKept /\ PidsFrom /\ RowsFrom /\ Covered
  BY DEF IInv
<1>1. /\ pc = "list" /\ InList
      /\ UNCHANGED <<world, procs, past, results, cursor, rows, status>>
  BY DEF ListStatus, kernelVars
<1>2. /\ first \in pids /\ first \in DOMAIN procs /\ first \in DOMAIN world.procs
      /\ world \in Worlds /\ procs \in Tables /\ procs = past[Len(past)]
      /\ Len(past) \in DOMAIN past /\ world.kthreadLine \in BOOLEAN
      /\ procs[first] \in Process
  BY <1>p, <1>1, FirstKnown
<1>3. \/ ~readable /\ Skip /\ UNCHANGED <<meta, failed>>
      \/ first \in failed' /\ failed \subseteq failed' /\ Skip /\ UNCHANGED meta
      \/ /\ readable
         /\ meta' = FetchStatusMeta(Status(first))
         /\ pc' = "metrics" /\ UNCHANGED <<pids, skipped, failed>>
  BY <1>p DEF ListStatus, CallFails
<1>4. ASSUME Steady(first)' PROVE readable /\ first \notin failed'
  <2>1. Admits(procs, first) /\ first \notin failed'
    BY <1>1, <1>2, <1>4 DEF Steady
  <2>2. KvAccepts(TextOf(Status(first)))
    BY <1>2, <2>1, StatusAccepted DEF Status, Admits
  <2> QED
    BY <1>2, <2>1, <2>2 DEF Present, Admits
<1>5. CASE (~readable \/ first \in failed') /\ Skip /\ failed \subseteq failed'
  <2>1. ~Steady(first)'
    BY <1>4, <1>5
  <2> QED
    BY <1>p, <1>1, <1>5, <2>1, SkipKeeps
<1>6. CASE /\ readable
           /\ meta' = FetchStatusMeta(Status(first))
           /\ pc' = "metrics" /\ UNCHANGED <<pids, skipped, failed>>
  <2>1. WorldKept' /\ Phase' /\ PidsFrom' /\ ListEnded' /\ Returned' /\ Summarised'
    BY <1>1, <1>6, Loops
  <2>2. RowsFrom'
    BY <1>0, <1>1, <1>6, StillRows
  <2>3. Covered'
    BY <1>0, <1>1, <1>6, StillSteady DEF Covered, HasRow, Listed
  <2>4. MetaFrom'
    <3>1. InList' /\ First' = first
      BY <1>p, <1>1, <1>6 DEF InList, First
    <3>2. MetaOf(procs, first, meta')
      <4>1. /\ Legible(procs[first])
            /\ FetchStatusMeta(Status(first)) =
                 [name |-> ShownName(procs[first]), ppid |-> procs[first].ppid,
                  thread_count |-> procs[first].threads]
        BY <1>2, <1>6, Fetched DEF Status
      <4>2. procs[first].present
        BY <1>6 DEF Present
      <4> QED BY <1>6, <4>1, <4>2 DEF MetaOf
    <3>3. PICK a \in DOMAIN past : Admits(past[a], first)
      BY <1>0, <1>2 DEF PidsFrom
    <3>4. a <= Len(past)
      BY <1>0, <3>3, TablesType
    <3>5. past' = past /\ Len(past) \in DOMAIN past
          /\ MetaOf(past[Len(past)], first, meta')
      BY <1>1, <1>2, <3>2
    <3> QED
      BY <3>1, <3>3, <3>4, <3>5 DEF MetaFrom
  <2> QED
    BY <2>1, <2>2, <2>3, <2>4 DEF IInv
<1> QED
  BY <1>3, <1>5, <1>6

\* A line with metadata and memory that were read is one of the list.
LEMMA NewRow ==
  ASSUME IInv, pc = "metrics", InList, NEW row, First \in Present,
         row = [pid |-> First, name |-> meta.name, ppid |-> meta.ppid,
                size |-> Kilobytes(procs[First].size),
                rss |-> Kilobytes(procs[First].resident),
                thread_count |-> meta.thread_count]
  PROVE  RowIn(past, row) /\ row.pid = First
<1>p. PICK first : first = First
  OBVIOUS
<1>1. PICK a, b \in DOMAIN past :
        a <= b /\ Admits(past[a], first) /\ MetaOf(past[b], first, meta)
  BY <1>p DEF IInv, MetaFrom
<1>2. /\ first \in DOMAIN procs /\ procs = past[Len(past)] /\ Len(past) \in DOMAIN past
  BY <1>p, FirstKnown
<1>3. b <= Len(past) /\ procs[first].present
  BY <1>p, <1>1, TablesType DEF IInv, Present
<1>4. row.pid = first /\ row.name = meta.name /\ row.ppid = meta.ppid
      /\ row.size = Kilobytes(procs[first].size)
      /\ row.rss = Kilobytes(procs[first].resident)
      /\ row.thread_count = meta.thread_count
  BY <1>p
<1>5. HasMeta(past[b], row)
  BY <1>1, <1>4 DEF HasMeta, MetaOf
<1>6. HasMemory(past[Len(past)], row)
  BY <1>2, <1>3, <1>4 DEF HasMemory
<1> QED
  BY <1>1, <1>2, <1>3, <1>4, <1>5, <1>6, <1>p DEF RowIn

\* A sequence of anything with one more element.
LEMMA OneMore ==
  ASSUME NEW S, NEW seq \in Seq(S), NEW e
  PROVE  /\ Append(seq, e) \in Seq(S \cup {e})
         /\ Len(seq) \in Nat /\ Len(Append(seq, e)) = Len(seq) + 1
         /\ DOMAIN seq = 1..Len(seq) /\ DOMAIN Append(seq, e) = 1..Len(seq) + 1
         /\ \A i \in 1..Len(seq) : Append(seq, e)[i] = seq[i]
         /\ Append(seq, e)[Len(seq) + 1] = e
         /\ \A i \in 1..Len(seq) : i \in 1..Len(seq) + 1
         /\ \A i \in 1..Len(seq) + 1 : i \in 1..Len(seq) \/ i = Len(seq) + 1
<1>1. seq \in Seq(S \cup {e}) /\ Len(seq) \in Nat /\ DOMAIN seq = 1..Len(seq)
  <2>1. Len(seq) \in Nat /\ DOMAIN seq = 1..Len(seq)
        /\ \A i \in 1..Len(seq) : seq[i] \in S
    BY LenProperties, ElementOfSeq
  <2> QED
    BY <2>1, SeqDef
<1>2. /\ Append(seq, e) \in Seq(S \cup {e}) /\ Len(Append(seq, e)) = Len(seq) + 1
      /\ \A i \in 1..Len(seq) : Append(seq, e)[i] = seq[i]
      /\ Append(seq, e)[Len(seq) + 1] = e
  BY <1>1, AppendProperties
<1>3. DOMAIN Append(seq, e) = 1..Len(seq) + 1
  BY <1>2, LenProperties
<1> DEFINE n == Len(seq)
<1>4. n \in Nat
  BY <1>1
<1>. HIDE DEF n
<1>5. /\ \A i \in 1..n : i \in 1..n + 1
      /\ \A i \in 1..n + 1 : i \in 1..n \/ i = n + 1
  BY <1>4
<1> QED
  BY <1>1, <1>2, <1>3, <1>5 DEF n

\* A line is added for the first of the pids.
LEMMA RowAdded ==
  ASSUME IInv, InList, NEW first, first = First, NEW row, RowIn(past, row), row.pid = first,
         rows' = Append(rows, row), pids' = pids \ {first},
         UNCHANGED <<procs, past>>
  PROVE  /\ RowsFrom' /\ HasRow(first)'
         /\ \A p : HasRow(p) => HasRow(p)'
<1> DEFINE n == Len(rows)
<1>0. RowsFrom
  BY DEF IInv
<1>1. PICK S : rows \in Seq(S)
  BY <1>0 DEF RowsFrom
<1>2. /\ rows' \in Seq(S \cup {row}) /\ n \in Nat /\ Len(rows') = n + 1
      /\ DOMAIN rows = 1..n /\ DOMAIN rows' = 1..n + 1
      /\ \A i \in 1..n : rows'[i] = rows[i]
      /\ rows'[n + 1] = row
      /\ \A i \in 1..n : i \in 1..n + 1
      /\ \A i \in 1..n + 1 : i \in 1..n \/ i = n + 1
  BY <1>1, OneMore
<1>3. /\ first \in pids /\ \A q \in pids : first <= q
      /\ pids \subseteq Nat /\ first \in DOMAIN procs
  BY FirstKnown, TablesType DEF IInv, PidsFrom
<1>4. n < Shown /\ Shown \in Nat
  BY WorldAssumption DEF InList
<1>. HIDE DEF n
<1>5. n + 1 <= Shown /\ n + 1 \in 1..n + 1
  BY <1>2, <1>4
<1>6. ASSUME NEW i \in DOMAIN rows'
      PROVE  rows'[i].pid \in DOMAIN procs /\ RowIn(past, rows'[i])
  <2>1. CASE i \in 1..n
    BY <1>0, <1>2, <2>1 DEF RowsFrom
  <2>2. CASE i = n + 1
    BY <1>2, <1>3, <2>2
  <2> QED
    BY <1>2, <2>1, <2>2
<1>7. ASSUME NEW i \in DOMAIN rows', NEW j \in DOMAIN rows', j < i
      PROVE  rows'[j].pid < rows'[i].pid
  <2>1. j \in 1..n
    BY <1>2, <1>7
  <2>2. CASE i \in 1..n
    BY <1>0, <1>2, <1>7, <2>1, <2>2 DEF RowsFrom
  <2>3. CASE i = n + 1
    BY <1>0, <1>2, <1>3, <2>1, <2>3 DEF RowsFrom
  <2> QED
    BY <1>2, <2>2, <2>3
<1>8. ASSUME NEW i \in DOMAIN rows', NEW p \in pids'
      PROVE  rows'[i].pid < p
  <2>1. CASE i \in 1..n
    BY <1>0, <1>2, <2>1 DEF RowsFrom
  <2>2. first < p
    <3>1. p \in pids /\ p # first /\ p \in Nat /\ first \in Nat /\ first <= p
      BY <1>3
    <3> QED
      BY <3>1
  <2>3. CASE i = n + 1
    BY <1>2, <2>2, <2>3
  <2> QED
    BY <1>2, <2>1, <2>3
<1>9. RowsFrom'
  BY <1>2, <1>5, <1>6, <1>7, <1>8 DEF RowsFrom
<1>10. HasRow(first)'
  <2>1. n + 1 \in DOMAIN rows' /\ rows'[n + 1].pid = first
    BY <1>2, <1>5
  <2> QED
    BY <2>1 DEF HasRow
<1>11. ASSUME NEW p, HasRow(p) PROVE HasRow(p)'
  <2>1. PICK i \in DOMAIN rows : rows[i].pid = p
    BY <1>11 DEF HasRow
  <2>2. i \in DOMAIN rows' /\ rows'[i].pid = p
    BY <1>2, <2>1
  <2> QED
    BY <2>2 DEF HasRow
<1> QED
  BY <1>9, <1>10, <1>11

\* It reads the process's memory, and displays a line.
LEMMA ListMetricsKeeps == IInv /\ ListMetrics => IInv'
<1> SUFFICES ASSUME IInv, ListMetrics PROVE IInv'
  OBVIOUS
<1>p. PICK first : first = First
  OBVIOUS
<1>r. PICK row : row = [pid |-> first, name |-> meta.name, ppid |-> meta.ppid,
                        size |-> Kilobytes(procs[first].size),
                        rss |-> Kilobytes(procs[first].resident),
                        thread_count |-> meta.thread_count]
  OBVIOUS
<1>0. WorldKept /\ Covered /\ MetaFrom
  BY DEF IInv
<1>1. /\ pc = "metrics" /\ InList
      /\ UNCHANGED <<world, procs, past, results, cursor, status>>
  BY <1>0 DEF ListMetrics, kernelVars, MetaFrom
<1>2. \/ first \notin Present /\ Skip /\ UNCHANGED <<rows, failed>>
      \/ first \in failed' /\ failed \subseteq failed' /\ Skip /\ UNCHANGED rows
      \/ /\ first \in Present
         /\ rows' = Append(rows, row)
         /\ pids' = pids \ {first} /\ pc' = "list" /\ UNCHANGED <<skipped, failed>>
  BY <1>p, <1>r DEF ListMetrics, CallFails
<1>3. /\ first \in pids /\ first \in DOMAIN procs /\ procs = past[Len(past)]
      /\ Len(past) \in DOMAIN past
  BY <1>p, <1>1, FirstKnown
<1>4. ASSUME Steady(first)' PROVE first \in Present /\ first \notin failed'
  <2>1. Admits(procs, first) /\ first \notin failed'
    BY <1>1, <1>3, <1>4 DEF Steady
  <2> QED
    BY <1>3, <2>1 DEF Present, Admits
<1>5. CASE /\ first \notin Present \/ first \in failed'
           /\ Skip /\ failed \subseteq failed' /\ UNCHANGED rows
  <2>1. ~Steady(first)'
    BY <1>4, <1>5
  <2> QED
    BY <1>p, <1>1, <1>5, <2>1, SkipKeeps
<1>6. CASE /\ first \in Present
           /\ rows' = Append(rows, row)
           /\ pids' = pids \ {first} /\ pc' = "list" /\ UNCHANGED <<skipped, failed>>
  <2>1. WorldKept' /\ Phase' /\ PidsFrom' /\ ListEnded' /\ Returned' /\ Summarised'
    BY <1>1, <1>6, Loops
  <2>2. RowIn(past, row) /\ row.pid = first
    BY <1>p, <1>r, <1>1, <1>6, NewRow
  <2>3. /\ RowsFrom' /\ HasRow(first)'
        /\ \A p : HasRow(p) => HasRow(p)'
    BY <1>p, <1>1, <1>6, <2>2, RowAdded
  <2>4. MetaFrom'
    BY <1>6 DEF MetaFrom
  <2>5. Covered'
    <3>1. ASSUME NEW q \in DOMAIN procs, Steady(q)' PROVE q \in pids' \/ HasRow(q)'
      <4>1. Steady(q)
        BY <1>1, <1>6, <3>1, StillSteady
      <4>2. q \in pids \/ HasRow(q)
        BY <1>0, <1>1, <4>1 DEF Covered
      <4> QED
        BY <1>6, <2>3, <4>2
    <3> QED
      BY <1>1, <1>6, <3>1 DEF Covered
  <2> QED
    BY <2>1, <2>3, <2>4, <2>5 DEF IInv
<1> QED
  BY <1>2, <1>5, <1>6

\* The list is full, or all pids are done.
LEMMA EndListKeeps == IInv /\ EndList => IInv'
<1> SUFFICES ASSUME IInv, EndList PROVE IInv'
  OBVIOUS
<1>0. WorldKept /\ Phase /\ PidsFrom /\ RowsFrom /\ Covered /\ Returned /\ Summarised
  BY DEF IInv
<1>1. /\ pc = "list" /\ ~InList /\ pc' = "tests" /\ Finish(TRUE)
      /\ UNCHANGED <<world, procs, past, cursor, pids, failed, meta, rows, status>>
  BY DEF EndList, kernelVars, scanVars, listVars
<1>2. Len(results) = 9 /\ "/proc" \in world.listable /\ status = -1
  BY <1>0, <1>1 DEF Phase, Summarised
<1>3. Returned' /\ Len(results') = 10
  <2>1. Len(results) < 11 /\ Len(results) + 1 = 10
    BY <1>2
  <2>2. TRUE = Returns(10)
    BY <1>2 DEF Returns
  <2> QED
    BY <1>0, <1>1, <2>1, <2>2, FinishReturns
<1>4. WorldKept'
  BY <1>0, <1>1, WorldSame
<1>5. Phase'
  BY <1>0, <1>1, <1>3 DEF Phase
<1>6. PidsFrom' /\ MetaFrom'
  BY <1>0, <1>1 DEF PidsFrom, MetaFrom
<1>7. RowsFrom'
  BY <1>0, <1>1, StillRows
<1>8. Covered' /\ ListEnded'
  <2>1. \A p : Steady(p)' => Steady(p)
    BY <1>1, StillSteady
  <2> QED
    BY <1>0, <1>1, <2>1 DEF Covered, HasRow, ListEnded, InList
<1>9. Summarised'
  BY <1>1, <1>2 DEF Summarised
<1> QED
  BY <1>3, <1>4, <1>5, <1>6, <1>7, <1>8, <1>9 DEF IInv

\* The last test.
LEMMA MonitorKeeps == IInv /\ Monitor => IInv'
<1> SUFFICES ASSUME IInv, Monitor PROVE IInv'
  OBVIOUS
<1>0. WorldKept /\ Returned /\ Summarised
  BY DEF IInv
<1>1. /\ Finish(TRUE)
      /\ UNCHANGED <<world, pc, procs, past, cursor, pids, failed, meta, rows, status>>
  BY DEF Monitor, kernelVars, scanVars, listVars
<1>2. pc = "tests" /\ Len(results) = 10
  BY <1>0, AtWhich DEF Monitor
<1>3. status = -1
  <2>1. Len(results) # 11
    BY <1>2
  <2> QED
    BY <1>0, <2>1 DEF Summarised
<1>4. Returned' /\ Len(results') = 11 /\ results'[10] = results[10]
  <2>1. Len(results) < 11 /\ Len(results) + 1 = 11 /\ 10 \in 1..Len(results)
    BY <1>2
  <2>2. TRUE = Returns(11)
    BY DEF Returns
  <2> QED
    BY <1>0, <1>1, <2>1, <2>2, FinishReturns
<1>5. Len(results') >= Len(results) /\ Len(results) >= 10
  BY <1>2, <1>4
<1>6. Summarised'
  BY <1>1, <1>3 DEF Summarised
<1> QED
  BY <1>1, <1>2, <1>4, <1>5, <1>6, Elsewhere DEF IInv

\* The exit status.
LEMMA SummaryKeeps == IInv /\ Summary => IInv'
<1> SUFFICES ASSUME IInv, Summary PROVE IInv'
  OBVIOUS
<1>1. /\ UNCHANGED <<world, results, pc, procs, past, cursor, pids, failed, meta, rows>>
      /\ Len(results) = 11
      /\ status' = IF \A i \in DOMAIN results : results[i] THEN 0 ELSE 1
  BY TestNumbers DEF Summary, kernelVars, scanVars, listVars
<1>2. Summarised' /\ Returned'
  BY <1>1, SameWorld DEF IInv, Summarised, Returned
<1>3. pc = "tests"
  BY <1>1 DEF IInv, Phase
<1>4. Len(results') >= Len(results) /\ Len(results) >= 10 /\ results'[10] = results[10]
  BY <1>1
<1> QED
  BY <1>1, <1>2, <1>3, <1>4, Elsewhere DEF IInv

\* What the kernel makes of its table is one again, and no process becomes a
\* thread of the kernel or stops being one.
LEMMA KernelTable ==
  ASSUME IInv, Kernel
  PROVE  \E t \in Tables :
           /\ KernelStep(t)
           /\ \A p \in DOMAIN procs :
                procs[p].present /\ t[p].present => t[p].kthread = procs[p].kthread
<1> DEFINE D == DOMAIN procs
           Good(t) == /\ KernelStep(t)
                      /\ \A p \in D : procs[p].present /\ t[p].present =>
                                        t[p].kthread = procs[p].kthread
<1>1. /\ procs \in Tables /\ D = DOMAIN world.procs /\ D \subseteq Nat
      /\ world \in Worlds
  BY TablesType DEF IInv, WorldKept
<1>2. procs \in [D -> Process] /\ Tables = {t \in [D -> Process] : ThreadsKnown(t)}
      /\ \A q \in D : procs[q].kthread => q = 2 \/ procs[q].ppid = 2
  BY <1>1 DEF Tables, ThreadsKnown
<1>3. \A prog \in Programs :
        /\ prog.comm \in Seq(Word) /\ prog.threads \in Nat
        /\ prog.size \in Nat /\ prog.resident \in Nat
  BY WorldAssumption
<1>4. PICK p \in D : Spawn(p) \/ Exec(p) \/ Exit(p) \/ Reap(p)
  BY DEF Kernel
<1>. HIDE DEF D
<1>5. \A t : t \in [D -> Process]
             /\ (\A q \in D : t[q].kthread => q = 2 \/ t[q].ppid = 2) => t \in Tables
  <2> SUFFICES ASSUME NEW t \in [D -> Process],
                      \A q \in D : t[q].kthread => q = 2 \/ t[q].ppid = 2
               PROVE  t \in Tables
    OBVIOUS
  <2> QED BY <1>2 DEF ThreadsKnown
<1>6. CASE Spawn(p)
  <2>1. PICK prog \in Programs, parent \in Running :
          KernelStep([procs EXCEPT ![p] =
            [present |-> TRUE, comm |-> prog.comm, ppid |-> parent,
             threads |-> prog.threads, zombie |-> FALSE, kthread |-> parent = 2,
             size |-> prog.size, resident |-> prog.resident]])
    BY <1>6 DEF Spawn
  <2> DEFINE new == [present |-> TRUE, comm |-> prog.comm, ppid |-> parent,
                     threads |-> prog.threads, zombie |-> FALSE,
                     kthread |-> parent = 2, size |-> prog.size,
                     resident |-> prog.resident]
             t == [procs EXCEPT ![p] = new]
  <2>2. parent \in Nat /\ ~procs[p].present
    BY <1>1, <1>4, <1>6 DEF Running, Present, Spawn, D
  <2>3. new \in Process /\ new.kthread => new.ppid = 2
    BY <1>3, <2>2 DEF Process
  <2>4. new \in Process
    BY <1>3, <2>2 DEF Process
  <2>. HIDE DEF new
  <2>5. t \in [D -> Process] /\ \A q \in D : t[q] = IF q = p THEN new ELSE procs[q]
    BY <1>2, <2>4
  <2>6. t \in Tables
    <3>1. \A q \in D : t[q].kthread => q = 2 \/ t[q].ppid = 2
      BY <1>2, <2>3, <2>4, <2>5
    <3>. HIDE DEF t
    <3> QED BY <1>5, <2>5, <3>1
  <2>7. Good(t)
    BY <2>1, <2>2, <2>5 DEF new
  <2>. HIDE DEF t
  <2> QED
    BY <2>6, <2>7 DEF D
<1>7. CASE Exec(p)
  <2>1. PICK prog \in Programs :
          KernelStep([procs EXCEPT ![p] =
            [procs[p] EXCEPT !.comm = prog.comm, !.threads = prog.threads,
                             !.size = prog.size, !.resident = prog.resident]])
    BY <1>7 DEF Exec
  <2> DEFINE new == [procs[p] EXCEPT !.comm = prog.comm, !.threads = prog.threads,
                                     !.size = prog.size, !.resident = prog.resident]
             t == [procs EXCEPT ![p] = new]
  <2>2. new \in Process /\ new.kthread = procs[p].kthread
        /\ new.ppid = procs[p].ppid
    BY <1>2, <1>3 DEF Process
  <2>. HIDE DEF new
  <2>3. t \in [D -> Process] /\ \A q \in D : t[q] = IF q = p THEN new ELSE procs[q]
    BY <1>2, <2>2
  <2>4. t \in Tables
    <3>1. \A q \in D : t[q].kthread => q = 2 \/ t[q].ppid = 2
      BY <1>2, <2>2, <2>3
    <3>. HIDE DEF t
    <3> QED BY <1>5, <2>3, <3>1
  <2>5. Good(t)
    BY <2>1, <2>2, <2>3 DEF new
  <2>. HIDE DEF t
  <2> QED
    BY <2>4, <2>5 DEF D
<1>8. CASE Exit(p)
  <2> DEFINE gone == [procs[p] EXCEPT !.zombie = TRUE, !.threads = 1, !.size = 0,
                                      !.resident = 0]
             t == [q \in D |-> IF q = p THEN gone
                               ELSE IF procs[q].ppid = p
                                    THEN [procs[q] EXCEPT !.ppid = 1]
                               ELSE procs[q]]
  <2>1. KernelStep(t) /\ p > 2
    BY <1>8 DEF Exit, D
  <2>2. gone \in Process /\ gone.kthread = procs[p].kthread /\ gone.ppid = procs[p].ppid
    BY <1>2 DEF Process
  <2>3. ASSUME NEW q \in D, procs[q].ppid = p
        PROVE  /\ [procs[q] EXCEPT !.ppid = 1] \in Process
               /\ [procs[q] EXCEPT !.ppid = 1].kthread = procs[q].kthread
               /\ procs[q].kthread => q = 2
    <3>1. procs[q] \in Process /\ 1 \in Nat
      BY <1>2
    <3>2. /\ [procs[q] EXCEPT !.ppid = 1] \in Process
          /\ [procs[q] EXCEPT !.ppid = 1].kthread = procs[q].kthread
      BY <3>1 DEF Process
    <3>3. procs[q].kthread => q = 2
      BY <1>2, <2>1, <2>3
    <3> QED
      BY <3>2, <3>3
  <2>. HIDE DEF gone
  <2>4. t \in [D -> Process]
    BY <1>2, <2>2, <2>3
  <2>5. \A q \in D : t[q].kthread = procs[q].kthread
    BY <2>2, <2>3
  <2>6. \A q \in D : t[q].kthread => q = 2 \/ t[q].ppid = 2
    BY <1>2, <2>2, <2>3
  <2>7. t \in Tables
    <3>. HIDE DEF t
    <3> QED BY <1>5, <2>4, <2>6
  <2>8. Good(t)
    <3>. HIDE DEF t
    <3> QED BY <2>1, <2>5
  <2>. HIDE DEF t
  <2> QED
    BY <2>7, <2>8 DEF D
<1>9. CASE Reap(p)
  <2> DEFINE new == [procs[p] EXCEPT !.present = FALSE]
             t == [procs EXCEPT ![p] = new]
  <2>1. KernelStep([procs EXCEPT ![p].present = FALSE])
    BY <1>9 DEF Reap
  <2>2. new \in Process /\ new.kthread = procs[p].kthread
        /\ new.ppid = procs[p].ppid
    BY <1>2 DEF Process
  <2>3. [procs EXCEPT ![p].present = FALSE] = t
    OBVIOUS
  <2>. HIDE DEF new
  <2>4. t \in [D -> Process] /\ \A q \in D : t[q] = IF q = p THEN new ELSE procs[q]
    BY <1>2, <2>2
  <2>5. t \in Tables
    <3>1. \A q \in D : t[q].kthread => q = 2 \/ t[q].ppid = 2
      BY <1>2, <2>2, <2>4
    <3>. HIDE DEF t
    <3> QED BY <1>5, <2>4, <3>1
  <2>6. Good(t)
    BY <2>1, <2>2, <2>3, <2>4
  <2>. HIDE DEF t
  <2> QED
    BY <2>5, <2>6 DEF D
<1> QED
  BY <1>4, <1>6, <1>7, <1>8, <1>9

\* The kernel changes its table while the list is made.
LEMMA KernelKeeps == IInv /\ Kernel => IInv'
<1> SUFFICES ASSUME IInv, Kernel PROVE IInv'
  OBVIOUS
<1> DEFINE n == Len(past)
<1>0. WorldKept /\ Phase /\ PidsFrom /\ MetaFrom /\ RowsFrom /\ Covered
  BY DEF IInv
<1>1. PICK t \in Tables :
        /\ KernelStep(t)
        /\ \A p \in DOMAIN procs :
             procs[p].present /\ t[p].present => t[p].kthread = procs[p].kthread
  BY KernelTable
<1>2. /\ pc # "tests" /\ procs' = t /\ past' = Append(past, t)
      /\ UNCHANGED <<world, results, pc, cursor, pids, failed, meta, rows, skipped,
                     status>>
  BY <1>1 DEF KernelStep, scanVars, listVars
<1>3. n \in Nat /\ n \in DOMAIN past /\ DOMAIN past = 1..n
      /\ procs = past[n] /\ DOMAIN procs = DOMAIN world.procs
      /\ past \in Seq(Tables)
  BY <1>0, TablesType DEF WorldKept
<1>4. /\ past' \in Seq(Tables) /\ Len(past') = n + 1 /\ DOMAIN past' = 1..n + 1
      /\ \A i \in 1..n : past'[i] = past[i] /\ i \in 1..n + 1
      /\ past'[n + 1] = t
      /\ \A i \in 1..n + 1 : i \in 1..n \/ i = n + 1
  <2>1. /\ Append(past, t) \in Seq(Tables) /\ Len(Append(past, t)) = n + 1
        /\ Append(past, t)[n + 1] = t
    BY <1>3, AppendProperties
  <2>2. /\ DOMAIN Append(past, t) = 1..n + 1
        /\ \A i \in 1..n : Append(past, t)[i] = past[i] /\ i \in 1..n + 1
        /\ \A i \in 1..n + 1 : i \in 1..n \/ i = n + 1
    BY <1>3, OneMore
  <2> QED
    BY <1>2, <2>1, <2>2
<1>. HIDE DEF n
<1>5. DOMAIN procs' = DOMAIN procs /\ n + 1 \in 1..n + 1
  BY <1>2, <1>3 DEF Tables
<1>6. \A i \in DOMAIN past : i \in DOMAIN past' /\ past'[i] = past[i]
  BY <1>3, <1>4
<1>7. WorldKept'
  <2>1. SameThreads'
    <3> SUFFICES ASSUME NEW p \in DOMAIN procs,
                        \A i \in 1..n + 1 : past'[i][p].present
                 PROVE  \A i, j \in 1..n + 1 :
                          past'[i][p].kthread = past'[j][p].kthread
      BY <1>4, <1>5 DEF SameThreads
    <3>1. \A i \in DOMAIN past : past[i][p].present
      BY <1>3, <1>4
    <3>2. \A i, j \in DOMAIN past : past[i][p].kthread = past[j][p].kthread
      BY <1>0, <3>1 DEF WorldKept, SameThreads
    <3>3. procs[p].present /\ t[p].present
      BY <1>3, <1>4, <1>5, <3>1
    <3>4. t[p].kthread = past[n][p].kthread
      BY <1>1, <1>3, <3>3
    <3> QED
      BY <1>3, <1>4, <3>2, <3>4
  <2>2. past' # <<>> /\ procs' = past'[Len(past')]
    BY <1>2, <1>4, <1>5
  <2> QED
    BY <1>0, <1>2, <1>4, <2>1, <2>2, SameWorld DEF WorldKept
<1>8. Phase'
  BY <1>0, <1>2, <1>5 DEF Phase, StatAllows
<1>9. PidsFrom'
  BY <1>0, <1>2, <1>5, <1>6 DEF PidsFrom
<1>10. MetaFrom'
  <2>1. First' = First /\ InList' = InList /\ meta' = meta /\ pc' = pc
    BY <1>2 DEF First, InList
  <2>2. PICK first : first = First
    OBVIOUS
  <2>3. ASSUME pc = "metrics" PROVE MetaFrom'
    <3>1. PICK a, b \in DOMAIN past :
            a <= b /\ Admits(past[a], first) /\ MetaOf(past[b], first, meta)
      BY <1>0, <2>2, <2>3 DEF MetaFrom
    <3>2. /\ a \in DOMAIN past' /\ b \in DOMAIN past'
          /\ Admits(past'[a], first) /\ MetaOf(past'[b], first, meta)
      BY <1>6, <3>1
    <3>3. InList
      BY <1>0, <2>3 DEF MetaFrom
    <3> QED
      BY <2>1, <2>2, <3>1, <3>2, <3>3 DEF MetaFrom
  <2> QED
    BY <2>1, <2>3 DEF MetaFrom
<1>11. RowsFrom'
  <2>1. ASSUME NEW r, RowIn(past, r) PROVE RowIn(past', r)
    <3>1. PICK a, b, c \in DOMAIN past :
            /\ a <= b /\ b <= c
            /\ Admits(past[a], r.pid) /\ HasMeta(past[b], r) /\ HasMemory(past[c], r)
      BY <2>1 DEF RowIn
    <3>2. /\ Admits(past'[a], r.pid) /\ HasMeta(past'[b], r) /\ HasMemory(past'[c], r)
          /\ a \in DOMAIN past' /\ b \in DOMAIN past' /\ c \in DOMAIN past'
      BY <1>6, <3>1
    <3> QED
      BY <3>1, <3>2 DEF RowIn
  <2>2. \A i \in DOMAIN rows : RowIn(past', rows[i])
    BY <1>0, <2>1 DEF RowsFrom
  <2> QED
    BY <1>0, <1>2, <1>5, <2>2 DEF RowsFrom
<1>12. Covered'
  <2>1. ASSUME NEW p, Steady(p)' PROVE Steady(p)
    BY <1>2, <1>6, <2>1 DEF Steady
  <2> QED
    BY <1>0, <1>2, <1>5, <2>1 DEF Covered, HasRow, Listed
<1>13. ListEnded' /\ Returned' /\ Summarised'
  <2>1. Len(results) = 9
    BY <1>0, <1>2 DEF Phase
  <2> QED
    BY <1>2, <2>1, InsideList
<1> QED
  BY <1>7, <1>8, <1>9, <1>10, <1>11, <1>12, <1>13 DEF IInv

\* The invariant holds in every state.
THEOREM Inductive == Spec => []IInv
<1>1. Init => IInv
  <2> SUFFICES ASSUME Init PROVE IInv
    OBVIOUS
  <2>1. /\ world \in Worlds /\ procs = world.procs /\ past = <<procs>> /\ results = <<>>
        /\ pc = "tests" /\ status = -1 /\ cursor = 0 /\ pids = {} /\ rows = <<>>
    BY DEF Init
  <2>2. Len(results) = 0 /\ DOMAIN results = {}
    BY <2>1
  <2>3. ~Listed
    BY <2>2 DEF Listed
  <2>4. WorldKept
    <3>1. procs \in Tables
      BY <2>1, WorldAssumption DEF Tables
    <3>2. past \in Seq(Tables) /\ past # <<>> /\ Len(past) = 1 /\ past[1] = procs
          /\ DOMAIN past = {1}
      BY <2>1, <3>1
    <3> QED
      BY <2>1, <3>2 DEF WorldKept, SameThreads
  <2>5. Phase
    BY <2>1, <2>2 DEF Phase
  <2>6. PidsFrom /\ MetaFrom /\ RowsFrom
    BY <2>1, <2>4, NoList
  <2>7. Covered
    BY <2>1, <2>3 DEF Covered
  <2>8. Returned /\ Summarised
    BY <2>1, <2>2 DEF Returned, Summarised
  <2> QED
    BY <2>3, <2>4, <2>5, <2>6, <2>7, <2>8 DEF IInv, ListEnded
<1>2. IInv /\ [Next]_vars => IInv'
  <2> SUFFICES ASSUME IInv, [Next]_vars PROVE IInv'
    OBVIOUS
  <2>1. CASE UNCHANGED vars
    <3>1. UNCHANGED <<world, procs, past, results, pc, cursor, pids, failed, meta, rows,
                      status>>
      BY <2>1 DEF vars, kernelVars, scanVars, listVars
    <3>2. WorldKept' /\ Returned' /\ Summarised'
      BY <3>1, WorldSame, SameWorld DEF IInv, Returned, Summarised
    <3>3. Phase' /\ PidsFrom' /\ Covered' /\ ListEnded'
      BY <3>1 DEF IInv, Phase, PidsFrom, Covered, Steady, HasRow, Listed, ListEnded,
                  InList
    <3>4. MetaFrom' /\ RowsFrom'
      BY <3>1 DEF IInv, MetaFrom, First, InList, RowsFrom
    <3> QED
      BY <3>2, <3>3, <3>4 DEF IInv
  <2> QED
    BY <2>1, RunSimpleKeeps, BeginListKeeps, ReadDirKeeps, EndOfDirKeeps, StatKeeps,
       FilterKeeps, ListStatusKeeps, ListMetricsKeeps, EndListKeeps, MonitorKeeps,
       SummaryKeeps, KernelKeeps DEF Next, List
<1> QED
  BY <1>1, <1>2, PTL DEF Spec

-----------------------------------------------------------------------------
(* What the invariant says of the list.                                    *)

\* test_process_list: each line is made of three looks at /proc in their
\* order, no line is of a thread of the kernel unless its pid was reused, and
\* the lines come in the order of pids.
THEOREM RowsCorrect == Spec => []RowsTrue
<1>1. IInv => RowsTrue
  <2> SUFFICES ASSUME IInv PROVE RowsTrue
    OBVIOUS
  <2>1. RowsFrom /\ WorldKept
    BY DEF IInv
  <2>2. DOMAIN rows = 1..Len(rows) /\ Len(rows) \in Nat
    BY <2>1, LenProperties DEF RowsFrom
  <2>3. ASSUME NEW i \in DOMAIN rows
        PROVE  LET p == rows[i].pid IN
               /\ \E a, b, c \in DOMAIN past :
                    /\ a <= b /\ b <= c
                    /\ Admits(past[a], p) /\ HasMeta(past[b], rows[i])
                    /\ HasMemory(past[c], rows[i])
               /\ (\A n \in DOMAIN past : past[n][p].present) =>
                    \A n \in DOMAIN past : ~past[n][p].kthread
               /\ \A j \in 1..i - 1 : rows[j].pid < rows[i].pid
    <3> DEFINE p == rows[i].pid
    <3>1. p \in DOMAIN procs /\ RowIn(past, rows[i])
      BY <2>1 DEF RowsFrom
    <3>2. p \in DOMAIN procs /\ \E a \in DOMAIN past : Admits(past[a], p)
      BY <3>1 DEF RowIn
    <3>3. ASSUME \A n \in DOMAIN past : past[n][p].present, NEW n \in DOMAIN past
          PROVE  ~past[n][p].kthread
      <4>1. PICK a \in DOMAIN past : ~past[a][p].kthread
        BY <3>2 DEF Admits
      <4>2. past[n][p].kthread = past[a][p].kthread
        <5>. HIDE DEF p
        <5> QED BY <2>1, <3>2, <3>3 DEF WorldKept, SameThreads
      <4> QED
        BY <4>1, <4>2
    <3>4. ASSUME NEW j \in 1..i - 1 PROVE rows[j].pid < rows[i].pid
      <4>1. j \in DOMAIN rows /\ j < i
        BY <2>2
      <4> QED BY <2>1, <4>1 DEF RowsFrom
    <3>5. \E a, b, c \in DOMAIN past :
            /\ a <= b /\ b <= c
            /\ Admits(past[a], p) /\ HasMeta(past[b], rows[i])
            /\ HasMemory(past[c], rows[i])
      BY <3>1 DEF RowIn
    <3>. HIDE DEF p
    <3> QED
      BY <3>3, <3>4, <3>5 DEF p
  <2> QED
    BY <2>1, <2>3 DEF RowsTrue, RowsFrom
<1> QED
  BY <1>1, Inductive, PTL

\* test_process_list: a process the filter would admit all the time, and for
\* which no call fails, has its line, or the list is full before it.
THEOREM RowsAll == Spec => []RowsComplete
<1>1. IInv => RowsComplete
  <2> SUFFICES ASSUME IInv, Listed, NEW p \in DOMAIN procs, Steady(p)
               PROVE  \/ \E i \in DOMAIN rows : rows[i].pid = p
                      \/ Len(rows) = Shown /\ rows[Shown].pid < p
    BY DEF RowsComplete, Listed, Steady
  <2>1. RowsFrom /\ Covered /\ ListEnded
    BY DEF IInv
  <2>2. CASE p \in pids
    <3>1. Len(rows) \in Nat /\ Len(rows) <= Shown /\ ~(Len(rows) < Shown)
      BY <2>1, <2>2, LenProperties DEF RowsFrom, ListEnded, InList
    <3>2. Shown \in Nat \ {0}
      BY WorldAssumption
    <3>3. Len(rows) = Shown /\ Shown \in DOMAIN rows
      <4>1. Len(rows) = Shown
        BY <3>1, <3>2
      <4>2. DOMAIN rows = 1..Len(rows)
        BY <2>1, LenProperties DEF RowsFrom
      <4>3. Shown \in 1..Shown
        BY <3>2
      <4> QED BY <4>1, <4>2, <4>3
    <3> QED
      BY <2>1, <2>2, <3>3 DEF RowsFrom
  <2> QED
    BY <2>1, <2>2 DEF Covered, HasRow
<1> QED
  BY <1>1, Inductive, PTL

-----------------------------------------------------------------------------
(* What it says of the exit status.                                        *)

\* The grammars match what create_test_files writes, and not the text that is
\* no statm line.
LEMMA WrittenAccepted ==
  /\ StatmAccepts(Written.statm_data) /\ MapsAccepts(Written.maps_data)
  /\ SmapsAccepts(Written.smaps_data) /\ ~StatmAccepts(Written.invalid_statm)
<1>1. /\ Written.statm_data = <<Plain("statm")>>
      /\ Written.maps_data = <<Plain("header"), Plain("header")>>
      /\ Written.smaps_data =
           <<Plain("header"), Plain("metric"), Plain("metric"), Plain("metric"),
             Plain("metric"), Plain("blank"), Plain("header"), Plain("metric")>>
      /\ Written.invalid_statm = <<Plain("text")>>
  BY DEF Written
<1>2. \A kind : /\ Plain(kind).kind = kind /\ Plain(kind).plain
                /\ Plain(kind).newline
  BY DEF Plain
<1>. HIDE DEF Plain
<1>3. StatmAccepts(Written.statm_data) /\ ~StatmAccepts(Written.invalid_statm)
  BY <1>1, <1>2 DEF StatmAccepts
<1>4. MapsAccepts(Written.maps_data)
  BY <1>1, <1>2 DEF MapsAccepts, IsMapping
<1>5. SmapsAccepts(Written.smaps_data)
  <2> DEFINE t == Written.smaps_data
  <2>1. /\ DOMAIN t = 1..8 /\ Len(t) = 8 /\ t # <<>>
        /\ t[1] = Plain("header") /\ t[2] = Plain("metric") /\ t[3] = Plain("metric")
        /\ t[4] = Plain("metric") /\ t[5] = Plain("metric") /\ t[6] = Plain("blank")
        /\ t[7] = Plain("header") /\ t[8] = Plain("metric")
    BY <1>1
  <2>. HIDE DEF t
  <2>2. \A i \in 1..8 : t[i].newline
    BY <1>2, <2>1
  <2>3. ASSUME NEW i \in 1..8
        PROVE  \/ t[i].kind = "blank"
               \/ IsMapping(t[i]) /\ i < 8 /\ IsKeyed(t[i + 1])
               \/ IsKeyed(t[i]) /\ i > 1 /\ t[i - 1].kind # "blank"
    <3>1. i = 1 \/ i = 2 \/ i = 3 \/ i = 4 \/ i = 5 \/ i = 6 \/ i = 7 \/ i = 8
      OBVIOUS
    <3> QED
      BY <1>2, <2>1, <3>1 DEF IsMapping, IsKeyed
  <2> QED
    BY <2>1, <2>2, <2>3 DEF SmapsAccepts, t
<1> QED
  BY <1>3, <1>4, <1>5

\* What the tests of a scraper make of a file.
LEMMA ScrapeFileOk ==
  ASSUME NEW file, NEW matches
  PROVE  ScrapeFile(file, matches) = "ok" <=> Readable(file) /\ matches
BY DEF ScrapeFile, Readable

\* What the simple tests return, one by one.
LEMMA SimpleValues ==
  LET files == world.files
  IN /\ Simple["read_all"] <=> Readable(files.sample)
     /\ Simple["read_lines"] <=> Readable(files.sample)
     /\ Simple["enumerate_directory"] <=> "test_data" \in world.listable
     /\ Simple["error_handling"] <=> ~files.nonexistent.opens
     /\ Simple["statm_scraper"] <=>
          Readable(files.statm_data) /\ StatmAccepts(files.statm_data.text)
     /\ Simple["maps_scraper"] <=>
          Readable(files.maps_data) /\ MapsAccepts(files.maps_data.text)
     /\ Simple["smaps_scraper"] <=>
          Readable(files.smaps_data) /\ SmapsAccepts(files.smaps_data.text)
     /\ Simple["scraper_error_handling"] <=>
          ~(/\ Readable(files.invalid_statm)
            /\ StatmAccepts(files.invalid_statm.text))
     /\ Simple["pid_scanner"] <=> "/proc" \in world.listable
<1> DEFINE files == world.files
<1>1. (Simple["read_all"] <=> Readable(files.sample))
      /\ (Simple["read_lines"] <=> Readable(files.sample))
  BY SimpleIs DEF FileTests, Readable
<1>2. Simple["enumerate_directory"] <=> "test_data" \in world.listable
  BY SimpleIs DEF FileTests
<1>3. Simple["error_handling"] <=> ~files.nonexistent.opens
  BY SimpleIs DEF FileTests
<1>4. Simple["statm_scraper"] <=>
        ScrapeFile(files.statm_data, StatmAccepts(files.statm_data.text)) = "ok"
  BY SimpleIs DEF ScraperTests
<1>5. Simple["maps_scraper"] <=>
        ScrapeFile(files.maps_data, MapsAccepts(files.maps_data.text)) = "ok"
  BY SimpleIs DEF ScraperTests
<1>6. Simple["smaps_scraper"] <=>
        ScrapeFile(files.smaps_data, SmapsAccepts(files.smaps_data.text)) = "ok"
  BY SimpleIs DEF ScraperTests
<1>7. Simple["scraper_error_handling"] <=>
        ScrapeFile(files.invalid_statm, StatmAccepts(files.invalid_statm.text)) # "ok"
  BY SimpleIs DEF ScraperTests
<1>8. Simple["pid_scanner"] <=> "/proc" \in world.listable
  BY SimpleIs DEF ScraperTests
<1> QED
  BY <1>1, <1>2, <1>3, <1>4, <1>5, <1>6, <1>7, <1>8, ScrapeFileOk

\* Returns of the tests, by their numbers.
LEMMA ReturnsOf ==
  /\ Returns(1) = Simple["read_all"] /\ Returns(2) = Simple["read_lines"]
  /\ Returns(3) = Simple["enumerate_directory"]
  /\ Returns(4) = Simple["error_handling"] /\ Returns(5) = Simple["statm_scraper"]
  /\ Returns(6) = Simple["maps_scraper"] /\ Returns(7) = Simple["smaps_scraper"]
  /\ Returns(8) = Simple["scraper_error_handling"]
  /\ Returns(9) = Simple["pid_scanner"]
  /\ Returns(10) = ("/proc" \in world.listable) /\ Returns(11) = TRUE
BY DEF Returns, Tests

\* main: the exit status is 1 only if something is wrong, and 0 only if each
\* file was read to its end and the statm and smaps files were not empty.
THEOREM ExitCorrect == Spec => []ExitTellsTruth
<1>1. IInv => ExitTellsTruth
  <2> SUFFICES ASSUME IInv PROVE ExitTellsTruth
    OBVIOUS
  <2>1. WorldKept /\ Returned /\ Summarised
    BY DEF IInv
  <2>2. ASSUME status # -1
        PROVE  DOMAIN results = 1..11 /\ \A i \in 1..11 : results[i] = Returns(i)
    BY <2>1, <2>2, LenProperties DEF Returned, Summarised
  <2>3. ASSUME Intact PROVE \A i \in 1..11 : Returns(i)
    <3> DEFINE files == world.files
    <3>1. /\ Readable(files.sample)
          /\ Readable(files.statm_data) /\ files.statm_data.text = Written.statm_data
          /\ Readable(files.maps_data) /\ files.maps_data.text = Written.maps_data
          /\ Readable(files.smaps_data) /\ files.smaps_data.text = Written.smaps_data
          /\ files.invalid_statm.text = Written.invalid_statm
          /\ ~files.nonexistent.opens /\ world.listable = {"test_data", "/proc"}
      BY <2>3 DEF Intact, FileName, Written
    <3>2. /\ Simple["read_all"] /\ Simple["read_lines"]
          /\ Simple["enumerate_directory"] /\ Simple["error_handling"]
          /\ Simple["statm_scraper"] /\ Simple["maps_scraper"]
          /\ Simple["smaps_scraper"] /\ Simple["scraper_error_handling"]
          /\ Simple["pid_scanner"]
      BY <3>1, SimpleValues, WrittenAccepted
    <3>3. "/proc" \in world.listable
      BY <3>1
    <3>4. /\ Returns(1) /\ Returns(2) /\ Returns(3) /\ Returns(4) /\ Returns(5)
          /\ Returns(6) /\ Returns(7) /\ Returns(8) /\ Returns(9) /\ Returns(10)
          /\ Returns(11)
      BY <3>2, <3>3, ReturnsOf
    <3>5. \A i \in 1..11 : i = 1 \/ i = 2 \/ i = 3 \/ i = 4 \/ i = 5 \/ i = 6
                           \/ i = 7 \/ i = 8 \/ i = 9 \/ i = 10 \/ i = 11
      OBVIOUS
    <3> QED
      BY <3>4, <3>5
  <2>4. status = 1 => ~Intact
    BY <2>1, <2>2, <2>3 DEF Summarised
  <2>5. ASSUME status = 0
        PROVE  /\ Readable(world.files.sample)
               /\ world.listable = {"test_data", "/proc"}
               /\ \A name \in {"statm_data", "maps_data", "smaps_data"} :
                    /\ Readable(world.files[name])
                    /\ world.files[name].text # <<>> \/ name = "maps_data"
    <3>1. \A i \in 1..11 : Returns(i)
      BY <2>1, <2>2, <2>5 DEF Summarised
    <3>2. /\ Simple["read_all"] /\ Simple["enumerate_directory"]
          /\ Simple["statm_scraper"] /\ Simple["maps_scraper"]
          /\ Simple["smaps_scraper"] /\ Simple["pid_scanner"]
      BY <3>1, ReturnsOf
    <3>3. world.listable \subseteq {"test_data", "/proc"}
      BY <2>1, WorldAssumption DEF WorldKept
    <3>4. /\ Readable(world.files.sample) /\ Readable(world.files.statm_data)
          /\ Readable(world.files.maps_data) /\ Readable(world.files.smaps_data)
          /\ StatmAccepts(world.files.statm_data.text)
          /\ SmapsAccepts(world.files.smaps_data.text)
          /\ "test_data" \in world.listable /\ "/proc" \in world.listable
      BY <3>2, SimpleValues
    <3>5. world.files.statm_data.text # <<>> /\ world.files.smaps_data.text # <<>>
      <4>1. ASSUME NEW text, StatmAccepts(text) PROVE text # <<>>
        <5>1. 1 \in DOMAIN text
          BY <4>1 DEF StatmAccepts
        <5> QED BY <5>1
      <4>2. ASSUME NEW text, SmapsAccepts(text) PROVE text # <<>>
        BY <4>2 DEF SmapsAccepts
      <4> QED BY <3>4, <4>1, <4>2
    <3> QED
      BY <3>3, <3>4, <3>5
  <2> QED
    BY <2>4, <2>5 DEF ExitTellsTruth
<1> QED
  BY <1>1, Inductive, PTL

-----------------------------------------------------------------------------
(* The forest of a list.                                                   *)

\* The lists build is given: no two processes have the same pid, none has 0.
Proper(flat) ==
  /\ Len(flat) \in Nat /\ DOMAIN flat = 1..Len(flat)
  /\ \A i, j \in DOMAIN flat : flat[i].pid = flat[j].pid => i = j
  /\ \A i \in DOMAIN flat : flat[i].pid # 0

\* A process with one pid less of its parents' calls to come.
Layer(flat, frames, b) ==
  [info \in Members(flat) |->
     LET infos == Children(flat, info.pid)
     IN IF frames = 0 THEN Overflow
        ELSE [info |-> info,
              children |-> [i \in DOMAIN infos |-> b[frames - 1][infos[i]]]]]

LayersTo(flat, b, n) == b = [frames \in 0..n |-> Layer(flat, frames, b)]

\* There is a function such as the one that defines build_node.
LEMMA LayersExist ==
  ASSUME NEW flat, NEW n \in Nat
  PROVE  \E b : LayersTo(flat, b, n)
<1> DEFINE S == {m \in Nat : \E b : LayersTo(flat, b, m)}
<1>1. 0 \in S
  <2> DEFINE b == [frames \in 0..0 |-> Layer(flat, 0, flat)]
  <2>1. Layer(flat, 0, b) = Layer(flat, 0, flat)
    BY DEF Layer
  <2>2. b = [frames \in 0..0 |-> Layer(flat, frames, b)]
    <3>1. \A frames \in 0..0 : frames = 0
      OBVIOUS
    <3> QED BY <2>1, <3>1
  <2>. HIDE DEF b
  <2>3. LayersTo(flat, b, 0)
    BY <2>2 DEF LayersTo
  <2> QED BY <2>3
<1>2. ASSUME NEW m \in Nat, m \in S PROVE m + 1 \in S
  <2>1. PICK b : LayersTo(flat, b, m)
    BY <1>2
  <2>2. \A frames \in 0..m : b[frames] = Layer(flat, frames, b)
    BY <2>1 DEF LayersTo
  <2> DEFINE c == [frames \in 0..m + 1 |->
                     IF frames = m + 1 THEN Layer(flat, frames, b) ELSE b[frames]]
  <2>3. /\ c[m + 1] = Layer(flat, m + 1, b) /\ DOMAIN c = 0..m + 1
        /\ \A frames \in 0..m : c[frames] = b[frames]
    <3>1. \A frames \in 0..m : frames \in 0..m + 1 /\ frames # m + 1
      OBVIOUS
    <3>2. m + 1 \in 0..m + 1
      OBVIOUS
    <3> QED BY <3>1, <3>2
  <2>4. c = [frames \in 0..m + 1 |-> c[frames]]
    BY <2>3
  <2>. HIDE DEF c
  <2>5. ASSUME NEW frames \in 0..m + 1 PROVE Layer(flat, frames, b) = Layer(flat, frames, c)
    <3>1. CASE frames = 0
      BY <3>1 DEF Layer
    <3>2. CASE frames # 0
      <4>1. frames - 1 \in 0..m
        BY <3>2
      <4>2. c[frames - 1] = b[frames - 1]
        BY <2>3, <4>1
      <4> QED BY <3>2, <4>2 DEF Layer
    <3> QED BY <3>1, <3>2
  <2>6. ASSUME NEW frames \in 0..m + 1 PROVE c[frames] = Layer(flat, frames, c)
    <3>1. frames \in 0..m \/ frames = m + 1
      OBVIOUS
    <3> QED BY <2>2, <2>3, <2>5, <3>1
  <2>7. LayersTo(flat, c, m + 1)
    BY <2>4, <2>6 DEF LayersTo
  <2> QED BY <2>7
<1>3. Nat \subseteq S
  <2>. HIDE DEF S
  <2> QED BY <1>1, <1>2, NatSet
<1> QED BY <1>3

\* build_node of a process.
LEMMA BuildNode ==
  ASSUME NEW flat, NEW frames \in 0..StackFrames, NEW p \in Members(flat)
  PROVE  LET infos == Children(flat, p.pid) IN
         BuildNodes(flat)[frames][p] =
           IF frames = 0 THEN Overflow
           ELSE [info |-> p,
                 children |-> [i \in DOMAIN infos |->
                                 BuildNodes(flat)[frames - 1][infos[i]]]]
<1>1. PICK b : LayersTo(flat, b, StackFrames)
  BY LayersExist, TreeAssumption
<1>2. LayersTo(flat, BuildNodes(flat), StackFrames)
  BY <1>1 DEF LayersTo, Layer, BuildNodes
<1> DEFINE c == BuildNodes(flat)
<1>. HIDE DEF c
<1>3. c[frames][p] = Layer(flat, frames, c)[p]
  BY <1>2 DEF LayersTo, c
<1> QED
  BY <1>3 DEF Layer, c

-----------------------------------------------------------------------------
LevelsTo(forest, level, n) ==
  level = [depth \in 0..n |->
             IF depth = 0 THEN Members(forest)
             ELSE UNION {Members(node.children) : node \in level[depth - 1]}]

\* There is a function such as the one that defines the levels.
LEMMA LevelsExist ==
  ASSUME NEW forest, NEW n \in Nat
  PROVE  \E level : LevelsTo(forest, level, n)
<1> DEFINE S == {m \in Nat : \E level : LevelsTo(forest, level, m)}
<1>1. 0 \in S
  <2> DEFINE level == [depth \in 0..0 |-> Members(forest)]
  <2>1. LevelsTo(forest, level, 0)
    <3>1. \A depth \in 0..0 : depth = 0
      OBVIOUS
    <3> QED BY <3>1 DEF LevelsTo
  <2>. HIDE DEF level
  <2> QED BY <2>1
<1>2. ASSUME NEW m \in Nat, m \in S PROVE m + 1 \in S
  <2>1. PICK level : LevelsTo(forest, level, m)
    BY <1>2
  <2> DEFINE Value(l, depth) == IF depth = 0 THEN Members(forest)
                             ELSE UNION {Members(node.children) : node \in l[depth - 1]}
  <2>2. \A depth \in 0..m : level[depth] = Value(level, depth)
    BY <2>1 DEF LevelsTo
  <2> DEFINE next == [depth \in 0..m + 1 |->
                        IF depth = m + 1 THEN Value(level, depth) ELSE level[depth]]
  <2>3. /\ next[m + 1] = Value(level, m + 1)
        /\ \A depth \in 0..m : next[depth] = level[depth]
    <3>1. \A depth \in 0..m : depth \in 0..m + 1 /\ depth # m + 1
      OBVIOUS
    <3>2. m + 1 \in 0..m + 1
      OBVIOUS
    <3>. HIDE DEF Value
    <3> QED BY <3>1, <3>2
  <2>4. next = [depth \in 0..m + 1 |-> next[depth]]
    <3>. HIDE DEF Value
    <3> QED OBVIOUS
  <2>. HIDE DEF next
  <2>5. ASSUME NEW depth \in 0..m + 1 PROVE Value(level, depth) = Value(next, depth)
    <3>1. CASE depth = 0
      BY <3>1
    <3>2. CASE depth # 0
      <4>1. depth - 1 \in 0..m
        BY <3>2
      <4>2. next[depth - 1] = level[depth - 1]
        BY <2>3, <4>1
      <4> QED BY <3>2, <4>2
    <3> QED BY <3>1, <3>2
  <2>6. ASSUME NEW depth \in 0..m + 1 PROVE next[depth] = Value(next, depth)
    <3>1. depth \in 0..m \/ depth = m + 1
      OBVIOUS
    <3>. HIDE DEF Value
    <3> QED BY <2>2, <2>3, <2>5, <3>1
  <2>7. next = [depth \in 0..m + 1 |-> Value(next, depth)]
    <3>. HIDE DEF Value
    <3> QED BY <2>4, <2>6
  <2>8. LevelsTo(forest, next, m + 1)
    BY <2>7 DEF LevelsTo
  <2> QED BY <2>8
<1>3. Nat \subseteq S
  <2>. HIDE DEF S
  <2> QED BY <1>1, <1>2, NatSet
<1> QED BY <1>3

\* The nodes at each depth.
LEMMA LevelsAre ==
  ASSUME NEW forest, NEW depth \in 0..StackFrames
  PROVE  Levels(forest)[depth] =
           IF depth = 0 THEN Members(forest)
           ELSE UNION {Members(node.children) : node \in Levels(forest)[depth - 1]}
<1>1. PICK level : LevelsTo(forest, level, StackFrames)
  BY LevelsExist, TreeAssumption
<1>2. LevelsTo(forest, Levels(forest), StackFrames)
  BY <1>1 DEF LevelsTo, Levels
<1> DEFINE all == Levels(forest)
<1>. HIDE DEF all
<1> QED
  BY <1>2 DEF LevelsTo, all

-----------------------------------------------------------------------------
(* Lines of descent.                                                       *)

Below(flat, child, parent) ==
  child \in Members(flat) /\ ~IsRoot(child, flat) /\ child.ppid = parent.pid

Path(flat, c, n) ==
  /\ \A k \in 0..n : c[k] \in Members(flat)
  /\ \A k \in 0..n - 1 : Below(flat, c[k + 1], c[k])

Reach(flat, p, q, n) == \E c : Path(flat, c, n) /\ c[0] = p /\ c[n] = q

Rooted(flat, p, n) ==
  \E root \in Members(flat) : IsRoot(root, flat) /\ Reach(flat, root, p, n)

\* Processes are told apart by their pids.
LEMMA SamePid ==
  ASSUME NEW flat, Proper(flat), NEW p \in Members(flat), NEW q \in Members(flat),
         p.pid = q.pid
  PROVE  p = q
BY DEF Proper, Members

\* A part of a line.
LEMMA PartOfPath ==
  ASSUME NEW flat, NEW c, NEW n \in Nat, Path(flat, c, n),
         NEW i \in 0..n, NEW j \in i..n
  PROVE  Reach(flat, c[i], c[j], j - i)
<1> DEFINE e == [k \in 0..j - i |-> c[i + k]]
<1>0. i \in Nat /\ j \in Nat /\ j - i \in Nat /\ i <= j /\ j <= n
  OBVIOUS
<1>1. \A k \in 0..j - i : e[k] = c[i + k] /\ i + k \in 0..n
  BY <1>0
<1>2. e[0] = c[i] /\ e[j - i] = c[j]
  <2>1. 0 \in 0..j - i /\ j - i \in 0..j - i /\ i + 0 = i /\ i + (j - i) = j
    BY <1>0
  <2> QED
    BY <1>1, <2>1
<1>. HIDE DEF e
<1>3. ASSUME NEW k \in 0..j - i - 1 PROVE Below(flat, e[k + 1], e[k])
  <2>1. k \in 0..j - i /\ k + 1 \in 0..j - i /\ i + k \in 0..n - 1
        /\ (i + k) + 1 = i + (k + 1)
    BY <1>0
  <2>2. Below(flat, c[(i + k) + 1], c[i + k])
    BY <2>1 DEF Path
  <2> QED
    BY <1>1, <2>1, <2>2
<1>4. \A k \in 0..j - i : e[k] \in Members(flat)
  BY <1>1 DEF Path
<1>5. Path(flat, e, j - i)
  BY <1>3, <1>4 DEF Path
<1> QED
  BY <1>2, <1>5 DEF Reach

\* Lines are put together.
LEMMA ReachReach ==
  ASSUME NEW flat, NEW p, NEW q, NEW r, NEW n \in Nat, NEW m \in Nat,
         Reach(flat, p, q, n), Reach(flat, q, r, m)
  PROVE  Reach(flat, p, r, n + m)
<1>1. PICK c : Path(flat, c, n) /\ c[0] = p /\ c[n] = q
  BY DEF Reach
<1>2. PICK e : Path(flat, e, m) /\ e[0] = q /\ e[m] = r
  BY DEF Reach
<1> DEFINE d == [k \in 0..n + m |-> IF k <= n THEN c[k] ELSE e[k - n]]
<1>3. /\ \A k \in 0..n : d[k] = c[k]
      /\ \A k \in n..n + m : d[k] = e[k - n]
  <2>1. \A k \in 0..n : k \in 0..n + m /\ k <= n
    OBVIOUS
  <2>2. \A k \in n..n + m : k \in 0..n + m /\ (k <= n => k = n /\ k - n = 0)
    OBVIOUS
  <2> QED
    BY <1>1, <1>2, <2>1, <2>2
<1>. HIDE DEF d
<1>4. ASSUME NEW k \in 0..n + m PROVE d[k] \in Members(flat)
  <2>1. CASE k \in 0..n
    BY <1>1, <1>3, <2>1 DEF Path
  <2>2. CASE k \in n..n + m
    <3>1. k - n \in 0..m
      BY <2>2
    <3> QED BY <1>2, <1>3, <2>2, <3>1 DEF Path
  <2> QED BY <2>1, <2>2
<1>5. ASSUME NEW k \in 0..n + m - 1 PROVE Below(flat, d[k + 1], d[k])
  <2>1. CASE k \in 0..n - 1
    <3>1. k \in 0..n /\ k + 1 \in 0..n
      BY <2>1
    <3> QED BY <1>1, <1>3, <2>1, <3>1 DEF Path
  <2>2. CASE k \in n..n + m - 1
    <3>1. /\ k \in n..n + m /\ k + 1 \in n..n + m /\ k - n \in 0..m - 1
          /\ (k + 1) - n = (k - n) + 1
      BY <2>2
    <3>2. Below(flat, e[(k - n) + 1], e[k - n])
      BY <1>2, <3>1 DEF Path
    <3> QED BY <1>3, <3>1, <3>2
  <2> QED BY <2>1, <2>2
<1>6. d[0] = p /\ d[n + m] = r
  <2>1. 0 \in 0..n /\ n + m \in n..n + m /\ (n + m) - n = m
    OBVIOUS
  <2> QED BY <1>1, <1>2, <1>3, <2>1
<1>7. Path(flat, d, n + m)
  BY <1>4, <1>5 DEF Path
<1> QED
  BY <1>6, <1>7 DEF Reach

\* The shortest lines.
LEMMA ReachSelf ==
  ASSUME NEW flat, NEW p \in Members(flat)
  PROVE  Reach(flat, p, p, 0)
<1> DEFINE c == [k \in 0..0 |-> p]
<1>1. \A k \in 0..0 : c[k] = p
  OBVIOUS
<1>2. Path(flat, c, 0) /\ c[0] = p
  BY <1>1 DEF Path
<1>. HIDE DEF c
<1> QED
  BY <1>2 DEF Reach

\* A line of one step leads to a child.
LEMMA ReachChild ==
  ASSUME NEW flat, NEW p \in Members(flat), NEW q, Below(flat, q, p)
  PROVE  Reach(flat, p, q, 1)
<1> DEFINE c == [k \in 0..1 |-> IF k = 0 THEN p ELSE q]
<1>1. c[0] = p /\ c[1] = q
  OBVIOUS
<1>. HIDE DEF c
<1>2. Path(flat, c, 1)
  <2>1. \A k \in 0..1 : k = 0 \/ k = 1
    OBVIOUS
  <2>2. \A k \in 0..1 - 1 : k = 0
    OBVIOUS
  <2>3. \A k \in 0..1 - 1 : Below(flat, c[k + 1], c[k])
    BY <1>1, <2>2
  <2> QED
    BY <1>1, <2>1, <2>3 DEF Path, Below
<1> QED
  BY <1>1, <1>2 DEF Reach

\* The end of a line is a process, and its last but one the parent.
LEMMA ReachParent ==
  ASSUME NEW flat, NEW p, NEW q, NEW n \in Nat, Reach(flat, p, q, n + 1)
  PROVE  \E r \in Members(flat) : Reach(flat, p, r, n) /\ Below(flat, q, r)
<1>1. PICK c : Path(flat, c, n + 1) /\ c[0] = p /\ c[n + 1] = q
  BY DEF Reach
<1>2. n \in 0..n + 1 /\ n \in 0..(n + 1) - 1 /\ 0 \in 0..n + 1 /\ n \in 0..n /\ n - 0 = n
  OBVIOUS
<1>3. c[n] \in Members(flat) /\ Below(flat, q, c[n])
  BY <1>1, <1>2 DEF Path
<1>4. Reach(flat, c[0], c[n], n - 0)
  BY <1>1, <1>2, PartOfPath
<1> QED
  BY <1>1, <1>2, <1>3, <1>4

\* The two ends of a line of descent are processes.
LEMMA ReachEnds ==
  ASSUME NEW flat, NEW p, NEW q, NEW n \in Nat, Reach(flat, p, q, n)
  PROVE  /\ p \in Members(flat) /\ q \in Members(flat)
         /\ n = 0 => p = q
         /\ n # 0 => ~IsRoot(q, flat)
<1>1. PICK c : Path(flat, c, n) /\ c[0] = p /\ c[n] = q
  BY DEF Reach
<1>2. 0 \in 0..n /\ n \in 0..n /\ (n # 0 => n - 1 \in 0..n - 1 /\ (n - 1) + 1 = n)
  OBVIOUS
<1>3. n # 0 => Below(flat, c[(n - 1) + 1], c[n - 1])
  BY <1>1, <1>2 DEF Path
<1> QED
  BY <1>1, <1>2, <1>3 DEF Path, Below

\* Of two lines that end in the same process the longer one begins with a
\* line to the other's first: a process has one parent.
LEMMA LinesMeet ==
  ASSUME NEW flat, Proper(flat), NEW p, NEW q, NEW r, NEW n \in Nat, NEW m \in Nat,
         n <= m, Reach(flat, p, r, n), Reach(flat, q, r, m)
  PROVE  Reach(flat, q, p, m - n)
<1>1. PICK c : Path(flat, c, n) /\ c[0] = p /\ c[n] = r
  BY DEF Reach
<1>2. PICK e : Path(flat, e, m) /\ e[0] = q /\ e[m] = r
  BY DEF Reach
<1> DEFINE S == {k \in Nat : k <= n => c[n - k] = e[m - k]}
<1>3. 0 \in S
  BY <1>1, <1>2
<1>4. ASSUME NEW k \in Nat, k \in S PROVE k + 1 \in S
  <2> SUFFICES ASSUME k + 1 <= n PROVE c[n - (k + 1)] = e[m - (k + 1)]
    OBVIOUS
  <2> DEFINE i == n - (k + 1)
             j == m - (k + 1)
  <2>1. /\ i \in 0..n - 1 /\ j \in 0..m - 1 /\ i + 1 = n - k /\ j + 1 = m - k
        /\ i \in 0..n /\ j \in 0..m
    OBVIOUS
  <2>2. c[n - k] = e[m - k]
    BY <1>4
  <2>. HIDE DEF i, j
  <2>3. Below(flat, c[i + 1], c[i]) /\ Below(flat, e[j + 1], e[j])
    BY <1>1, <1>2, <2>1 DEF Path
  <2>4. c[i].pid = e[j].pid
    BY <2>1, <2>2, <2>3 DEF Below
  <2>5. c[i] \in Members(flat) /\ e[j] \in Members(flat)
    BY <1>1, <1>2, <2>1 DEF Path
  <2>6. c[i] = e[j]
    BY <2>4, <2>5, SamePid
  <2> QED BY <2>6 DEF i, j
<1>5. Nat \subseteq S
  <2>. HIDE DEF S
  <2> QED BY <1>3, <1>4, NatSet
<1>6. c[0] = e[m - n]
  <2>1. n \in S /\ n - n = 0
    BY <1>5
  <2> QED BY <2>1
<1>7. Reach(flat, e[0], e[m - n], (m - n) - 0)
  <2>1. 0 \in 0..m /\ m - n \in 0..m
    OBVIOUS
  <2> QED BY <1>2, <2>1, PartOfPath
<1>8. (m - n) - 0 = m - n
  OBVIOUS
<1> QED
  BY <1>1, <1>2, <1>6, <1>7, <1>8

\* No line leads to a root.
LEMMA RootsFirst ==
  ASSUME NEW flat, NEW p, NEW root, NEW n \in Nat,
         IsRoot(root, flat), Reach(flat, p, root, n)
  PROVE  n = 0 /\ p = root
BY ReachEnds

\* A process has one depth.
LEMMA OneDepth ==
  ASSUME NEW flat, Proper(flat), NEW p, NEW n \in Nat, NEW m \in Nat,
         Rooted(flat, p, n), Rooted(flat, p, m)
  PROVE  n = m
<1>1. PICK r \in Members(flat) : IsRoot(r, flat) /\ Reach(flat, r, p, n)
  BY DEF Rooted
<1>2. PICK s \in Members(flat) : IsRoot(s, flat) /\ Reach(flat, s, p, m)
  BY DEF Rooted
<1>3. CASE n <= m
  <2>1. m - n \in Nat
    BY <1>3
  <2>2. m - n = 0
    BY <1>1, <1>2, <1>3, <2>1, LinesMeet, RootsFirst
  <2> QED BY <2>2
<1>4. CASE m <= n
  <2>1. n - m \in Nat
    BY <1>4
  <2>2. n - m = 0
    BY <1>1, <1>2, <1>4, <2>1, LinesMeet, RootsFirst
  <2> QED BY <2>2
<1> QED
  BY <1>3, <1>4

\* A line as long as the list has a process twice.
LEMMA Revisits ==
  ASSUME NEW flat, Proper(flat), NEW c, NEW n \in Nat, Len(flat) <= n,
         Path(flat, c, n)
  PROVE  \E i \in 0..n : \E j \in i..n : i # j /\ c[i] = c[j]
<1> DEFINE f == [k \in 0..n |-> CHOOSE i \in DOMAIN flat : flat[i] = c[k]]
<1>1. ASSUME NEW k \in 0..n PROVE f[k] \in DOMAIN flat /\ flat[f[k]] = c[k]
  <2>1. c[k] \in Members(flat)
    BY DEF Path
  <2>2. \E i \in DOMAIN flat : flat[i] = c[k]
    BY <2>1 DEF Members
  <2> QED BY <2>2
<1>2. f \in [0..n -> 1..Len(flat)]
  BY <1>1 DEF Proper
<1>3. /\ IsFiniteSet(0..n) /\ Cardinality(0..n) = n + 1
      /\ IsFiniteSet(1..Len(flat)) /\ Cardinality(1..Len(flat)) < n + 1
  <2>1. Len(flat) \in Nat /\ Len(flat) \in Int /\ 1 \in Int
    BY DEF Proper
  <2>2. IsFiniteSet(0..n) /\ Cardinality(0..n) = IF 0 > n THEN 0 ELSE n - 0 + 1
    BY FS_Interval
  <2>3. /\ IsFiniteSet(1..Len(flat))
        /\ Cardinality(1..Len(flat)) = IF 1 > Len(flat) THEN 0 ELSE Len(flat) - 1 + 1
    BY <2>1, FS_Interval
  <2> QED BY <2>1, <2>2, <2>3
<1>. HIDE DEF f
<1>4. PICK i, j \in 0..n : i # j /\ f[i] = f[j]
  BY <1>2, <1>3, FS_PigeonHole
<1>5. c[i] = c[j]
  BY <1>1, <1>4
<1>6. j \in i..n \/ i \in j..n
  OBVIOUS
<1> QED
  BY <1>4, <1>5, <1>6

\* A process with a root above it has no line back to itself.
LEMMA RootedNoCycle ==
  ASSUME NEW flat, Proper(flat), NEW p, NEW n \in Nat, NEW k \in Nat,
         Rooted(flat, p, n), Reach(flat, p, p, k)
  PROVE  k = 0
<1>1. PICK r \in Members(flat) : IsRoot(r, flat) /\ Reach(flat, r, p, n)
  BY DEF Rooted
<1>2. Reach(flat, r, p, n + k)
  BY <1>1, ReachReach
<1>3. n + k \in Nat /\ Rooted(flat, p, n + k)
  BY <1>1, <1>2 DEF Rooted
<1>4. n = n + k
  BY <1>3, OneDepth
<1> QED
  BY <1>4

\* A process's depth is less than the number of processes.
LEMMA DepthBound ==
  ASSUME NEW flat, Proper(flat), NEW p, NEW n \in Nat, Rooted(flat, p, n)
  PROVE  n < Len(flat)
<1> SUFFICES ASSUME Len(flat) <= n PROVE FALSE
  BY DEF Proper
<1>1. PICK r \in Members(flat) : IsRoot(r, flat) /\ Reach(flat, r, p, n)
  BY DEF Rooted
<1>2. PICK c : Path(flat, c, n) /\ c[0] = r /\ c[n] = p
  BY <1>1 DEF Reach
<1>3. PICK i \in 0..n, j \in 0..n : j \in i..n /\ i # j /\ c[i] = c[j]
  <2>1. PICK i \in 0..n : \E j \in i..n : i # j /\ c[i] = c[j]
    BY <1>2, Revisits
  <2>2. PICK j \in i..n : i # j /\ c[i] = c[j]
    BY <2>1
  <2>3. j \in 0..n
    OBVIOUS
  <2> QED BY <2>2, <2>3
<1>4. j - i \in Nat /\ j - i # 0 /\ i \in Nat /\ i - 0 = i /\ 0 \in 0..n /\ i \in 0..n
  BY <1>3
<1>5. Reach(flat, c[i], c[i], j - i)
  BY <1>2, <1>3, PartOfPath
<1>6. Reach(flat, r, c[i], i)
  <2>1. Reach(flat, c[0], c[i], i - 0)
    BY <1>2, <1>4, PartOfPath
  <2> QED BY <1>2, <1>4, <2>1
<1>7. Rooted(flat, c[i], i)
  BY <1>1, <1>6 DEF Rooted
<1> QED
  BY <1>4, <1>5, <1>7, RootedNoCycle

-----------------------------------------------------------------------------
(* The processes at each depth of the forest.                              *)

\* The roots and the children of a process, as members of the list.
LEMMA RootsAre ==
  ASSUME NEW flat, Proper(flat)
  PROVE  /\ Members(Roots(flat)) = {p \in Members(flat) : IsRoot(p, flat)}
         /\ \A i, j \in DOMAIN Roots(flat) : Roots(flat)[i] = Roots(flat)[j] => i = j
<1> DEFINE P == {i \in DOMAIN flat : IsRoot(flat[i], flat)}
<1>1. P \in SUBSET (1..Len(flat)) /\ Len(flat) \in Nat
  BY DEF Proper
<1>2. Roots(flat) = Selected(flat, P)
  BY DEF Roots
<1>3. Members(Roots(flat)) = {flat[i] : i \in P}
  <2>. HIDE DEF P
  <2> QED BY <1>1, <1>2, SelectedMembers
<1>4. {flat[i] : i \in P} = {p \in Members(flat) : IsRoot(p, flat)}
  BY DEF Members
<1>5. \A i, j \in P : flat[i] = flat[j] => i = j
  BY DEF Proper
<1>6. \A i, j \in DOMAIN Roots(flat) : Roots(flat)[i] = Roots(flat)[j] => i = j
  <2>. HIDE DEF P
  <2> QED BY <1>1, <1>2, <1>5, SelectedDifferent
<1> QED
  BY <1>3, <1>4, <1>6

\* What the loop over the list takes for the children of a process.
LEMMA ChildrenAre ==
  ASSUME NEW flat, Proper(flat), NEW p
  PROVE  LET infos == Children(flat, p.pid) IN
         /\ Members(infos) = {q \in Members(flat) : Below(flat, q, p)}
         /\ \A i, j \in DOMAIN infos : infos[i] = infos[j] => i = j
<1> DEFINE P == {i \in DOMAIN flat : flat[i].ppid = p.pid /\ ~IsRoot(flat[i], flat)}
           infos == Children(flat, p.pid)
<1>1. P \in SUBSET (1..Len(flat)) /\ Len(flat) \in Nat
  BY DEF Proper
<1>2. infos = Selected(flat, P)
  BY DEF Children
<1>3. Members(infos) = {flat[i] : i \in P}
  <2>. HIDE DEF P, infos
  <2> QED BY <1>1, <1>2, SelectedMembers
<1>4. {flat[i] : i \in P} = {q \in Members(flat) : Below(flat, q, p)}
  BY DEF Members, Below
<1>5. \A i, j \in P : flat[i] = flat[j] => i = j
  BY DEF Proper
<1>6. \A i, j \in DOMAIN infos : infos[i] = infos[j] => i = j
  <2>. HIDE DEF P, infos
  <2> QED BY <1>1, <1>2, <1>5, SelectedDifferent
<1> QED
  BY <1>3, <1>4, <1>6

\* The processes with a number of ancestors up to a root.
AtDepth(flat, n) == {p \in Members(flat) : Rooted(flat, p, n)}

\* The roots come first, and the children of a depth make the next one.
LEMMA AtDepthIs ==
  ASSUME NEW flat, NEW n \in Nat
  PROVE  /\ AtDepth(flat, 0) = {p \in Members(flat) : IsRoot(p, flat)}
         /\ AtDepth(flat, n + 1) =
              {q \in Members(flat) : \E p \in AtDepth(flat, n) : Below(flat, q, p)}
<1>1. ASSUME NEW p \in Members(flat)
      PROVE  Rooted(flat, p, 0) <=> IsRoot(p, flat)
  <2>1. ASSUME Rooted(flat, p, 0) PROVE IsRoot(p, flat)
    <3>1. PICK r \in Members(flat) : IsRoot(r, flat) /\ Reach(flat, r, p, 0)
      BY <2>1 DEF Rooted
    <3>2. 0 \in Nat
      OBVIOUS
    <3> QED BY <3>1, <3>2, ReachEnds
  <2> QED BY <2>1, ReachSelf DEF Rooted
<1>2. ASSUME NEW q \in Members(flat)
      PROVE  Rooted(flat, q, n + 1)
             <=> \E p \in AtDepth(flat, n) : Below(flat, q, p)
  <2>1. ASSUME Rooted(flat, q, n + 1)
        PROVE  \E p \in AtDepth(flat, n) : Below(flat, q, p)
    <3>1. PICK r \in Members(flat) : IsRoot(r, flat) /\ Reach(flat, r, q, n + 1)
      BY <2>1 DEF Rooted
    <3>2. PICK p \in Members(flat) : Reach(flat, r, p, n) /\ Below(flat, q, p)
      BY <3>1, ReachParent
    <3> QED BY <3>1, <3>2 DEF AtDepth, Rooted
  <2>2. ASSUME NEW p \in AtDepth(flat, n), Below(flat, q, p)
        PROVE  Rooted(flat, q, n + 1)
    <3>1. PICK r \in Members(flat) : IsRoot(r, flat) /\ Reach(flat, r, p, n)
      BY DEF AtDepth, Rooted
    <3>2. Reach(flat, p, q, 1)
      BY <2>2, ReachChild DEF AtDepth
    <3>3. Reach(flat, r, q, n + 1)
      BY <3>1, <3>2, ReachReach
    <3> QED BY <3>1, <3>3 DEF Rooted
  <2> QED BY <2>1, <2>2
<1> QED
  BY <1>1, <1>2 DEF AtDepth

\* The nodes at a depth are those of the processes at that depth.
LEMMA LevelsOfForest ==
  ASSUME NEW flat, Proper(flat), NEW depth \in 0..StackFrames
  PROVE  Levels(Build(flat))[depth] =
           {BuildNodes(flat)[StackFrames - depth][p] : p \in AtDepth(flat, depth)}
<1> DEFINE b == BuildNodes(flat)
           roots == Roots(flat)
           forest == Build(flat)
           S == {n \in Nat : n <= StackFrames =>
                  Levels(forest)[n] = {b[StackFrames - n][p] : p \in AtDepth(flat, n)}}
<1>0. StackFrames \in Nat /\ StackFrames # 0
  BY TreeAssumption
<1>1. 0 \in S
  <2>1. forest = [i \in DOMAIN roots |-> b[StackFrames][roots[i]]]
    BY DEF Build
  <2>2. Members(forest) = {b[StackFrames][p] : p \in Members(roots)}
    <3>. HIDE DEF b, roots, forest
    <3> QED BY <2>1 DEF Members
  <2>3. Members(roots) = AtDepth(flat, 0)
    BY RootsAre, AtDepthIs
  <2>4. 0 \in 0..StackFrames /\ StackFrames - 0 = StackFrames
    BY <1>0
  <2>5. Levels(forest)[0] = Members(forest)
    <3>. HIDE DEF forest
    <3> QED BY <2>4, LevelsAre
  <2>. HIDE DEF b, roots, forest
  <2> QED
    BY <2>2, <2>3, <2>4, <2>5
<1>2. ASSUME NEW n \in Nat, n \in S PROVE n + 1 \in S
  <2> SUFFICES ASSUME n + 1 <= StackFrames
               PROVE  Levels(forest)[n + 1] =
                        {b[StackFrames - (n + 1)][q] : q \in AtDepth(flat, n + 1)}
    OBVIOUS
  <2> DEFINE f == StackFrames - n
  <2>1. /\ n + 1 \in 0..StackFrames /\ n + 1 # 0 /\ (n + 1) - 1 = n
        /\ f \in 0..StackFrames /\ f # 0 /\ StackFrames - (n + 1) = f - 1
        /\ n <= StackFrames
    BY <1>0
  <2>2. Levels(forest)[n] = {b[f][p] : p \in AtDepth(flat, n)}
    BY <1>2, <2>1
  <2>3. Levels(forest)[n + 1] =
          UNION {Members(node.children) : node \in Levels(forest)[n]}
    <3>. HIDE DEF forest, b, f
    <3> QED BY <2>1, LevelsAre
  <2>. HIDE DEF f, forest
  <2>4. ASSUME NEW p \in AtDepth(flat, n)
        PROVE  Members(b[f][p].children) =
                 {b[f - 1][q] : q \in {r \in Members(flat) : Below(flat, r, p)}}
    <3> DEFINE infos == Children(flat, p.pid)
    <3>1. b[f][p] = [info |-> p, children |-> [i \in DOMAIN infos |-> b[f - 1][infos[i]]]]
      BY <2>1, BuildNode DEF AtDepth
    <3>2. Members(infos) = {r \in Members(flat) : Below(flat, r, p)}
      BY ChildrenAre
    <3>. HIDE DEF b, infos
    <3> QED
      BY <3>1, <3>2 DEF Members
  <2>5. AtDepth(flat, n + 1) =
          {q \in Members(flat) : \E p \in AtDepth(flat, n) : Below(flat, q, p)}
    BY AtDepthIs
  <2>. HIDE DEF b
  <2>6. UNION {Members(node.children) : node \in Levels(forest)[n]}
          = {b[f - 1][q] : q \in AtDepth(flat, n + 1)}
    <3> DEFINE Under(p) == {b[f - 1][q] : q \in {r \in Members(flat) : Below(flat, r, p)}}
    <3>1. UNION {Members(node.children) : node \in Levels(forest)[n]}
            = UNION {Under(p) : p \in AtDepth(flat, n)}
      <4>1. \A p \in AtDepth(flat, n) : Members(b[f][p].children) = Under(p)
        BY <2>4
      <4>. HIDE DEF Under
      <4> QED BY <2>2, <4>1
    <3>2. UNION {Under(p) : p \in AtDepth(flat, n)}
            = {b[f - 1][q] : q \in AtDepth(flat, n + 1)}
      BY <2>5
    <3> QED BY <3>1, <3>2
  <2> QED
    BY <2>1, <2>3, <2>6
<1>3. Nat \subseteq S
  <2>. HIDE DEF S
  <2> QED BY <1>1, <1>2, NatSet
<1> QED
  BY <1>0, <1>3

\* Every node of the forest is that of a process at some depth.
LEMMA NodeOf ==
  ASSUME NEW flat, Proper(flat), NEW node \in Nodes(Build(flat))
  PROVE  \E depth \in 0..StackFrames : \E p \in AtDepth(flat, depth) :
           node = BuildNodes(flat)[StackFrames - depth][p]
<1>1. PICK depth \in 0..StackFrames : node \in Levels(Build(flat))[depth]
  BY DEF Nodes
<1> QED
  BY <1>1, LevelsOfForest

\* And the node of every process at some depth is there.
LEMMA HasNode ==
  ASSUME NEW flat, Proper(flat), NEW depth \in 0..StackFrames,
         NEW p \in AtDepth(flat, depth)
  PROVE  BuildNodes(flat)[StackFrames - depth][p] \in Nodes(Build(flat))
BY LevelsOfForest DEF Nodes

\* build_node never runs out of room if it has room for the list.
LEMMA NoOverflow ==
  ASSUME NEW flat, Proper(flat), Len(flat) <= StackFrames,
         NEW depth \in Nat, NEW p \in AtDepth(flat, depth)
  PROVE  /\ StackFrames - depth \in 1..StackFrames
         /\ BuildNodes(flat)[StackFrames - depth][p].info = p
         /\ p.pid # 0
<1>1. p \in Members(flat) /\ Rooted(flat, p, depth) /\ Len(flat) \in Nat
  BY DEF AtDepth, Proper
<1>2. depth < Len(flat)
  BY <1>1, DepthBound
<1>3. StackFrames - depth \in 1..StackFrames
  BY <1>1, <1>2, TreeAssumption
<1>4. StackFrames - depth \in 0..StackFrames /\ StackFrames - depth # 0
  BY <1>3
<1>5. BuildNodes(flat)[StackFrames - depth][p].info = p
  <2> DEFINE f == StackFrames - depth
             infos == Children(flat, p.pid)
  <2>. f \in 0..StackFrames /\ f # 0
    BY <1>4
  <2>. HIDE DEF f
  <2>1. BuildNodes(flat)[f][p] =
          [info |-> p, children |-> [i \in DOMAIN infos |-> BuildNodes(flat)[f - 1][infos[i]]]]
    BY <1>1, BuildNode
  <2> QED
    BY <2>1 DEF f
<1>6. p.pid # 0
  BY <1>1 DEF Proper, Members
<1> QED
  BY <1>3, <1>5, <1>6

\* No call of the builder runs out of frames when the stack holds one a
\* process.
LEMMA BuildTerminates ==
  ASSUME NEW flat, Proper(flat), Len(flat) <= StackFrames,
         NEW node \in Nodes(Build(flat))
  PROVE  node # Overflow
<1>1. PICK depth \in 0..StackFrames :
        \E p \in AtDepth(flat, depth) :
          node = BuildNodes(flat)[StackFrames - depth][p]
  BY NodeOf
<1>2. PICK p \in AtDepth(flat, depth) :
        node = BuildNodes(flat)[StackFrames - depth][p]
  BY <1>1
<1>3. depth \in Nat
  BY TreeAssumption
<1>4. node.info = p /\ p.pid # 0
  BY <1>2, <1>3, NoOverflow
<1> QED
  BY <1>4 DEF Overflow

\* What a child of a node is.
LEMMA ChildOf ==
  ASSUME NEW flat, Proper(flat), NEW depth \in 0..StackFrames, NEW p \in Members(flat),
         NEW node, node = BuildNodes(flat)[StackFrames - depth][p],
         NEW i \in DOMAIN node.children
  PROVE  LET infos == Children(flat, p.pid) IN
         /\ node.info = p /\ i \in DOMAIN infos /\ infos[i] \in Members(infos)
         /\ node.children[i].info \in {infos[i], Overflow.info}
<1> DEFINE f == StackFrames - depth
           infos == Children(flat, p.pid)
           b == BuildNodes(flat)
<1>1. f \in 0..StackFrames
  BY TreeAssumption
<1>. HIDE DEF f
<1>2. f # 0
  <2> SUFFICES ASSUME f = 0 PROVE FALSE
    OBVIOUS
  <2>1. node = Overflow
    BY <1>1, BuildNode DEF f
  <2>2. node.children = <<>>
    BY <2>1 DEF Overflow
  <2> QED BY <2>2
<1>3. node = [info |-> p, children |-> [k \in DOMAIN infos |-> b[f - 1][infos[k]]]]
  BY <1>1, <1>2, BuildNode DEF f
<1>4. i \in DOMAIN infos /\ node.info = p /\ node.children[i] = b[f - 1][infos[i]]
  BY <1>3
<1>5. infos[i] \in Members(infos)
  BY <1>4 DEF Members
<1>6. infos[i] \in Members(flat)
  BY <1>5, ChildrenAre
<1>7. b[f - 1][infos[i]].info \in {infos[i], Overflow.info}
  <2> DEFINE g == f - 1
             q == infos[i]
             below == Children(flat, q.pid)
  <2>1. g \in 0..StackFrames
    BY <1>1, <1>2, TreeAssumption
  <2>. HIDE DEF g, q
  <2>2. q \in Members(flat)
    BY <1>6 DEF q
  <2>3. b[g][q] = IF g = 0 THEN Overflow
                  ELSE [info |-> q, children |-> [k \in DOMAIN below |-> b[g - 1][below[k]]]]
    BY <2>1, <2>2, BuildNode
  <2>4. b[g][q].info \in {q, Overflow.info}
    BY <2>3
  <2> QED BY <2>4 DEF g, q
<1> QED
  BY <1>4, <1>5, <1>7

\* Every process is placed at most once, and where its ppid says.
LEMMA BuildPlaces ==
  ASSUME NEW flat, Proper(flat)
  PROVE  LET forest == Build(flat) IN
         /\ \A i, j \in DOMAIN forest : forest[i].info = forest[j].info => i = j
         /\ \A parent \in Nodes(forest) : \A i \in DOMAIN parent.children :
              LET child == parent.children[i].info IN
              child = Overflow.info
              \/ /\ child.ppid = parent.info.pid
                 /\ \A k \in DOMAIN forest : forest[k].info # child
                 /\ \A other \in Nodes(forest) : \A j \in DOMAIN other.children :
                      other.children[j].info = child => other = parent /\ i = j
<1> DEFINE forest == Build(flat)
           roots == Roots(flat)
<1>0. StackFrames \in Nat /\ StackFrames # 0 /\ StackFrames \in 0..StackFrames
  BY TreeAssumption
<1>1. DOMAIN forest = DOMAIN roots
  BY DEF Build
<1>2. ASSUME NEW i \in DOMAIN forest
      PROVE  forest[i].info = roots[i] /\ roots[i] \in Members(flat)
             /\ IsRoot(roots[i], flat)
  <2>1. roots[i] \in Members(roots)
    BY <1>1 DEF Members
  <2>2. roots[i] \in Members(flat) /\ IsRoot(roots[i], flat)
    BY <2>1, RootsAre
  <2>3. forest[i] = BuildNodes(flat)[StackFrames][roots[i]]
    BY <1>1 DEF Build
  <2> DEFINE p == roots[i]
             infos == Children(flat, p.pid)
  <2>. HIDE DEF p
  <2>4. p \in Members(flat)
    BY <2>2 DEF p
  <2>5. BuildNodes(flat)[StackFrames][p] =
          [info |-> p,
           children |-> [k \in DOMAIN infos |-> BuildNodes(flat)[StackFrames - 1][infos[k]]]]
    BY <1>0, <2>4, BuildNode
  <2>6. BuildNodes(flat)[StackFrames][p].info = p
    BY <2>5
  <2> QED
    BY <2>2, <2>3, <2>6 DEF p
<1>3. ASSUME NEW i \in DOMAIN forest, NEW j \in DOMAIN forest,
             forest[i].info = forest[j].info
      PROVE  i = j
  BY <1>1, <1>2, <1>3, RootsAre
<1>4. ASSUME NEW parent \in Nodes(forest), NEW i \in DOMAIN parent.children,
             parent.children[i].info # Overflow.info
      PROVE  LET child == parent.children[i].info IN
             /\ child.ppid = parent.info.pid
             /\ \A k \in DOMAIN forest : forest[k].info # child
             /\ \A other \in Nodes(forest) : \A j \in DOMAIN other.children :
                  other.children[j].info = child => other = parent /\ i = j
  <2> DEFINE child == parent.children[i].info
  <2>1. PICK depth \in 0..StackFrames :
          \E p \in AtDepth(flat, depth) :
            parent = BuildNodes(flat)[StackFrames - depth][p]
    BY NodeOf
  <2>2. PICK p \in AtDepth(flat, depth) :
          parent = BuildNodes(flat)[StackFrames - depth][p]
    BY <2>1
  <2> DEFINE infos == Children(flat, p.pid)
  <2>3. p \in Members(flat) /\ Rooted(flat, p, depth) /\ depth \in Nat
    BY <1>0 DEF AtDepth
  <2>4. /\ parent.info = p /\ i \in DOMAIN infos /\ child = infos[i]
        /\ infos[i] \in Members(infos)
    BY <1>4, <2>2, <2>3, ChildOf
  <2>5. Below(flat, child, p)
    BY <2>4, ChildrenAre
  <2>6. ASSUME NEW other \in Nodes(forest), NEW j \in DOMAIN other.children,
               other.children[j].info = child
        PROVE  other = parent /\ i = j
    <3>1. PICK depth2 \in 0..StackFrames :
            \E q \in AtDepth(flat, depth2) :
              other = BuildNodes(flat)[StackFrames - depth2][q]
      BY NodeOf
    <3>2. PICK q \in AtDepth(flat, depth2) :
            other = BuildNodes(flat)[StackFrames - depth2][q]
      BY <3>1
    <3> DEFINE infos2 == Children(flat, q.pid)
    <3>3. q \in Members(flat) /\ Rooted(flat, q, depth2) /\ depth2 \in Nat
      BY <1>0 DEF AtDepth
    <3>4. /\ j \in DOMAIN infos2 /\ child = infos2[j] /\ infos2[j] \in Members(infos2)
      BY <1>4, <2>6, <3>2, <3>3, ChildOf
    <3>5. Below(flat, child, q)
      BY <3>4, ChildrenAre
    <3>6. p = q
      BY <2>3, <2>5, <3>3, <3>5, SamePid DEF Below
    <3>7. depth = depth2
      BY <2>3, <3>3, <3>6, OneDepth
    <3>8. infos = infos2
      BY <3>6
    <3>9. i = j
      BY <2>4, <3>4, <3>8, ChildrenAre
    <3> QED
      BY <2>2, <3>2, <3>6, <3>7, <3>9
  <2>7. child.ppid = parent.info.pid /\ ~IsRoot(child, flat)
    BY <2>4, <2>5 DEF Below
  <2>8. \A k \in DOMAIN forest : forest[k].info # child
    BY <1>2, <2>7
  <2> QED
    BY <2>6, <2>7, <2>8
<1>. HIDE DEF forest
<1>5. /\ \A i, j \in DOMAIN forest : forest[i].info = forest[j].info => i = j
      /\ \A parent \in Nodes(forest) : \A i \in DOMAIN parent.children :
           LET child == parent.children[i].info IN
           child = Overflow.info
           \/ /\ child.ppid = parent.info.pid
              /\ \A k \in DOMAIN forest : forest[k].info # child
              /\ \A other \in Nodes(forest) : \A j \in DOMAIN other.children :
                   other.children[j].info = child => other = parent /\ i = j
  BY <1>3, <1>4
<1> QED
  BY <1>5 DEF forest

-----------------------------------------------------------------------------
(* Which processes are in the forest.                                      *)

GenerationsTo(flat, found, within, n) ==
  within = [number \in 0..n |->
              IF number = 0 THEN found ELSE WithChildren(flat, within[number - 1])]

\* There is a function such as the one that defines the generations.
LEMMA GenerationsExist ==
  ASSUME NEW flat, NEW found, NEW n \in Nat
  PROVE  \E within : GenerationsTo(flat, found, within, n)
<1> DEFINE S == {m \in Nat : \E within : GenerationsTo(flat, found, within, m)}
<1>1. 0 \in S
  <2> DEFINE within == [number \in 0..0 |-> found]
  <2>1. GenerationsTo(flat, found, within, 0)
    <3>1. \A number \in 0..0 : number = 0
      OBVIOUS
    <3> QED BY <3>1 DEF GenerationsTo
  <2>. HIDE DEF within
  <2> QED BY <2>1
<1>2. ASSUME NEW m \in Nat, m \in S PROVE m + 1 \in S
  <2>1. PICK within : GenerationsTo(flat, found, within, m)
    BY <1>2
  <2> DEFINE Value(w, number) == IF number = 0 THEN found ELSE WithChildren(flat, w[number - 1])
  <2>2. \A number \in 0..m : within[number] = Value(within, number)
    BY <2>1 DEF GenerationsTo
  <2> DEFINE next == [number \in 0..m + 1 |->
                        IF number = m + 1 THEN Value(within, number) ELSE within[number]]
  <2>3. /\ next[m + 1] = Value(within, m + 1)
        /\ \A number \in 0..m : next[number] = within[number]
    <3>1. \A number \in 0..m : number \in 0..m + 1 /\ number # m + 1
      OBVIOUS
    <3>2. m + 1 \in 0..m + 1
      OBVIOUS
    <3>. HIDE DEF Value
    <3> QED BY <3>1, <3>2
  <2>4. next = [number \in 0..m + 1 |-> next[number]]
    <3>. HIDE DEF Value
    <3> QED OBVIOUS
  <2>. HIDE DEF next
  <2>5. ASSUME NEW number \in 0..m + 1 PROVE Value(within, number) = Value(next, number)
    <3>1. CASE number = 0
      BY <3>1
    <3>2. CASE number # 0
      <4>1. number - 1 \in 0..m
        BY <3>2
      <4>2. next[number - 1] = within[number - 1]
        BY <2>3, <4>1
      <4> QED BY <3>2, <4>2
    <3> QED BY <3>1, <3>2
  <2>6. ASSUME NEW number \in 0..m + 1 PROVE next[number] = Value(next, number)
    <3>1. number \in 0..m \/ number = m + 1
      OBVIOUS
    <3>. HIDE DEF Value
    <3> QED BY <2>2, <2>3, <2>5, <3>1
  <2>7. next = [number \in 0..m + 1 |-> Value(next, number)]
    <3>. HIDE DEF Value
    <3> QED BY <2>4, <2>6
  <2>8. GenerationsTo(flat, found, next, m + 1)
    BY <2>7 DEF GenerationsTo
  <2> QED BY <2>8
<1>3. Nat \subseteq S
  <2>. HIDE DEF S
  <2> QED BY <1>1, <1>2, NatSet
<1> QED BY <1>3

\* The processes found after each number of searches.
LEMMA GenerationsAre ==
  ASSUME NEW flat, Proper(flat), NEW found, NEW n \in 0..Len(flat)
  PROVE  Generations(flat, found)[n] =
           IF n = 0 THEN found
           ELSE WithChildren(flat, Generations(flat, found)[n - 1])
<1>1. PICK within : GenerationsTo(flat, found, within, Len(flat))
  BY GenerationsExist DEF Proper
<1>2. GenerationsTo(flat, found, Generations(flat, found), Len(flat))
  BY <1>1 DEF GenerationsTo, Generations
<1> DEFINE all == Generations(flat, found)
<1>. HIDE DEF all
<1> QED
  BY <1>2 DEF GenerationsTo, all

\* The descendants of some processes are those a line leads to from one.
LEMMA DescendantsAre ==
  ASSUME NEW flat, Proper(flat), NEW found \in SUBSET Members(flat), NEW p
  PROVE  p \in Descendants(flat, found)
         <=> \E q \in found : \E n \in 0..Len(flat) : Reach(flat, q, p, n)
<1> DEFINE g == Generations(flat, found)
           Led(r, m) == \E q \in found : \E n \in 0..m : Reach(flat, q, r, n)
           S == {m \in Nat : m <= Len(flat) => \A r : r \in g[m] <=> Led(r, m)}
<1>0. Len(flat) \in Nat
  BY DEF Proper
<1>1. 0 \in S
  <2>1. 0 \in 0..Len(flat)
    BY <1>0
  <2>2. g[0] = found
    BY <2>1, GenerationsAre
  <2>3. ASSUME NEW r PROVE r \in found <=> Led(r, 0)
    <3>1. ASSUME r \in found PROVE Led(r, 0)
      <4>1. Reach(flat, r, r, 0) /\ 0 \in 0..0
        BY <3>1, ReachSelf
      <4> QED BY <3>1, <4>1
    <3>2. ASSUME NEW q \in found, NEW n \in 0..0, Reach(flat, q, r, n) PROVE r \in found
      <4>1. n = 0 /\ n \in Nat
        OBVIOUS
      <4> QED BY <3>2, <4>1, ReachEnds
    <3> QED BY <3>1, <3>2
  <2>. HIDE DEF g, Led
  <2> QED BY <2>2, <2>3
<1>2. ASSUME NEW m \in Nat, m \in S PROVE m + 1 \in S
  <2> SUFFICES ASSUME m + 1 <= Len(flat), NEW r
               PROVE  r \in g[m + 1] <=> Led(r, m + 1)
    OBVIOUS
  <2>1. m + 1 \in 0..Len(flat) /\ m + 1 # 0 /\ (m + 1) - 1 = m /\ m <= Len(flat)
    BY <1>0
  <2>2. \A s : s \in g[m] <=> Led(s, m)
    BY <1>2, <2>1
  <2>3. g[m + 1] = WithChildren(flat, g[m])
    BY <2>1, GenerationsAre
  <2>. HIDE DEF g
  <2>4. r \in g[m + 1] <=> r \in g[m] \/ \E q \in g[m] : Below(flat, r, q)
    BY <2>3 DEF Below, WithChildren
  <2>5. ASSUME r \in g[m] PROVE Led(r, m + 1)
    <3>1. PICK q \in found, n \in 0..m : Reach(flat, q, r, n)
      BY <2>2, <2>5
    <3>2. n \in 0..m + 1
      OBVIOUS
    <3> QED BY <3>1, <3>2
  <2>6. ASSUME NEW q \in g[m], Below(flat, r, q) PROVE Led(r, m + 1)
    <3>1. PICK f \in found, n \in 0..m : Reach(flat, f, q, n)
      BY <2>2
    <3>2. n \in Nat /\ n + 1 \in 0..m + 1 /\ 1 \in Nat
      OBVIOUS
    <3>3. q \in Members(flat)
      BY <3>1, <3>2, ReachEnds
    <3>4. Reach(flat, q, r, 1)
      BY <2>6, <3>3, ReachChild
    <3>5. Reach(flat, f, r, n + 1)
      BY <3>1, <3>2, <3>4, ReachReach
    <3> QED BY <3>2, <3>5
  <2>7. ASSUME Led(r, m + 1) PROVE r \in g[m] \/ \E q \in g[m] : Below(flat, r, q)
    <3>1. PICK f \in found, n \in 0..m + 1 : Reach(flat, f, r, n)
      BY <2>7
    <3>2. CASE n \in 0..m
      BY <2>2, <3>1, <3>2
    <3>3. CASE n = m + 1
      <4>1. PICK q \in Members(flat) : Reach(flat, f, q, m) /\ Below(flat, r, q)
        BY <3>1, <3>3, ReachParent
      <4>2. m \in 0..m
        OBVIOUS
      <4>3. Led(q, m)
        BY <4>1, <4>2
      <4> QED BY <2>2, <4>1, <4>3
    <3>4. n \in 0..m \/ n = m + 1
      OBVIOUS
    <3> QED BY <3>2, <3>3, <3>4
  <2> QED
    BY <2>4, <2>5, <2>6, <2>7
<1>3. Nat \subseteq S
  <2>. HIDE DEF S
  <2> QED BY <1>1, <1>2, NatSet
<1>4. Len(flat) \in S
  BY <1>0, <1>3
<1>5. p \in g[Len(flat)] <=> Led(p, Len(flat))
  BY <1>0, <1>4
<1> QED
  BY <1>5 DEF Descendants

\* A process whose ppid names a descendant of its own.
Cyclic(flat, p) ==
  ~IsRoot(p, flat) /\ \E q \in Descendants(flat, {p}) : p.ppid = q.pid

\* A process whose parent descends from it is on a line to itself.
LEMMA CyclicReach ==
  ASSUME NEW flat, Proper(flat), NEW p \in Members(flat)
  PROVE  /\ Cyclic(flat, p) => \E n \in Nat : n # 0 /\ Reach(flat, p, p, n)
         /\ \A n \in 1..Len(flat) : Reach(flat, p, p, n) => Cyclic(flat, p)
<1>0. Len(flat) \in Nat /\ {p} \in SUBSET Members(flat)
  BY DEF Proper
<1>1. ASSUME Cyclic(flat, p)
      PROVE  \E n \in Nat : n # 0 /\ Reach(flat, p, p, n)
  <2>1. PICK q \in Descendants(flat, {p}) : p.ppid = q.pid
    BY <1>1 DEF Cyclic
  <2>2. PICK n \in 0..Len(flat) : Reach(flat, p, q, n)
    BY <1>0, DescendantsAre
  <2>3. n \in Nat /\ 1 \in Nat /\ n + 1 \in Nat /\ n + 1 # 0
    BY <1>0
  <2>4. q \in Members(flat)
    BY <2>2, <2>3, ReachEnds
  <2>5. Below(flat, p, q)
    BY <1>1, <2>1 DEF Cyclic, Below
  <2>6. Reach(flat, q, p, 1)
    BY <2>4, <2>5, ReachChild
  <2>7. Reach(flat, p, p, n + 1)
    BY <2>2, <2>3, <2>6, ReachReach
  <2> QED BY <2>3, <2>7
<1>2. ASSUME NEW n \in 1..Len(flat), Reach(flat, p, p, n)
      PROVE  Cyclic(flat, p)
  <2>1. n - 1 \in Nat /\ (n - 1) + 1 = n /\ n - 1 \in 0..Len(flat)
    BY <1>0
  <2>2. PICK q \in Members(flat) : Reach(flat, p, q, n - 1) /\ Below(flat, p, q)
    <3> DEFINE m == n - 1
    <3>1. m \in Nat /\ Reach(flat, p, p, m + 1)
      BY <1>2, <2>1
    <3>. HIDE DEF m
    <3>2. \E q \in Members(flat) : Reach(flat, p, q, m) /\ Below(flat, p, q)
      BY <3>1, ReachParent
    <3> QED BY <3>2 DEF m
  <2>3. q \in Descendants(flat, {p})
    BY <1>0, <2>1, <2>2, DescendantsAre
  <2> QED
    BY <2>2, <2>3 DEF Cyclic, Below
<1> QED
  BY <1>1, <1>2

\* A process has a root above it unless it descends from such a process.
LEMMA RootedUnlessCyclic ==
  ASSUME NEW flat, Proper(flat), NEW p \in Members(flat)
  PROVE  (\E n \in Nat : Rooted(flat, p, n))
         <=> p \notin Descendants(flat, {q \in Members(flat) : Cyclic(flat, q)})
<1> DEFINE found == {q \in Members(flat) : Cyclic(flat, q)}
<1>0. Len(flat) \in Nat /\ found \in SUBSET Members(flat)
  BY DEF Proper
<1>1. ASSUME NEW n \in Nat, Rooted(flat, p, n), p \in Descendants(flat, found)
      PROVE  FALSE
  <2>1. PICK q \in found, m \in 0..Len(flat) : Reach(flat, q, p, m)
    <3>. HIDE DEF found
    <3> QED BY <1>0, <1>1, DescendantsAre
  <2>2. PICK r \in Members(flat) : IsRoot(r, flat) /\ Reach(flat, r, p, n)
    BY <1>1 DEF Rooted
  <2>3. m \in Nat
    BY <1>0
  <2>4. PICK k \in Nat : k # 0 /\ Reach(flat, q, q, k)
    BY CyclicReach
  <2>5. CASE m <= n
    <3>1. n - m \in Nat
      BY <2>3, <2>5
    <3>2. Reach(flat, r, q, n - m)
      BY <2>1, <2>2, <2>3, <2>5, LinesMeet
    <3>3. Rooted(flat, q, n - m)
      BY <2>2, <3>2 DEF Rooted
    <3> QED
      BY <2>4, <3>1, <3>3, RootedNoCycle
  <2>6. CASE n <= m /\ n # m
    <3>1. m - n \in Nat /\ m - n # 0
      BY <2>3, <2>6
    <3>2. Reach(flat, q, r, m - n)
      BY <2>1, <2>2, <2>3, <2>6, LinesMeet
    <3> QED
      BY <2>2, <3>1, <3>2, RootsFirst
  <2>7. m <= n \/ (n <= m /\ n # m)
    BY <2>3
  <2> QED BY <2>5, <2>6, <2>7
<1>2. ASSUME \A n \in Nat : ~Rooted(flat, p, n)
      PROVE  p \in Descendants(flat, found)
  <2> DEFINE S == {n \in Nat : \E q \in Members(flat) : Reach(flat, q, p, n)}
  <2>1. 0 \in S
    BY ReachSelf
  <2>2. ASSUME NEW n \in Nat, n \in S PROVE n + 1 \in S
    <3>1. PICK q \in Members(flat) : Reach(flat, q, p, n)
      BY <2>2
    <3>2. ~IsRoot(q, flat)
      BY <1>2, <3>1 DEF Rooted
    <3>3. PICK r \in Members(flat) : q.ppid = r.pid
      BY <3>2 DEF IsRoot
    <3>4. Reach(flat, r, q, 1)
      BY <3>2, <3>3, ReachChild DEF Below
    <3>5. Reach(flat, r, p, 1 + n) /\ 1 + n = n + 1
      BY <3>1, <3>4, ReachReach
    <3>6. Reach(flat, r, p, n + 1)
      BY <3>5
    <3> QED BY <3>6
  <2>3. Nat \subseteq S
    <3>. HIDE DEF S
    <3> QED BY <2>1, <2>2, NatSet
  <2> DEFINE len == Len(flat)
  <2>4. PICK a \in Members(flat) : Reach(flat, a, p, len)
    BY <1>0, <2>3
  <2>5. PICK c : Path(flat, c, len) /\ c[0] = a /\ c[len] = p
    BY <2>4 DEF Reach
  <2>6. len \in Nat /\ Len(flat) <= len
    BY <1>0
  <2>7. PICK i \in 0..len : \E j \in i..len : i # j /\ c[i] = c[j]
    BY <2>5, <2>6, Revisits
  <2>8. PICK j \in i..len : i # j /\ c[i] = c[j]
    BY <2>7
  <2>. HIDE DEF len
  <2>9. /\ j - i \in 1..len /\ len - i \in 0..len /\ len \in i..len
    BY <2>6, <2>8
  <2>10. Reach(flat, c[i], c[i], j - i)
    BY <2>5, <2>6, <2>8, PartOfPath
  <2>11. Reach(flat, c[i], p, len - i)
    BY <2>5, <2>6, <2>9, PartOfPath
  <2>12. c[i] \in Members(flat)
    BY <2>5 DEF Path
  <2>13. Cyclic(flat, c[i])
    BY <2>9, <2>10, <2>12, CyclicReach DEF len
  <2>14. c[i] \in found
    BY <2>12, <2>13
  <2>. HIDE DEF found
  <2> QED
    BY <1>0, <2>9, <2>11, <2>14, DescendantsAre DEF len
<1> QED
  BY <1>1, <1>2

\* So those are the processes of the forest.
LEMMA BuildIsComplete ==
  ASSUME NEW flat, Proper(flat), Len(flat) <= StackFrames
  PROVE  {node.info : node \in Nodes(Build(flat))} =
           Members(flat) \ Descendants(flat, {p \in Members(flat) : Cyclic(flat, p)})
<1> DEFINE forest == Build(flat)
           left == Descendants(flat, {p \in Members(flat) : Cyclic(flat, p)})
<1>1. ASSUME NEW node \in Nodes(forest)
      PROVE  node.info \in Members(flat) \ left
  <2>1. PICK depth \in 0..StackFrames :
          \E p \in AtDepth(flat, depth) :
            node = BuildNodes(flat)[StackFrames - depth][p]
    BY NodeOf
  <2>2. PICK p \in AtDepth(flat, depth) :
          node = BuildNodes(flat)[StackFrames - depth][p]
    BY <2>1
  <2>3. depth \in Nat
    BY TreeAssumption
  <2>4. node.info = p
    BY <2>2, <2>3, NoOverflow
  <2> QED
    BY <2>3, <2>4, RootedUnlessCyclic DEF AtDepth
<1>2. ASSUME NEW p \in Members(flat) \ left
      PROVE  \E node \in Nodes(forest) : node.info = p
  <2>1. PICK depth \in Nat : Rooted(flat, p, depth)
    BY RootedUnlessCyclic
  <2>2. p \in AtDepth(flat, depth)
    BY <2>1 DEF AtDepth
  <2>3. depth \in 0..StackFrames
    <3>1. depth < Len(flat) /\ Len(flat) \in Nat
      BY <2>1, DepthBound DEF Proper
    <3> QED BY <3>1, TreeAssumption
  <2>4. BuildNodes(flat)[StackFrames - depth][p] \in Nodes(forest)
    BY <2>2, <2>3, HasNode
  <2>5. BuildNodes(flat)[StackFrames - depth][p].info = p
    BY <2>2, NoOverflow
  <2> QED BY <2>4, <2>5
<1>. HIDE DEF forest, left
<1>3. {node.info : node \in Nodes(forest)} = Members(flat) \ left
  BY <1>1, <1>2
<1> QED
  BY <1>3 DEF forest, left

-----------------------------------------------------------------------------
(* Sums modulo 2^64.                                                       *)

\* The remainder is what a multiple of the modulus leaves.
LEMMA ModUnique ==
  ASSUME NEW W \in Nat \ {0}, NEW q \in Int, NEW r \in 0..W - 1
  PROVE  (W * q + r) % W = r
OBVIOUS

\* A number smaller than the modulus stays.
LEMMA ModSelf ==
  ASSUME NEW W \in Nat \ {0}, NEW r \in 0..W - 1
  PROVE  r % W = r
OBVIOUS

\* Every number is a multiple of the modulus and its remainder.
LEMMA ModForm ==
  ASSUME NEW W \in Nat \ {0}, NEW a \in Nat
  PROVE  \E q \in Nat : a = W * q + (a % W) /\ (a % W) \in 0..W - 1
<1> WITNESS (a \div W) \in Nat
<1> QED
  OBVIOUS

\* A sum may be reduced before it is taken.
LEMMA ModAdd ==
  ASSUME NEW W \in Nat \ {0}, NEW a \in Nat, NEW b \in Nat
  PROVE  ((a % W) + (b % W)) % W = (a + b) % W
<1> DEFINE ra == a % W
           rb == b % W
<1>1. PICK qa \in Nat : a = W * qa + ra /\ ra \in 0..W - 1
  BY ModForm
<1>2. PICK qb \in Nat : b = W * qb + rb /\ rb \in 0..W - 1
  BY ModForm
<1>3. ra + rb \in Nat
  BY <1>1, <1>2
<1> DEFINE r == (ra + rb) % W
<1>4. PICK q \in Nat : ra + rb = W * q + r /\ r \in 0..W - 1
  BY <1>3, ModForm
<1>5. (a + b) % W = (W * (qa + qb + q) + r) % W
  <2>. HIDE DEF ra, rb, r
  <2>1. W * (qa + qb + q) = W * qa + W * qb + W * q
    OBVIOUS
  <2>2. /\ W * qa \in Nat /\ W * qb \in Nat /\ W * q \in Nat
    OBVIOUS
  <2> DEFINE x == W * qa
             y == W * qb
             z == W * q
  <2>3. a = x + ra /\ b = y + rb /\ ra + rb = z + r /\ W * (qa + qb + q) = x + y + z
    BY <1>1, <1>2, <1>4, <2>1
  <2>4. x \in Nat /\ y \in Nat /\ z \in Nat /\ ra \in Nat /\ rb \in Nat /\ r \in Nat
    BY <1>1, <1>2, <1>4, <2>2
  <2>. HIDE DEF x, y, z
  <2>5. a + b = (x + y + z) + r
    BY <2>3, <2>4
  <2> QED
    BY <2>3, <2>5
<1>6. (W * (qa + qb + q) + r) % W = r
  <2>. HIDE DEF r
  <2>1. qa + qb + q \in Int
    OBVIOUS
  <2> QED
    BY <1>4, <2>1, ModUnique
<1> QED
  BY <1>5, <1>6
-----------------------------------------------------------------------------
(* The memory of some of the processes of a list.                          *)

\* The numbers of a list are uint64_t numbers.
Numbers(flat) == \A i \in DOMAIN flat : flat[i].mem \in 0..WordSize - 1

\* What is added at a position.
Adds(flat, some, i) == IF flat[i] \in some THEN flat[i].mem ELSE 0

SumsTo(flat, some, sum, n) ==
  sum = [i \in 0..n |-> IF i = 0 THEN 0 ELSE sum[i - 1] + Adds(flat, some, i)]

\* There is a function such as the one that defines the sum.
LEMMA SumsExist ==
  ASSUME NEW flat, NEW some, NEW n \in Nat
  PROVE  \E sum : SumsTo(flat, some, sum, n)
<1> DEFINE S == {m \in Nat : \E sum : SumsTo(flat, some, sum, m)}
<1>1. 0 \in S
  <2> DEFINE sum == [i \in 0..0 |-> 0]
  <2>1. SumsTo(flat, some, sum, 0)
    <3>1. \A i \in 0..0 : i = 0
      OBVIOUS
    <3> QED BY <3>1 DEF SumsTo
  <2>. HIDE DEF sum
  <2> QED BY <2>1
<1>2. ASSUME NEW m \in Nat, m \in S PROVE m + 1 \in S
  <2>1. PICK sum : SumsTo(flat, some, sum, m)
    BY <1>2
  <2> DEFINE Entry(s, i) == IF i = 0 THEN 0 ELSE s[i - 1] + Adds(flat, some, i)
  <2>2. \A i \in 0..m : sum[i] = Entry(sum, i)
    BY <2>1 DEF SumsTo
  <2> DEFINE next == [i \in 0..m + 1 |-> IF i = m + 1 THEN Entry(sum, i) ELSE sum[i]]
  <2>3. /\ next[m + 1] = Entry(sum, m + 1)
        /\ \A i \in 0..m : next[i] = sum[i]
    <3>1. \A i \in 0..m : i \in 0..m + 1 /\ i # m + 1
      OBVIOUS
    <3>2. m + 1 \in 0..m + 1
      OBVIOUS
    <3>. HIDE DEF Entry
    <3> QED BY <3>1, <3>2
  <2>4. next = [i \in 0..m + 1 |-> next[i]]
    <3>. HIDE DEF Entry
    <3> QED OBVIOUS
  <2>. HIDE DEF next
  <2>5. ASSUME NEW i \in 0..m + 1 PROVE Entry(sum, i) = Entry(next, i)
    <3>1. CASE i = 0
      BY <3>1
    <3>2. CASE i # 0
      <4>1. i - 1 \in 0..m
        BY <3>2
      <4>2. next[i - 1] = sum[i - 1]
        BY <2>3, <4>1
      <4> QED BY <3>2, <4>2
    <3> QED BY <3>1, <3>2
  <2>6. ASSUME NEW i \in 0..m + 1 PROVE next[i] = Entry(next, i)
    <3>1. i \in 0..m \/ i = m + 1
      OBVIOUS
    <3>. HIDE DEF Entry
    <3> QED BY <2>2, <2>3, <2>5, <3>1
  <2>7. next = [i \in 0..m + 1 |-> Entry(next, i)]
    <3>. HIDE DEF Entry
    <3> QED BY <2>4, <2>6
  <2>8. SumsTo(flat, some, next, m + 1)
    BY <2>7 DEF SumsTo
  <2> QED BY <2>8
<1>3. Nat \subseteq S
  <2>. HIDE DEF S
  <2> QED BY <1>1, <1>2, NatSet
<1> QED BY <1>3

\* The sum of the first of a list.
Sums(flat, some) == CHOOSE sum : SumsTo(flat, some, sum, Len(flat))

\* It grows by what is at each position.
LEMMA SumsAre ==
  ASSUME NEW flat, Len(flat) \in Nat, NEW some
  PROVE  /\ SumOver(flat, some) = Sums(flat, some)[Len(flat)]
         /\ Sums(flat, some)[0] = 0
         /\ \A i \in 1..Len(flat) :
              Sums(flat, some)[i] = Sums(flat, some)[i - 1] + Adds(flat, some, i)
<1>1. PICK sum : SumsTo(flat, some, sum, Len(flat))
  BY SumsExist
<1>2. SumsTo(flat, some, Sums(flat, some), Len(flat))
  BY <1>1 DEF Sums
<1>3. SumOver(flat, some) = Sums(flat, some)[Len(flat)]
  BY DEF SumOver, Sums, SumsTo, Adds
<1> DEFINE all == Sums(flat, some)
           size == Len(flat)
<1>4. all = [i \in 0..size |-> IF i = 0 THEN 0 ELSE all[i - 1] + Adds(flat, some, i)]
  BY <1>2 DEF SumsTo
<1>5. size \in Nat
  OBVIOUS
<1>. HIDE DEF all, size
<1>6. 0 \in 0..size /\ \A i \in 1..size : i \in 0..size /\ i # 0
  BY <1>5
<1>7. all[0] = 0 /\ \A i \in 1..size : all[i] = all[i - 1] + Adds(flat, some, i)
  BY <1>4, <1>6
<1> QED
  BY <1>3, <1>7 DEF all, size

\* Its values are numbers.
LEMMA SumsType ==
  ASSUME NEW flat, Len(flat) \in Nat, DOMAIN flat = 1..Len(flat), Numbers(flat), NEW some
  PROVE  \A i \in 0..Len(flat) : Sums(flat, some)[i] \in Nat
<1> DEFINE size == Len(flat)
           s == Sums(flat, some)
           S == {m \in Nat : m <= size => s[m] \in Nat}
<1>1. /\ size \in Nat /\ s[0] = 0
      /\ \A i \in 1..size : s[i] = s[i - 1] + Adds(flat, some, i)
  BY SumsAre
<1>2. \A i \in 1..size : Adds(flat, some, i) \in Nat
  BY TreeAssumption DEF Adds, Numbers
<1>. HIDE DEF size, s
<1>3. 0 \in S
  BY <1>1
<1>4. ASSUME NEW m \in Nat, m \in S PROVE m + 1 \in S
  <2>1. CASE m + 1 <= size
    <3>1. m + 1 \in 1..size /\ (m + 1) - 1 = m /\ m <= size
      BY <1>1, <2>1
    <3>2. s[m + 1] = s[m] + Adds(flat, some, m + 1)
      BY <1>1, <3>1
    <3> QED
      BY <1>2, <1>4, <3>1, <3>2
  <2>2. CASE ~(m + 1 <= size)
    BY <2>2
  <2> QED
    BY <2>1, <2>2
<1>5. Nat \subseteq S
  <2>. HIDE DEF S
  <2> QED BY <1>3, <1>4, NatSet
<1>6. \A i \in 0..size : i \in Nat /\ i <= size
  BY <1>1
<1>7. \A i \in 0..size : s[i] \in Nat
  BY <1>5, <1>6
<1> QED
  BY <1>7 DEF size, s

\* The sum over two sets without a common process.
LEMMA SumUnion ==
  ASSUME NEW flat, Len(flat) \in Nat, DOMAIN flat = 1..Len(flat), Numbers(flat),
         NEW some, NEW other, some \cap other = {}
  PROVE  SumOver(flat, some \cup other) = SumOver(flat, some) + SumOver(flat, other)
<1> DEFINE size == Len(flat)
           a == Sums(flat, some)
           b == Sums(flat, other)
           c == Sums(flat, some \cup other)
           S == {m \in Nat : m <= size => c[m] = a[m] + b[m]}
<1>1. /\ size \in Nat
      /\ a[0] = 0 /\ \A i \in 1..size : a[i] = a[i - 1] + Adds(flat, some, i)
      /\ b[0] = 0 /\ \A i \in 1..size : b[i] = b[i - 1] + Adds(flat, other, i)
      /\ c[0] = 0 /\ \A i \in 1..size : c[i] = c[i - 1] + Adds(flat, some \cup other, i)
  BY SumsAre
<1>2. \A i \in 1..size : Adds(flat, some, i) \in Nat /\ Adds(flat, other, i) \in Nat
  BY TreeAssumption DEF Adds, Numbers
<1>3. \A i \in 1..size :
        Adds(flat, some \cup other, i) = Adds(flat, some, i) + Adds(flat, other, i)
  BY TreeAssumption DEF Adds, Numbers
<1>4. \A i \in 0..size : a[i] \in Nat /\ b[i] \in Nat
  BY SumsType
<1>5. /\ SumOver(flat, some) = a[size] /\ SumOver(flat, other) = b[size]
      /\ SumOver(flat, some \cup other) = c[size]
  BY SumsAre
<1>. HIDE DEF size, a, b, c
<1>6. 0 \in S
  BY <1>1
<1>7. ASSUME NEW m \in Nat, m \in S PROVE m + 1 \in S
  <2>1. CASE m + 1 <= size
    <3>1. m + 1 \in 1..size /\ (m + 1) - 1 = m /\ m <= size /\ m \in 0..size
      BY <1>1, <2>1
    <3> DEFINE x == Adds(flat, some, m + 1)
               y == Adds(flat, other, m + 1)
               z == Adds(flat, some \cup other, m + 1)
    <3>2. a[m + 1] = a[m] + x /\ b[m + 1] = b[m] + y /\ c[m + 1] = c[m] + z
      BY <1>1, <3>1
    <3>3. z = x + y /\ x \in Nat /\ y \in Nat
      BY <1>2, <1>3, <3>1
    <3>4. c[m] = a[m] + b[m] /\ a[m] \in Nat /\ b[m] \in Nat
      BY <1>4, <1>7, <3>1
    <3>. HIDE DEF x, y, z
    <3> QED
      BY <3>2, <3>3, <3>4
  <2>2. CASE ~(m + 1 <= size)
    BY <2>2
  <2> QED
    BY <2>1, <2>2
<1>8. Nat \subseteq S
  <2>. HIDE DEF S
  <2> QED BY <1>6, <1>7, NatSet
<1>9. c[size] = a[size] + b[size]
  BY <1>1, <1>8
<1> QED
  BY <1>5, <1>9

\* The sum over one process.
LEMMA SumOne ==
  ASSUME NEW flat, Proper(flat), Numbers(flat), NEW p \in Members(flat)
  PROVE  SumOver(flat, {p}) = p.mem
<1>0. Len(flat) \in Nat /\ DOMAIN flat = 1..Len(flat)
  BY DEF Proper
<1> DEFINE size == Len(flat)
           s == Sums(flat, {p})
<1>1. /\ s[0] = 0 /\ \A i \in 1..size : s[i] = s[i - 1] + Adds(flat, {p}, i)
      /\ SumOver(flat, {p}) = s[size]
  BY <1>0, SumsAre
<1>2. PICK k \in 1..size : flat[k] = p
  BY <1>0 DEF Members
<1>3. \A i \in 1..size : Adds(flat, {p}, i) = IF i = k THEN p.mem ELSE 0
  BY <1>0, <1>2 DEF Adds, Proper
<1>4. p.mem \in Nat /\ size \in Nat
  BY <1>0, <1>2, TreeAssumption DEF Numbers
<1> DEFINE S == {m \in Nat : m <= size => s[m] = IF k <= m THEN p.mem ELSE 0}
<1>. HIDE DEF size, s
<1>5. 0 \in S
  BY <1>1, <1>2, <1>4
<1>6. ASSUME NEW m \in Nat, m \in S PROVE m + 1 \in S
  <2>1. CASE m + 1 <= size
    <3>1. m + 1 \in 1..size /\ (m + 1) - 1 = m /\ m <= size
      BY <1>4, <2>1
    <3>2. s[m + 1] = s[m] + IF m + 1 = k THEN p.mem ELSE 0
      BY <1>1, <1>3, <3>1
    <3>3. s[m] = IF k <= m THEN p.mem ELSE 0
      BY <1>6, <3>1
    <3>4. k \in Nat
      BY <1>2
    <3>5. CASE m + 1 = k
      BY <1>4, <3>2, <3>3, <3>4, <3>5
    <3>6. CASE m + 1 # k
      BY <1>4, <3>2, <3>3, <3>4, <3>6
    <3> QED
      BY <3>5, <3>6
  <2>2. CASE ~(m + 1 <= size)
    BY <2>2
  <2> QED
    BY <2>1, <2>2
<1>7. Nat \subseteq S
  <2>. HIDE DEF S
  <2> QED BY <1>5, <1>6, NatSet
<1>8. s[size] = p.mem
  BY <1>2, <1>4, <1>7
<1> QED
  BY <1>1, <1>8

-----------------------------------------------------------------------------
(* The descendants of a process of the forest.                             *)

\* They are those a line leads to, however long it is.
LEMMA DescendantsOf ==
  ASSUME NEW flat, Proper(flat), NEW d \in Nat, NEW p, Rooted(flat, p, d), NEW r
  PROVE  r \in Descendants(flat, {p}) <=> \E n \in Nat : Reach(flat, p, r, n)
<1>1. PICK root \in Members(flat) : IsRoot(root, flat) /\ Reach(flat, root, p, d)
  BY DEF Rooted
<1>2. {p} \in SUBSET Members(flat) /\ Len(flat) \in Nat
  BY <1>1, ReachEnds DEF Proper
<1>3. r \in Descendants(flat, {p}) <=> \E n \in 0..Len(flat) : Reach(flat, p, r, n)
  BY <1>2, DescendantsAre
<1>4. ASSUME NEW n \in Nat, Reach(flat, p, r, n)
      PROVE  n \in 0..Len(flat)
  <2>1. Rooted(flat, r, d + n) /\ d + n \in Nat
    <3>1. Reach(flat, root, r, d + n) /\ d + n \in Nat
      BY <1>1, <1>4, ReachReach
    <3> QED
      BY <1>1, <3>1 DEF Rooted
  <2>2. d + n < Len(flat)
    BY <2>1, DepthBound
  <2> QED
    BY <1>2, <2>2
<1> QED
  BY <1>2, <1>3, <1>4

\* A child of a process is one deeper.
LEMMA ChildDepth ==
  ASSUME NEW flat, NEW d \in Nat, NEW p \in AtDepth(flat, d), NEW q, Below(flat, q, p)
  PROVE  q \in AtDepth(flat, d + 1)
<1>1. q \in Members(flat) /\ p \in Members(flat)
  BY DEF AtDepth, Below
<1> QED
  BY <1>1, AtDepthIs

\* A process, and the descendants of its children.
LEMMA DescendantsSplit ==
  ASSUME NEW flat, Proper(flat), NEW d \in Nat, NEW p \in AtDepth(flat, d)
  PROVE  LET below(q) == Descendants(flat, {q})
             children == {q \in Members(flat) : Below(flat, q, p)} IN
         /\ below(p) = {p} \cup UNION {below(q) : q \in children}
         /\ \A q \in children : p \notin below(q)
         /\ \A q, r \in children : q # r => below(q) \cap below(r) = {}
<1> DEFINE below(q) == Descendants(flat, {q})
           children == {q \in Members(flat) : Below(flat, q, p)}
<1>1. p \in Members(flat) /\ Rooted(flat, p, d)
  BY DEF AtDepth
<1>2. ASSUME NEW q \in children
      PROVE  Below(flat, q, p) /\ Rooted(flat, q, d + 1) /\ Reach(flat, p, q, 1)
  BY <1>1, ChildDepth, ReachChild DEF AtDepth
<1>3. \A r : r \in below(p) <=> \E n \in Nat : Reach(flat, p, r, n)
  BY <1>1, DescendantsOf
<1>4. \A q \in children : \A r : r \in below(q) <=> \E n \in Nat : Reach(flat, q, r, n)
  <2>1. d + 1 \in Nat
    OBVIOUS
  <2> QED
    BY <1>2, <2>1, DescendantsOf
<1>. HIDE DEF below
<1>5. p \in below(p)
  BY <1>1, <1>3, ReachSelf
<1>6. ASSUME NEW q \in children, NEW r \in below(q) PROVE r \in below(p)
  <2>1. PICK n \in Nat : Reach(flat, q, r, n)
    BY <1>4
  <2>2. Reach(flat, p, r, 1 + n) /\ 1 + n \in Nat
    BY <1>2, <2>1, ReachReach
  <2> QED
    BY <1>3, <2>2
<1>7. ASSUME NEW r \in below(p), r # p PROVE \E q \in children : r \in below(q)
  <2>1. PICK n \in Nat : Reach(flat, p, r, n)
    BY <1>3
  <2>2. n # 0
    BY <1>7, <2>1, ReachEnds
  <2>3. PICK c : Path(flat, c, n) /\ c[0] = p /\ c[n] = r
    BY <2>1 DEF Reach
  <2>4. /\ 0 \in 0..n - 1 /\ 0 + 1 = 1 /\ 1 \in 0..n /\ n \in 0..n /\ n \in 1..n
        /\ n - 1 \in Nat
    BY <2>2
  <2>5. c[1] \in children
    BY <2>3, <2>4 DEF Path, Below
  <2>6. Reach(flat, c[1], r, n - 1)
    BY <2>3, <2>4, PartOfPath
  <2> QED
    BY <1>4, <2>4, <2>5, <2>6
<1>8. below(p) = {p} \cup UNION {below(q) : q \in children}
  <2>. HIDE DEF children
  <2> QED
    BY <1>5, <1>6, <1>7
<1>9. ASSUME NEW q \in children, p \in below(q) PROVE FALSE
  <2>1. PICK n \in Nat : Reach(flat, q, p, n)
    BY <1>4, <1>9
  <2>2. Reach(flat, p, p, 1 + n) /\ 1 + n \in Nat /\ 1 + n # 0
    BY <1>2, <2>1, ReachReach
  <2> QED
    BY <1>1, <2>2, RootedNoCycle
<1>10. ASSUME NEW q \in children, NEW r \in children, NEW s,
              s \in below(q), s \in below(r)
       PROVE  q = r
  <2>1. PICK n \in Nat : Reach(flat, q, s, n)
    BY <1>4, <1>10
  <2>2. PICK m \in Nat : Reach(flat, r, s, m)
    BY <1>4, <1>10
  <2>3. Rooted(flat, s, (d + 1) + n) /\ Rooted(flat, s, (d + 1) + m)
    <3>1. d + 1 \in Nat
      OBVIOUS
    <3>2. \A t, k : t \in children /\ k \in Nat /\ Reach(flat, t, s, k)
                    => Rooted(flat, s, (d + 1) + k)
      BY <1>2, <3>1, ReachReach DEF Rooted
    <3> QED
      BY <2>1, <2>2, <3>2
  <2>4. n = m
    BY <2>3, OneDepth
  <2>5. Reach(flat, r, q, n - n) /\ n - n = 0 /\ n <= n
    BY <2>1, <2>2, <2>4, LinesMeet
  <2> QED
    BY <2>5, ReachEnds
<1>11. \A q, r \in children : q # r => below(q) \cap below(r) = {}
  BY <1>10
<1> QED
  BY <1>8, <1>9, <1>11 DEF below

-----------------------------------------------------------------------------
(* The aggregate of a node.                                                *)

\* The node of a process so many calls below build.
IsNode(flat, node, depth) ==
  \E p \in AtDepth(flat, depth) : node = BuildNodes(flat)[StackFrames - depth][p]

\* The children of a process are a sequence.
LEMMA ChildrenListed ==
  ASSUME NEW flat, Proper(flat), NEW p
  PROVE  LET infos == Children(flat, p.pid) IN
         Len(infos) \in Nat /\ DOMAIN infos = 1..Len(infos)
<1> DEFINE infos == Children(flat, p.pid)
           P == {i \in DOMAIN flat : flat[i].ppid = p.pid /\ ~IsRoot(flat[i], flat)}
<1>0. Len(flat) \in Nat /\ DOMAIN flat = 1..Len(flat)
  BY DEF Proper
<1>1. P \in SUBSET (1..Len(flat)) /\ infos = Selected(flat, P)
  BY <1>0 DEF Children
<1>2. IsListing(Selected(flat, P))
  <2>. HIDE DEF P
  <2> QED
    BY <1>0, <1>1, SelectedSequence
<1>. HIDE DEF infos, P
<1>3. PICK c \in Nat : infos = [k \in 1..c |-> infos[k]]
  BY <1>1, <1>2 DEF IsListing
<1>4. Len(infos) \in Nat /\ DOMAIN infos = 1..Len(infos)
  BY <1>3
<1> QED
  BY <1>4 DEF infos

\* Its children are the nodes of the process's children.
LEMMA NodeIs ==
  ASSUME NEW flat, Proper(flat), Len(flat) <= StackFrames,
         NEW depth \in Nat, NEW node, IsNode(flat, node, depth)
  PROVE  /\ depth < StackFrames
         /\ node.info \in AtDepth(flat, depth)
         /\ Len(node.children) \in Nat /\ DOMAIN node.children = 1..Len(node.children)
         /\ Len(node.children) = Len(Children(flat, node.info.pid))
         /\ \A i \in 1..Len(node.children) :
              /\ IsNode(flat, node.children[i], depth + 1)
              /\ node.children[i].info = Children(flat, node.info.pid)[i]
<1>1. PICK p \in AtDepth(flat, depth) : node = BuildNodes(flat)[StackFrames - depth][p]
  BY DEF IsNode
<1> DEFINE frames == StackFrames - depth
           infos == Children(flat, p.pid)
<1>2. frames \in 1..StackFrames /\ node.info = p
  BY <1>1, NoOverflow
<1>3. /\ frames \in 0..StackFrames /\ frames # 0
      /\ depth < StackFrames /\ frames - 1 = StackFrames - (depth + 1) /\ depth + 1 \in Nat
  BY <1>2, TreeAssumption
<1>4. p \in Members(flat)
  BY DEF AtDepth
<1>5. node = [info |-> p,
              children |-> [i \in DOMAIN infos |-> BuildNodes(flat)[frames - 1][infos[i]]]]
  <2>1. BuildNodes(flat)[frames][p] =
          IF frames = 0 THEN Overflow
          ELSE [info |-> p,
                children |-> [i \in DOMAIN infos |-> BuildNodes(flat)[frames - 1][infos[i]]]]
    BY <1>3, <1>4, BuildNode
  <2> QED
    BY <1>1, <1>3, <2>1
<1>. HIDE DEF frames, infos
<1>6. /\ node.children = [i \in DOMAIN infos |-> node.children[i]]
      /\ \A i \in DOMAIN infos : node.children[i] = BuildNodes(flat)[frames - 1][infos[i]]
  BY <1>5
<1> DEFINE children == node.children
           size == Len(infos)
<1>7. size \in Nat /\ DOMAIN infos = 1..size
  BY ChildrenListed DEF infos
<1>8. Len(children) = size /\ DOMAIN children = 1..size
  <2>1. children = [i \in 1..size |-> children[i]]
    BY <1>6, <1>7
  <2>. HIDE DEF children, size
  <2> QED
    BY <1>7, <2>1
<1>. HIDE DEF size
<1>9. ASSUME NEW i \in 1..size
      PROVE  IsNode(flat, node.children[i], depth + 1) /\ node.children[i].info = infos[i]
  <2>0. i \in DOMAIN infos
    BY <1>7
  <2>1. Below(flat, infos[i], p)
    BY <2>0, ChildrenAre DEF infos, Members
  <2>2. infos[i] \in AtDepth(flat, depth + 1)
    BY <2>1, ChildDepth
  <2>3. node.children[i] = BuildNodes(flat)[StackFrames - (depth + 1)][infos[i]]
    BY <1>3, <1>6, <2>0
  <2> QED
    BY <1>3, <2>2, <2>3, NoOverflow DEF IsNode
<1> QED
  BY <1>2, <1>3, <1>7, <1>8, <1>9 DEF infos, size

\* The nodes below a node, at their depths in the forest.
LEMMA LevelsOfNode ==
  ASSUME NEW flat, Proper(flat), Len(flat) <= StackFrames,
         NEW depth \in Nat, NEW node, IsNode(flat, node, depth)
  PROVE  \A k \in 0..StackFrames : \A n \in Levels(<<node>>)[k] : IsNode(flat, n, depth + k)
<1> DEFINE levels == Levels(<<node>>)
           S == {k \in Nat : k <= StackFrames =>
                   \A n \in levels[k] : IsNode(flat, n, depth + k)}
<1>1. Members(<<node>>) = {node}
  BY DEF Members
<1>2. /\ levels[0] = {node}
      /\ \A k \in 1..StackFrames : levels[k] = UNION {Members(n.children) : n \in levels[k - 1]}
  <2>1. 0 \in 0..StackFrames /\ \A k \in 1..StackFrames : k \in 0..StackFrames /\ k # 0
    BY TreeAssumption
  <2> QED
    BY <1>1, <2>1, LevelsAre
<1>. HIDE DEF levels
<1>3. 0 \in S
  <2>1. depth + 0 = depth
    OBVIOUS
  <2> QED
    BY <1>2, <2>1
<1>4. ASSUME NEW k \in Nat, k \in S PROVE k + 1 \in S
  <2> SUFFICES ASSUME k + 1 <= StackFrames, NEW n \in levels[k + 1]
               PROVE  IsNode(flat, n, depth + (k + 1))
    OBVIOUS
  <2>1. k + 1 \in 1..StackFrames /\ (k + 1) - 1 = k /\ k <= StackFrames
    BY TreeAssumption
  <2>2. PICK above \in levels[k] : n \in Members(above.children)
    BY <1>2, <2>1
  <2>3. IsNode(flat, above, depth + k) /\ depth + k \in Nat
    BY <1>4, <2>1
  <2>4. \A i \in DOMAIN above.children : IsNode(flat, above.children[i], (depth + k) + 1)
    BY <2>3, NodeIs
  <2>5. PICK i \in DOMAIN above.children : n = above.children[i]
    BY <2>2 DEF Members
  <2>6. (depth + k) + 1 = depth + (k + 1)
    OBVIOUS
  <2>7. IsNode(flat, n, (depth + k) + 1)
    BY <2>4, <2>5
  <2> QED
    BY <2>6, <2>7
<1>5. Nat \subseteq S
  <2>. HIDE DEF S
  <2> QED BY <1>3, <1>4, NatSet
<1>6. \A k \in 0..StackFrames : k \in Nat /\ k <= StackFrames
  BY TreeAssumption
<1>7. \A k \in 0..StackFrames : \A n \in levels[k] : IsNode(flat, n, depth + k)
  BY <1>5, <1>6
<1> QED
  BY <1>7 DEF levels

\* What a node and the nodes under it should come to.
TotalOf(flat, info) == SumOver(flat, Descendants(flat, {info})) % WordSize

\* A process and the processes under the first of its children.
UpTo(flat, p, n) ==
  {p} \cup UNION {Descendants(flat, {Children(flat, p.pid)[i]}) : i \in 1..n}

\* Each child brings other processes, and all together the descendants.
LEMMA UpToIs ==
  ASSUME NEW flat, Proper(flat), NEW depth \in Nat, NEW p \in AtDepth(flat, depth)
  PROVE  LET infos == Children(flat, p.pid) IN
         /\ UpTo(flat, p, 0) = {p}
         /\ UpTo(flat, p, Len(infos)) = Descendants(flat, {p})
         /\ \A n \in 1..Len(infos) :
              /\ UpTo(flat, p, n) = UpTo(flat, p, n - 1) \cup Descendants(flat, {infos[n]})
              /\ UpTo(flat, p, n - 1) \cap Descendants(flat, {infos[n]}) = {}
<1> DEFINE infos == Children(flat, p.pid)
           size == Len(infos)
           below(q) == Descendants(flat, {q})
           under(n) == UNION {below(infos[i]) : i \in 1..n}
<1>1. size \in Nat /\ DOMAIN infos = 1..size
  BY ChildrenListed
<1>2. \A n : UpTo(flat, p, n) = {p} \cup under(n)
  BY DEF UpTo
<1>3. /\ below(p) = {p} \cup UNION {below(q) : q \in Members(infos)}
      /\ \A q \in Members(infos) : p \notin below(q)
      /\ \A q, r \in Members(infos) : q # r => below(q) \cap below(r) = {}
      /\ \A i, j \in DOMAIN infos : infos[i] = infos[j] => i = j
  <2> DEFINE children == {q \in Members(flat) : Below(flat, q, p)}
  <2>1. /\ Members(infos) = children
        /\ \A i, j \in DOMAIN infos : infos[i] = infos[j] => i = j
    BY ChildrenAre
  <2>2. /\ below(p) = {p} \cup UNION {below(q) : q \in children}
        /\ \A q \in children : p \notin below(q)
        /\ \A q, r \in children : q # r => below(q) \cap below(r) = {}
    BY DescendantsSplit
  <2>. HIDE DEF infos, children, below
  <2> QED
    BY <2>1, <2>2
<1>. HIDE DEF infos, size, below
<1>4. under(0) = {}
  <2>1. 1..0 = {}
    OBVIOUS
  <2> QED
    BY <2>1
<1>5. under(size) = UNION {below(q) : q \in Members(infos)}
  BY <1>1 DEF Members
<1>6. ASSUME NEW n \in 1..size
      PROVE  /\ under(n) = under(n - 1) \cup below(infos[n])
             /\ ({p} \cup under(n - 1)) \cap below(infos[n]) = {}
  <2>1. 1..n = (1..n - 1) \cup {n}
    BY <1>1
  <2>2. under(n) = under(n - 1) \cup below(infos[n])
    BY <2>1
  <2>3. \A i \in 1..n - 1 : i \in 1..size /\ i # n
    BY <1>1
  <2>4. infos[n] \in Members(infos) /\ \A i \in 1..n - 1 : infos[i] \in Members(infos)
    BY <1>1, <2>3 DEF Members
  <2>5. \A i \in 1..n - 1 : infos[i] # infos[n]
    BY <1>1, <1>3, <2>3
  <2>6. \A i \in 1..n - 1 : below(infos[i]) \cap below(infos[n]) = {}
    BY <1>3, <2>4, <2>5
  <2>7. p \notin below(infos[n])
    BY <1>3, <2>4
  <2> QED
    BY <2>2, <2>6, <2>7
<1>. HIDE DEF under
<1>7. /\ UpTo(flat, p, 0) = {p} /\ UpTo(flat, p, size) = below(p)
      /\ \A n \in 1..size :
           /\ UpTo(flat, p, n) = UpTo(flat, p, n - 1) \cup below(infos[n])
           /\ UpTo(flat, p, n - 1) \cap below(infos[n]) = {}
  BY <1>2, <1>3, <1>4, <1>5, <1>6
<1> QED
  BY <1>7 DEF infos, size, below

\* It comes to that if its children do.
LEMMA AccumulateIs ==
  ASSUME NEW flat, Proper(flat), Numbers(flat), Len(flat) <= StackFrames,
         NEW depth \in Nat, NEW node, IsNode(flat, node, depth), NEW total,
         \A i \in DOMAIN node.children :
           total[node.children[i]] = TotalOf(flat, node.children[i].info)
  PROVE  Accumulate(node, total) = TotalOf(flat, node.info)
<1> DEFINE p == node.info
           infos == Children(flat, p.pid)
           size == Len(infos)
           below(q) == Descendants(flat, {q})
           upTo(i) == UpTo(flat, p, i)
           sumOf(some) == SumOver(flat, some)
<1>0. Len(flat) \in Nat /\ DOMAIN flat = 1..Len(flat)
  BY DEF Proper
<1>1. /\ p \in AtDepth(flat, depth) /\ p \in Members(flat)
      /\ size \in Nat /\ Len(node.children) = size /\ DOMAIN node.children = 1..size
      /\ \A i \in 1..size : node.children[i].info = infos[i]
  <2>1. /\ p \in AtDepth(flat, depth)
        /\ Len(node.children) \in Nat /\ DOMAIN node.children = 1..Len(node.children)
        /\ Len(node.children) = size
        /\ \A i \in 1..Len(node.children) : node.children[i].info = infos[i]
    BY NodeIs
  <2>2. p \in Members(flat)
    BY <2>1 DEF AtDepth
  <2> QED
    BY <2>1, <2>2
<1>4. \A i \in 1..size : total[node.children[i]] = sumOf(below(infos[i])) % WordSize
  BY <1>1 DEF TotalOf
<1>6. upTo(0) = {p} /\ upTo(size) = below(p)
  BY <1>1, UpToIs
<1>7. ASSUME NEW i \in 1..size
      PROVE  upTo(i) = upTo(i - 1) \cup below(infos[i]) /\ upTo(i - 1) \cap below(infos[i]) = {}
  BY <1>1, UpToIs
<1>8. \A some : sumOf(some) \in Nat
  <2> SUFFICES ASSUME NEW some PROVE sumOf(some) \in Nat
    OBVIOUS
  <2>1. Len(flat) \in 0..Len(flat)
    BY <1>0
  <2> QED
    BY <1>0, <2>1, SumsAre, SumsType
<1>9. ASSUME NEW i \in 1..size
      PROVE  sumOf(upTo(i)) % WordSize =
               ((sumOf(upTo(i - 1)) % WordSize) + total[node.children[i]]) % WordSize
  <2>1. sumOf(upTo(i)) = sumOf(upTo(i - 1)) + sumOf(below(infos[i]))
    BY <1>0, <1>7, SumUnion
  <2> DEFINE a == sumOf(upTo(i - 1))
             b == sumOf(below(infos[i]))
  <2>2. a \in Nat /\ b \in Nat /\ WordSize \in Nat \ {0}
    BY <1>8, TreeAssumption
  <2>3. total[node.children[i]] = b % WordSize /\ sumOf(upTo(i)) = a + b
    BY <1>4, <2>1
  <2>. HIDE DEF a, b, upTo, sumOf
  <2>4. ((a % WordSize) + (b % WordSize)) % WordSize = (a + b) % WordSize
    BY <2>2, ModAdd
  <2> QED
    BY <2>3, <2>4 DEF a
<1>10. sumOf(upTo(0)) % WordSize = p.mem
  <2>1. sumOf(upTo(0)) = p.mem
    BY <1>1, <1>6, SumOne
  <2>2. p.mem \in 0..WordSize - 1
    BY <1>1 DEF Members, Numbers
  <2> QED
    BY <2>1, <2>2, ModSelf, TreeAssumption
<1> DEFINE Step(s) == [i \in 0..size |->
                         IF i = 0 THEN p.mem
                         ELSE (s[i - 1] + total[node.children[i]]) % WordSize]
           sums == [i \in 0..size |-> sumOf(upTo(i)) % WordSize]
           sum == CHOOSE s : s = Step(s)
<1>11. sums = Step(sums)
  <2>. HIDE DEF sumOf, upTo, p, size
  <2>1. ASSUME NEW i \in 0..size
        PROVE  sums[i] = IF i = 0 THEN p.mem
                         ELSE (sums[i - 1] + total[node.children[i]]) % WordSize
    <3>1. CASE i = 0
      BY <1>10, <3>1
    <3>2. CASE i # 0
      <4>1. i \in 1..size /\ i - 1 \in 0..size
        BY <1>1, <3>2
      <4> QED
        BY <1>9, <3>2, <4>1
    <3> QED
      BY <3>1, <3>2
  <2>2. sums = [i \in 0..size |-> sums[i]]
    OBVIOUS
  <2>. HIDE DEF sums
  <2> QED
    BY <2>1, <2>2
<1>12. sum = Step(sum)
  <2>. HIDE DEF sums, Step
  <2> QED
    BY <1>11
<1>13. Accumulate(node, total) = sum[size]
  BY <1>1 DEF Accumulate
<1> DEFINE S == {m \in Nat : m <= size => sum[m] = sumOf(upTo(m)) % WordSize}
<1>14. /\ sum[0] = p.mem
       /\ \A i \in 1..size : sum[i] = (sum[i - 1] + total[node.children[i]]) % WordSize
  <2>1. 0 \in 0..size /\ \A i \in 1..size : i \in 0..size /\ i # 0
    BY <1>1
  <2>. HIDE DEF sum, size, p
  <2> QED
    BY <1>12, <2>1
<1>. HIDE DEF sum, sums, Step, sumOf, upTo, size, p, infos
<1>15. 0 \in S
  BY <1>10, <1>14
<1>16. ASSUME NEW m \in Nat, m \in S PROVE m + 1 \in S
  <2>1. CASE m + 1 <= size
    <3>1. m + 1 \in 1..size /\ (m + 1) - 1 = m /\ m <= size
      BY <1>1, <2>1
    <3> QED
      BY <1>9, <1>14, <1>16, <3>1
  <2>2. CASE ~(m + 1 <= size)
    BY <2>2
  <2> QED
    BY <2>1, <2>2
<1>17. Nat \subseteq S
  <2>. HIDE DEF S
  <2> QED BY <1>15, <1>16, NatSet
<1>18. sum[size] = sumOf(upTo(size)) % WordSize
  BY <1>1, <1>17
<1> QED
  BY <1>6, <1>13, <1>18 DEF TotalOf, sumOf, p

\* The aggregate of a node is the sum over the descendants of its process.
LEMMA AggregateIs ==
  ASSUME NEW flat, Proper(flat), Numbers(flat), Len(flat) <= StackFrames,
         NEW depth \in Nat, NEW node, IsNode(flat, node, depth)
  PROVE  Aggregate(node) = TotalOf(flat, node.info)
<1> DEFINE levels == Levels(<<node>>)
           below == Nodes(<<node>>)
           Step(t) == [n \in below |-> Accumulate(n, t)]
           totals == [n \in below |-> TotalOf(flat, n.info)]
           total == CHOOSE t : t = Step(t)
<1>1. \A k \in 0..StackFrames : \A n \in levels[k] : IsNode(flat, n, depth + k)
  BY LevelsOfNode
<1>2. below = UNION {levels[k] : k \in 0..StackFrames}
  BY DEF Nodes
<1>3. node \in levels[0] /\ 0 \in 0..StackFrames
  <2>1. 0 \in 0..StackFrames
    BY TreeAssumption
  <2>2. levels[0] = Members(<<node>>)
    BY <2>1, LevelsAre
  <2>3. 1 \in DOMAIN <<node>> /\ <<node>>[1] = node
    OBVIOUS
  <2>. HIDE DEF levels
  <2> QED
    BY <2>1, <2>2, <2>3 DEF Members
\* The children of a node below are one level down.
<1>4. ASSUME NEW k \in 0..StackFrames, NEW n \in levels[k], NEW i \in DOMAIN n.children
      PROVE  /\ k + 1 \in 0..StackFrames /\ n.children[i] \in levels[k + 1]
             /\ n.children[i] \in below
  <2>1. depth + k < StackFrames
    <3>1. IsNode(flat, n, depth + k) /\ depth + k \in Nat
      BY <1>1
    <3> QED
      BY <3>1, NodeIs
  <2>2. k + 1 \in 0..StackFrames /\ k + 1 # 0 /\ (k + 1) - 1 = k
    BY <2>1, TreeAssumption
  <2>3. levels[k + 1] = UNION {Members(a.children) : a \in levels[k]}
    BY <2>2, LevelsAre
  <2>4. n.children[i] \in Members(n.children)
    BY DEF Members
  <2>5. n.children[i] \in levels[k + 1]
    <3>. HIDE DEF levels
    <3> QED
      BY <2>3, <2>4
  <2>. HIDE DEF levels, below
  <2> QED
    BY <1>2, <2>2, <2>5
<1>5. ASSUME NEW k \in 0..StackFrames, NEW n \in levels[k], NEW t,
             \A i \in DOMAIN n.children :
               t[n.children[i]] = TotalOf(flat, n.children[i].info)
      PROVE  Accumulate(n, t) = TotalOf(flat, n.info)
  <2>1. IsNode(flat, n, depth + k) /\ depth + k \in Nat
    BY <1>1
  <2> QED
    BY <1>5, <2>1, AccumulateIs
<1>. HIDE DEF levels, below
<1>6. totals = Step(totals)
  <2>1. ASSUME NEW n \in below PROVE Accumulate(n, totals) = TotalOf(flat, n.info)
    <3>1. PICK k \in 0..StackFrames : n \in levels[k]
      BY <1>2
    <3>2. \A i \in DOMAIN n.children : n.children[i] \in below
      BY <1>4, <3>1
    <3>3. \A i \in DOMAIN n.children :
            totals[n.children[i]] = TotalOf(flat, n.children[i].info)
      BY <3>2
    <3>. HIDE DEF totals
    <3> QED
      BY <1>5, <3>1, <3>3
  <2> QED
    BY <2>1
<1>7. total = Step(total)
  <2>. HIDE DEF totals, Step
  <2> QED
    BY <1>6
<1>8. Aggregate(node) = total[node]
  BY DEF Aggregate, below
<1>9. \A n \in below : total[n] = Accumulate(n, total)
  <2>. HIDE DEF total
  <2> QED
    BY <1>7
<1>. HIDE DEF total, totals, Step
\* From the deepest level up.
<1> DEFINE S == {m \in Nat : \A k \in 0..StackFrames : k + m = StackFrames =>
                   \A n \in levels[k] : total[n] = TotalOf(flat, n.info)}
<1>10. ASSUME NEW k \in 0..StackFrames, NEW n \in levels[k],
              k + 1 \in 0..StackFrames =>
                \A child \in levels[k + 1] : total[child] = TotalOf(flat, child.info)
       PROVE  total[n] = TotalOf(flat, n.info)
  <2>1. \A i \in DOMAIN n.children :
          total[n.children[i]] = TotalOf(flat, n.children[i].info)
    BY <1>4, <1>10
  <2>2. Accumulate(n, total) = TotalOf(flat, n.info)
    BY <1>5, <2>1
  <2> QED
    BY <1>2, <1>9, <2>2
<1>11. 0 \in S
  <2>1. \A k \in 0..StackFrames : k + 0 = StackFrames => k + 1 \notin 0..StackFrames
    BY TreeAssumption
  <2> QED
    BY <1>10, <2>1
<1>12. ASSUME NEW m \in Nat, m \in S PROVE m + 1 \in S
  <2> SUFFICES ASSUME NEW k \in 0..StackFrames, k + (m + 1) = StackFrames,
                      NEW n \in levels[k]
               PROVE  total[n] = TotalOf(flat, n.info)
    OBVIOUS
  <2>1. (k + 1) + m = StackFrames
    BY TreeAssumption
  <2>2. k + 1 \in 0..StackFrames =>
          \A child \in levels[k + 1] : total[child] = TotalOf(flat, child.info)
    BY <1>12, <2>1
  <2> QED
    BY <1>10, <2>2
<1>13. Nat \subseteq S
  <2>. HIDE DEF S
  <2> QED BY <1>11, <1>12, NatSet
<1>14. total[node] = TotalOf(flat, node.info)
  <2>1. StackFrames \in S /\ 0 + StackFrames = StackFrames
    BY <1>13, TreeAssumption
  <2> QED
    BY <1>3, <2>1
<1> QED
  BY <1>8, <1>14

\* So it is for every node of the forest of a list.
LEMMA AggregateIsTotal ==
  ASSUME NEW flat, Proper(flat), Numbers(flat), Len(flat) <= StackFrames,
         NEW node \in Nodes(Build(flat))
  PROVE  Aggregate(node) = SumOver(flat, Descendants(flat, {node.info})) % WordSize
<1>1. PICK depth \in 0..StackFrames : IsNode(flat, node, depth)
  BY NodeOf DEF IsNode
<1>2. depth \in Nat
  BY TreeAssumption
<1> QED
  BY <1>1, <1>2, AggregateIs DEF TotalOf

-----------------------------------------------------------------------------
(* The picture of a tree.                                                  *)

\* A line of it.
LineOf(flat) ==
  [pid : {p.pid : p \in Members(flat)}, indent : Seq(BOOLEAN), last : BOOLEAN]

Depth(lines, i) == Len(lines[i].indent)

\* A line of the same depth further down, with none less deep in between.
SiblingAt(lines, i, j) ==
  /\ i < j /\ Depth(lines, i) = Depth(lines, j)
  /\ \A k \in i + 1..j : Depth(lines, k) >= Depth(lines, i)

HasSibling(lines, i) == \E j \in 1..Len(lines) : SiblingAt(lines, i, j)

\* A line further up that is the parent's.
ParentAt(flat, lines, i, j) ==
  /\ Depth(lines, j) = Depth(lines, i) - 1
  /\ \A p \in Members(flat) : p.pid = lines[i].pid => p.ppid = lines[j].pid
  /\ \A k \in j + 1..i : Depth(lines, k) > Depth(lines, j)
  /\ lines[i].indent = Append(lines[j].indent, lines[j].last)

HasParent(flat, lines, i) == \E j \in 1..i - 1 : ParentAt(flat, lines, i, j)

\* The first line is a process's and the others are deeper.
Begins(flat, lines, p, indent, last) ==
  /\ lines \in Seq(LineOf(flat)) /\ Len(lines) > 0
  /\ lines[1] = [pid |-> p.pid, indent |-> indent, last |-> last]
  /\ \A i \in 2..Len(lines) : Depth(lines, i) > Len(indent)

\* Every one of some processes has one line.
Draws(lines, some) ==
  /\ {lines[i].pid : i \in 1..Len(lines)} = {p.pid : p \in some}
  /\ \A i, j \in 1..Len(lines) : lines[i].pid = lines[j].pid => i = j

\* The lines of a process and its descendants.
Drawn(flat, lines, p, indent, last) ==
  /\ Begins(flat, lines, p, indent, last)
  /\ Draws(lines, Descendants(flat, {p}))
  /\ \A i \in 2..Len(lines) :
       HasParent(flat, lines, i) /\ (lines[i].last <=> ~HasSibling(lines, i))

\* The lines of a process and the descendants of its first k children.
DrawnUpTo(flat, lines, p, indent, last, k) ==
  LET infos == Children(flat, p.pid) IN
  /\ Begins(flat, lines, p, indent, last)
  /\ Draws(lines, UpTo(flat, p, k))
  /\ \A i \in 2..Len(lines) :
       /\ HasParent(flat, lines, i)
       /\ Depth(lines, i) = Len(indent) + 1 =>
            /\ HasSibling(lines, i) <=> lines[i].pid # infos[k].pid
            /\ lines[i].last <=> lines[i].pid = infos[Len(infos)].pid
       /\ Depth(lines, i) # Len(indent) + 1 =>
            (lines[i].last <=> ~HasSibling(lines, i))

\* The lines of a child follow.
LEMMA Joined ==
  ASSUME NEW S, NEW above \in Seq(S), NEW more \in Seq(S)
  PROVE  LET lines == above \o more IN
         /\ lines \in Seq(S) /\ Len(lines) = Len(above) + Len(more)
         /\ Len(above) \in Nat /\ Len(more) \in Nat
         /\ \A i \in 1..Len(above) : lines[i] = above[i]
         /\ \A i \in 1..Len(more) : lines[Len(above) + i] = more[i]
OBVIOUS

\* What is known of them.
Follows(flat, lines, above, more, p, q, indent, last, flag) ==
  /\ indent \in Seq(BOOLEAN) /\ last \in BOOLEAN /\ lines = above \o more
  /\ Begins(flat, above, p, indent, last)
  /\ Begins(flat, more, q, Append(indent, last), flag)

\* Where the lines are, and how deep.
LEMMA FollowsPlaces ==
  ASSUME NEW flat, NEW lines, NEW above, NEW more, NEW p, NEW q,
         NEW indent, NEW last, NEW flag,
         Follows(flat, lines, above, more, p, q, indent, last, flag)
  PROVE  LET a == Len(above)
             b == Len(more)
             d == Len(indent) IN
         /\ lines \in Seq(LineOf(flat)) /\ Len(lines) = a + b
         /\ a \in Nat /\ b \in Nat /\ d \in Nat /\ a > 0 /\ b > 0
         /\ \A i \in 1..a : lines[i] = above[i]
         /\ \A i \in 1..b : lines[a + i] = more[i]
         /\ \A i \in 1..a + b : Depth(lines, i) \in Nat
         /\ Depth(lines, 1) = d /\ Depth(lines, a + 1) = d + 1
         /\ \A i \in 2..a + b : Depth(lines, i) > d
         /\ \A i \in a + 2..a + b : Depth(lines, i) > d + 1
<1> DEFINE a == Len(above)
           b == Len(more)
           d == Len(indent)
<1>1. /\ above \in Seq(LineOf(flat)) /\ more \in Seq(LineOf(flat)) /\ lines = above \o more
      /\ a > 0 /\ b > 0 /\ d \in Nat
      /\ above[1].indent = indent /\ more[1].indent = Append(indent, last)
      /\ Len(Append(indent, last)) = d + 1
      /\ \A i \in 2..a : Depth(above, i) > d
      /\ \A i \in 2..b : Depth(more, i) > d + 1
  BY DEF Follows, Begins
<1>2. /\ lines \in Seq(LineOf(flat)) /\ Len(lines) = a + b
      /\ a \in Nat /\ b \in Nat
      /\ \A i \in 1..a : lines[i] = above[i]
      /\ \A i \in 1..b : lines[a + i] = more[i]
  BY <1>1, Joined
<1>3. \A i \in 1..a + b : Depth(lines, i) \in Nat
  <2>1. \A i \in 1..a + b : lines[i] \in LineOf(flat)
    BY <1>2
  <2>2. \A line \in LineOf(flat) : line.indent \in Seq(BOOLEAN)
    BY DEF LineOf
  <2>3. \A seq \in Seq(BOOLEAN) : Len(seq) \in Nat
    OBVIOUS
  <2> QED
    BY <2>1, <2>2, <2>3 DEF Depth
<1>. HIDE DEF a, b, d
<1>4. 1 \in 1..a /\ 1 \in 1..b
  BY <1>1, <1>2
<1>5. Depth(lines, 1) = d /\ Depth(lines, a + 1) = d + 1
  BY <1>1, <1>2, <1>4 DEF Depth, d
<1>6. \A i \in 2..a : Depth(lines, i) = Depth(above, i)
  <2>1. \A i \in 2..a : i \in 1..a
    BY <1>2
  <2> QED
    BY <1>2, <2>1 DEF Depth
<1>7. ASSUME NEW i \in a + 2..a + b PROVE Depth(lines, i) > d + 1
  <2>1. i - a \in 1..b /\ i - a \in 2..b /\ a + (i - a) = i
    BY <1>2
  <2>2. lines[i] = more[i - a]
    BY <1>2, <2>1
  <2> QED
    BY <1>1, <2>1, <2>2 DEF Depth
<1>8. ASSUME NEW i \in 2..a + b PROVE Depth(lines, i) > d
  <2>1. i \in 2..a \/ i = a + 1 \/ i \in a + 2..a + b
    BY <1>2
  <2>2. CASE i \in 2..a
    BY <1>1, <1>6, <2>2
  <2>3. CASE i = a + 1
    BY <1>1, <1>5, <2>3
  <2>4. CASE i \in a + 2..a + b
    <3>1. i \in 1..a + b /\ Depth(lines, i) \in Nat
      BY <1>3
    <3> QED
      BY <1>1, <1>7, <2>4, <3>1
  <2> QED
    BY <2>1, <2>2, <2>3, <2>4
<1> QED
  BY <1>1, <1>2, <1>3, <1>5, <1>7, <1>8 DEF a, b, d

\* They begin as the lines above do.
LEMMA FollowsBegins ==
  ASSUME NEW flat, NEW lines, NEW above, NEW more, NEW p, NEW q,
         NEW indent, NEW last, NEW flag,
         Follows(flat, lines, above, more, p, q, indent, last, flag)
  PROVE  Begins(flat, lines, p, indent, last)
<1> DEFINE a == Len(above)
           b == Len(more)
           d == Len(indent)
<1>1. /\ lines \in Seq(LineOf(flat)) /\ Len(lines) = a + b
      /\ a \in Nat /\ b \in Nat /\ a > 0 /\ b > 0
      /\ \A i \in 1..a : lines[i] = above[i]
      /\ \A i \in 2..a + b : Depth(lines, i) > d
  BY FollowsPlaces
<1>2. above[1] = [pid |-> p.pid, indent |-> indent, last |-> last]
  BY DEF Follows, Begins
<1>. HIDE DEF a, b, d
<1>3. lines[1] = above[1] /\ a + b > 0
  BY <1>1
<1> QED
  BY <1>1, <1>2, <1>3 DEF Begins, d

\* Their parents are the same, and the first line is the child's parent's.
LEMMA FollowsParents ==
  ASSUME NEW flat, NEW lines, NEW above, NEW more, NEW p, NEW q,
         NEW indent, NEW last, NEW flag,
         Follows(flat, lines, above, more, p, q, indent, last, flag),
         \A r \in Members(flat) : r.pid = q.pid => r.ppid = p.pid,
         \A i \in 2..Len(above) : HasParent(flat, above, i),
         \A i \in 2..Len(more) : HasParent(flat, more, i)
  PROVE  \A i \in 2..Len(lines) : HasParent(flat, lines, i)
<1> DEFINE a == Len(above)
           b == Len(more)
           d == Len(indent)
<1>1. /\ Len(lines) = a + b
      /\ a \in Nat /\ b \in Nat /\ d \in Nat /\ a > 0 /\ b > 0
      /\ \A i \in 1..a : lines[i] = above[i]
      /\ \A i \in 1..b : lines[a + i] = more[i]
      /\ Depth(lines, 1) = d /\ Depth(lines, a + 1) = d + 1
      /\ \A i \in 2..a + b : Depth(lines, i) > d
  BY FollowsPlaces
<1>2. /\ above[1] = [pid |-> p.pid, indent |-> indent, last |-> last]
      /\ more[1] = [pid |-> q.pid, indent |-> Append(indent, last), last |-> flag]
  BY DEF Follows, Begins
<1>3. \A i \in 2..a : HasParent(flat, above, i)
  OBVIOUS
<1>4. \A i \in 2..b : HasParent(flat, more, i)
  OBVIOUS
<1>. HIDE DEF a, b, d
<1>5. ASSUME NEW i \in 2..a PROVE HasParent(flat, lines, i)
  <2>1. PICK j \in 1..i - 1 : ParentAt(flat, above, i, j)
    BY <1>3 DEF HasParent
  <2>2. j \in 1..a /\ i \in 1..a /\ \A k \in j + 1..i : k \in 1..a
    BY <1>1
  <2>3. lines[j] = above[j] /\ lines[i] = above[i] /\ \A k \in j + 1..i : lines[k] = above[k]
    BY <1>1, <2>2
  <2>4. ParentAt(flat, lines, i, j)
    BY <2>1, <2>3 DEF ParentAt, Depth
  <2> QED
    BY <2>4 DEF HasParent
<1>6. HasParent(flat, lines, a + 1)
  <2>1. 1 \in 1..(a + 1) - 1 /\ \A k \in 1 + 1..a + 1 : k \in 2..a + b
    BY <1>1
  <2>2. lines[1] = above[1] /\ lines[a + 1] = more[1]
    BY <1>1
  <2>3. Depth(lines, 1) = Depth(lines, a + 1) - 1
    BY <1>1
  <2>4. \A k \in 1 + 1..a + 1 : Depth(lines, k) > Depth(lines, 1)
    BY <1>1, <2>1
  <2>5. ParentAt(flat, lines, a + 1, 1)
    BY <1>2, <2>2, <2>3, <2>4 DEF ParentAt
  <2> QED
    BY <2>1, <2>5 DEF HasParent
<1>7. ASSUME NEW i \in 2..b PROVE HasParent(flat, lines, a + i)
  <2>1. PICK j \in 1..i - 1 : ParentAt(flat, more, i, j)
    BY <1>4 DEF HasParent
  <2>2. /\ j \in 1..b /\ i \in 1..b /\ a + j \in 1..(a + i) - 1
        /\ \A k \in (a + j) + 1..a + i : k - a \in j + 1..i /\ k - a \in 1..b /\ a + (k - a) = k
    BY <1>1
  <2>3. /\ lines[a + j] = more[j] /\ lines[a + i] = more[i]
        /\ \A k \in (a + j) + 1..a + i : lines[k] = more[k - a]
    BY <1>1, <2>2
  <2>4. \A k \in (a + j) + 1..a + i : Depth(lines, k) > Depth(lines, a + j)
    BY <2>1, <2>2, <2>3 DEF ParentAt, Depth
  <2>5. ParentAt(flat, lines, a + i, a + j)
    BY <2>1, <2>3, <2>4 DEF ParentAt, Depth
  <2> QED
    BY <2>2, <2>5 DEF HasParent
<1>8. ASSUME NEW i \in 2..a + b PROVE HasParent(flat, lines, i)
  <2>1. i \in 2..a \/ i = a + 1 \/ (i - a \in 2..b /\ a + (i - a) = i)
    BY <1>1
  <2> QED
    BY <1>5, <1>6, <1>7, <2>1
<1> QED
  BY <1>1, <1>8

\* Which of them have a sibling further down: all at the child's depth above
\* it, the child's own line not, and every other one if it had one before.
LEMMA FollowsSiblings ==
  ASSUME NEW flat, NEW lines, NEW above, NEW more, NEW p, NEW q,
         NEW indent, NEW last, NEW flag,
         Follows(flat, lines, above, more, p, q, indent, last, flag)
  PROVE  LET a == Len(above)
             d == Len(indent) IN
         /\ \A i \in 2..a : IF Depth(lines, i) = d + 1 THEN HasSibling(lines, i)
                            ELSE HasSibling(lines, i) <=> HasSibling(above, i)
         /\ ~HasSibling(lines, a + 1)
         /\ \A i \in 2..Len(more) : HasSibling(lines, a + i) <=> HasSibling(more, i)
<1> DEFINE a == Len(above)
           b == Len(more)
           d == Len(indent)
<1>1. /\ Len(lines) = a + b
      /\ a \in Nat /\ b \in Nat /\ d \in Nat /\ a > 0 /\ b > 0
      /\ \A i \in 1..a : lines[i] = above[i]
      /\ \A i \in 1..b : lines[a + i] = more[i]
      /\ \A i \in 1..a + b : Depth(lines, i) \in Nat
      /\ Depth(lines, 1) = d /\ Depth(lines, a + 1) = d + 1
      /\ \A i \in 2..a + b : Depth(lines, i) > d
      /\ \A i \in a + 2..a + b : Depth(lines, i) > d + 1
  BY FollowsPlaces
<1>0. Len(above) = a /\ Len(more) = b
  OBVIOUS
<1>. HIDE DEF a, b, d
<1>2. ASSUME NEW i \in 2..a, Depth(lines, i) = d + 1 PROVE HasSibling(lines, i)
  <2>1. i < a + 1 /\ a + 1 \in 1..a + b /\ \A k \in i + 1..a + 1 : k \in 2..a + b
    BY <1>1
  <2>2. \A k \in i + 1..a + 1 : Depth(lines, k) > d /\ Depth(lines, k) \in Nat
    <3>1. \A k \in i + 1..a + 1 : k \in 1..a + b
      BY <1>1
    <3> QED
      BY <1>1, <2>1, <3>1
  <2>3. \A k \in i + 1..a + 1 : Depth(lines, k) >= Depth(lines, i)
    BY <1>1, <1>2, <2>2
  <2>4. SiblingAt(lines, i, a + 1)
    BY <1>1, <1>2, <2>1, <2>3 DEF SiblingAt
  <2> QED
    BY <1>1, <2>1, <2>4 DEF HasSibling
<1>3. ASSUME NEW i \in 2..a, Depth(lines, i) # d + 1
      PROVE  HasSibling(lines, i) <=> HasSibling(above, i)
  <2>1. \A k \in 1..a : Depth(lines, k) = Depth(above, k)
    BY <1>1 DEF Depth
  <2>2. i \in 1..a /\ \A j \in 1..a : \A k \in i + 1..j : k \in 1..a
    BY <1>1
  <2>3. \A j \in 1..a : SiblingAt(lines, i, j) <=> SiblingAt(above, i, j)
    BY <2>1, <2>2 DEF SiblingAt
  <2>4. ASSUME NEW j \in 1..a + b, SiblingAt(lines, i, j) PROVE j \in 1..a
    <3> SUFFICES ASSUME j > a PROVE FALSE
      BY <1>1
    <3>1. a + 1 \in i + 1..j
      BY <1>1
    <3>2. Depth(lines, a + 1) >= Depth(lines, i)
      BY <2>4, <3>1 DEF SiblingAt
    <3>3. Depth(lines, i) > d /\ Depth(lines, i) \in Nat
      <4>1. i \in 2..a + b /\ i \in 1..a + b
        BY <1>1
      <4> QED
        BY <1>1, <4>1
    <3> QED
      BY <1>1, <1>3, <3>2, <3>3
  <2>5. \A j \in 1..a : j \in 1..a + b
    BY <1>1
  <2> QED
    BY <1>0, <1>1, <2>3, <2>4, <2>5 DEF HasSibling
<1>4. ~HasSibling(lines, a + 1)
  <2> SUFFICES ASSUME NEW j \in 1..a + b, SiblingAt(lines, a + 1, j) PROVE FALSE
    BY <1>1 DEF HasSibling
  <2>1. j > a + 1 /\ Depth(lines, j) = d + 1
    BY <1>1 DEF SiblingAt
  <2>2. j \in a + 2..a + b
    BY <1>1, <2>1
  <2> QED
    BY <1>1, <2>1, <2>2
<1>5. ASSUME NEW i \in 2..b PROVE HasSibling(lines, a + i) <=> HasSibling(more, i)
  <2>1. \A k \in 1..b : Depth(lines, a + k) = Depth(more, k)
    BY <1>1 DEF Depth
  <2>2. i \in 1..b
    BY <1>1
  <2>3. ASSUME NEW j \in 1..b PROVE SiblingAt(lines, a + i, a + j) <=> SiblingAt(more, i, j)
    <3>1. (a + i < a + j <=> i < j) /\ \A k \in i + 1..j : k \in 1..b /\ a + k \in (a + i) + 1..a + j
      BY <1>1
    <3>2. \A k \in (a + i) + 1..a + j : k - a \in i + 1..j /\ a + (k - a) = k
      BY <1>1
    <3>3. /\ Depth(lines, a + i) = Depth(more, i) /\ Depth(lines, a + j) = Depth(more, j)
          /\ \A k \in i + 1..j : Depth(lines, a + k) = Depth(more, k)
      BY <2>1, <2>2, <3>1
    <3>4. (\A k \in (a + i) + 1..a + j : Depth(lines, k) >= Depth(lines, a + i))
          <=> (\A k \in i + 1..j : Depth(more, k) >= Depth(more, i))
      <4>1. ASSUME \A k \in (a + i) + 1..a + j : Depth(lines, k) >= Depth(lines, a + i),
                   NEW k \in i + 1..j
            PROVE  Depth(more, k) >= Depth(more, i)
        BY <3>1, <3>3, <4>1
      <4>2. ASSUME \A k \in i + 1..j : Depth(more, k) >= Depth(more, i),
                   NEW k \in (a + i) + 1..a + j
            PROVE  Depth(lines, k) >= Depth(lines, a + i)
        <5> DEFINE m == k - a
        <5>1. m \in i + 1..j /\ a + m = k
          BY <3>2
        <5>. HIDE DEF m
        <5>2. Depth(lines, k) = Depth(more, m)
          BY <3>3, <5>1
        <5> QED
          BY <3>3, <4>2, <5>1, <5>2
      <4> QED
        BY <4>1, <4>2
    <3> QED
      BY <3>1, <3>3, <3>4 DEF SiblingAt
  <2>4. ASSUME HasSibling(more, i) PROVE HasSibling(lines, a + i)
    <3>1. PICK j \in 1..b : SiblingAt(more, i, j)
      BY <1>0, <2>4 DEF HasSibling
    <3>2. a + j \in 1..a + b /\ SiblingAt(lines, a + i, a + j)
      BY <1>1, <2>3, <3>1
    <3> QED
      BY <1>1, <3>2 DEF HasSibling
  <2>5. ASSUME HasSibling(lines, a + i) PROVE HasSibling(more, i)
    <3>1. PICK j \in 1..a + b : SiblingAt(lines, a + i, j)
      BY <1>1, <2>5 DEF HasSibling
    <3>2. j > a + i
      BY <3>1 DEF SiblingAt
    <3> DEFINE m == j - a
    <3>3. m \in 1..b /\ a + m = j
      BY <1>1, <3>2
    <3>. HIDE DEF m
    <3>4. SiblingAt(more, i, m)
      BY <2>3, <3>1, <3>3
    <3> QED
      BY <1>0, <3>3, <3>4 DEF HasSibling
  <2> QED
    BY <2>4, <2>5
<1> QED
  BY <1>2, <1>3, <1>4, <1>5 DEF a, b, d

\* Every process has one line in them if none has one in both.
LEMMA FollowsDraws ==
  ASSUME NEW flat, NEW lines, NEW above, NEW more, NEW p, NEW q,
         NEW indent, NEW last, NEW flag,
         Follows(flat, lines, above, more, p, q, indent, last, flag),
         NEW some, NEW others, Draws(above, some), Draws(more, others),
         \A r \in some : \A s \in others : r.pid # s.pid
  PROVE  /\ Draws(lines, some \cup others)
         /\ \A i \in 1..Len(above) : lines[i].pid \in {r.pid : r \in some}
<1> DEFINE a == Len(above)
           b == Len(more)
<1>1. /\ Len(lines) = a + b
      /\ a \in Nat /\ b \in Nat
      /\ \A i \in 1..a : lines[i] = above[i]
      /\ \A i \in 1..b : lines[a + i] = more[i]
  <2>1. Follows(flat, lines, above, more, p, q, indent, last, flag)
    OBVIOUS
  <2> QED
    BY ONLY <2>1, FollowsPlaces
<1>2. /\ {above[i].pid : i \in 1..a} = {r.pid : r \in some}
      /\ {more[i].pid : i \in 1..b} = {r.pid : r \in others}
      /\ \A i, j \in 1..a : above[i].pid = above[j].pid => i = j
      /\ \A i, j \in 1..b : more[i].pid = more[j].pid => i = j
  BY DEF Draws
<1>. HIDE DEF a, b
<1>3. \A i \in 1..a + b : i \in 1..a \/ (i - a \in 1..b /\ a + (i - a) = i)
  BY <1>1
<1>4. /\ \A i \in 1..a : i \in 1..a + b /\ lines[i].pid \in {r.pid : r \in some}
      /\ \A i \in 1..b : a + i \in 1..a + b /\ lines[a + i].pid \in {r.pid : r \in others}
  <2>1. ASSUME NEW i \in 1..a
        PROVE  i \in 1..a + b /\ lines[i].pid \in {r.pid : r \in some}
    <3>1. above[i].pid \in {above[k].pid : k \in 1..a}
      OBVIOUS
    <3>2. lines[i].pid \in {r.pid : r \in some}
      BY <1>1, <1>2, <3>1
    <3> QED
      BY <1>1, <3>2
  <2>2. ASSUME NEW i \in 1..b
        PROVE  a + i \in 1..a + b /\ lines[a + i].pid \in {r.pid : r \in others}
    <3>1. more[i].pid \in {more[k].pid : k \in 1..b}
      OBVIOUS
    <3>2. lines[a + i].pid \in {r.pid : r \in others}
      BY <1>1, <1>2, <3>1
    <3> QED
      BY <1>1, <3>2
  <2> QED
    BY <2>1, <2>2
<1>5. {lines[i].pid : i \in 1..a + b} = {r.pid : r \in some \cup others}
  <2>1. ASSUME NEW i \in 1..a + b PROVE lines[i].pid \in {r.pid : r \in some \cup others}
    <3>1. lines[i].pid \in {r.pid : r \in some} \/ lines[i].pid \in {r.pid : r \in others}
      BY <1>3, <1>4
    <3> QED
      BY <3>1
  <2>2. ASSUME NEW r \in some PROVE \E i \in 1..a + b : lines[i].pid = r.pid
    <3>1. PICK i \in 1..a : above[i].pid = r.pid
      BY <1>2
    <3> QED
      BY <1>1, <1>4, <3>1
  <2>3. ASSUME NEW r \in others PROVE \E i \in 1..a + b : lines[i].pid = r.pid
    <3>1. PICK i \in 1..b : more[i].pid = r.pid
      BY <1>2
    <3> QED
      BY <1>1, <1>4, <3>1
  <2> QED
    BY <2>1, <2>2, <2>3
<1>6. ASSUME NEW i \in 1..a + b, NEW j \in 1..a + b, lines[i].pid = lines[j].pid
      PROVE  i = j
  <2>1. \A x : ~(x \in {r.pid : r \in some} /\ x \in {r.pid : r \in others})
    OBVIOUS
  <2>2. CASE i \in 1..a /\ j \in 1..a
    BY <1>1, <1>2, <1>6, <2>2
  <2>3. CASE i - a \in 1..b /\ a + (i - a) = i /\ j - a \in 1..b /\ a + (j - a) = j
    <3> DEFINE m == i - a
               n == j - a
    <3>1. m \in 1..b /\ n \in 1..b /\ a + m = i /\ a + n = j
      BY <2>3
    <3>. HIDE DEF m, n
    <3>2. m = n
      BY <1>1, <1>2, <1>6, <3>1
    <3> QED
      BY <3>1, <3>2
  <2>4. CASE i \in 1..a /\ j - a \in 1..b /\ a + (j - a) = j
    BY <1>4, <1>6, <2>1, <2>4
  <2>5. CASE i - a \in 1..b /\ a + (i - a) = i /\ j \in 1..a
    BY <1>4, <1>6, <2>1, <2>5
  <2> QED
    BY <1>3, <2>2, <2>3, <2>4, <2>5
<1> QED
  BY <1>1, <1>4, <1>5, <1>6 DEF Draws, a

\* The descendants of a child are processes of the list.
LEMMA DescendantsIn ==
  ASSUME NEW flat, Proper(flat), NEW depth \in Nat, NEW p \in AtDepth(flat, depth)
  PROVE  p \in Descendants(flat, {p}) /\ Descendants(flat, {p}) \subseteq Members(flat)
<1>1. p \in Members(flat) /\ Rooted(flat, p, depth)
  BY DEF AtDepth
<1>2. \A q : q \in Descendants(flat, {p}) <=> \E n \in Nat : Reach(flat, p, q, n)
  BY <1>1, DescendantsOf
<1>3. \A q \in Descendants(flat, {p}) : q \in Members(flat)
  BY <1>2, ReachEnds
<1>4. Reach(flat, p, p, 0) /\ 0 \in Nat
  BY <1>1, ReachSelf
<1> QED
  BY <1>2, <1>3, <1>4

\* With the lines of one more child, the lines of one more child are drawn.
LEMMA DrawChild ==
  ASSUME NEW flat, Proper(flat), NEW depth \in Nat, NEW p \in AtDepth(flat, depth),
         NEW indent \in Seq(BOOLEAN), NEW last \in BOOLEAN, NEW flag,
         NEW k \in 1..Len(Children(flat, p.pid)),
         flag <=> k = Len(Children(flat, p.pid)),
         NEW above, DrawnUpTo(flat, above, p, indent, last, k - 1),
         NEW more,
         Drawn(flat, more, Children(flat, p.pid)[k], Append(indent, last), flag)
  PROVE  DrawnUpTo(flat, above \o more, p, indent, last, k)
<1> DEFINE infos == Children(flat, p.pid)
           size == Len(infos)
           q == infos[k]
           lines == above \o more
           a == Len(above)
           b == Len(more)
           d == Len(indent)
<1>1. /\ size \in Nat /\ DOMAIN infos = 1..size
      /\ \A i, j \in 1..size : infos[i] = infos[j] => i = j
      /\ \A i \in 1..size : infos[i] \in Members(flat) /\ Below(flat, infos[i], p)
  <2>1. size \in Nat /\ DOMAIN infos = 1..size
    BY ChildrenListed
  <2>2. /\ Members(infos) = {r \in Members(flat) : Below(flat, r, p)}
        /\ \A i, j \in DOMAIN infos : infos[i] = infos[j] => i = j
    BY ChildrenAre
  <2>. HIDE DEF infos, size
  <2> QED
    BY <2>1, <2>2 DEF Members
<1>2. q \in AtDepth(flat, depth + 1) /\ depth + 1 \in Nat
  BY <1>1, ChildDepth
<1>3. /\ UpTo(flat, p, k) = UpTo(flat, p, k - 1) \cup Descendants(flat, {q})
      /\ UpTo(flat, p, k - 1) \cap Descendants(flat, {q}) = {}
  BY UpToIs
<1>4. UpTo(flat, p, k) \subseteq Members(flat)
  <2>1. \A i \in 1..k : i \in 1..size
    BY <1>1
  <2>2. \A i \in 1..k : infos[i] \in AtDepth(flat, depth + 1)
    BY <1>1, <2>1, ChildDepth
  <2>3. \A i \in 1..k : Descendants(flat, {infos[i]}) \subseteq Members(flat)
    BY <1>2, <2>2, DescendantsIn
  <2>4. p \in Members(flat)
    BY DEF AtDepth
  <2> QED
    BY <2>3, <2>4 DEF UpTo
<1>5. q \in Descendants(flat, {q})
  BY <1>2, DescendantsIn
<1>6. \A r \in UpTo(flat, p, k - 1) : \A s \in Descendants(flat, {q}) : r.pid # s.pid
  BY <1>3, <1>4, SamePid
<1>7. /\ Begins(flat, above, p, indent, last) /\ Draws(above, UpTo(flat, p, k - 1))
      /\ \A i \in 2..a :
           /\ HasParent(flat, above, i)
           /\ Depth(above, i) = d + 1 => (above[i].last <=> above[i].pid = infos[size].pid)
           /\ Depth(above, i) # d + 1 => (above[i].last <=> ~HasSibling(above, i))
  BY DEF DrawnUpTo
<1>8. /\ Begins(flat, more, q, Append(indent, last), flag)
      /\ Draws(more, Descendants(flat, {q}))
      /\ \A i \in 2..b :
           HasParent(flat, more, i) /\ (more[i].last <=> ~HasSibling(more, i))
  BY DEF Drawn
<1>9. Follows(flat, lines, above, more, p, q, indent, last, flag)
  BY <1>7, <1>8 DEF Follows
<1>10. /\ Len(lines) = a + b
       /\ a \in Nat /\ b \in Nat /\ d \in Nat /\ a > 0 /\ b > 0
       /\ \A i \in 1..a : lines[i] = above[i]
       /\ \A i \in 1..b : lines[a + i] = more[i]
       /\ Depth(lines, a + 1) = d + 1
       /\ \A i \in a + 2..a + b : Depth(lines, i) > d + 1
  BY <1>9, FollowsPlaces
<1>11. Begins(flat, lines, p, indent, last)
  BY <1>9, FollowsBegins
<1>12. /\ Draws(lines, UpTo(flat, p, k))
       /\ \A i \in 1..a : lines[i].pid \in {r.pid : r \in UpTo(flat, p, k - 1)}
  <2> DEFINE some == UpTo(flat, p, k - 1)
             others == Descendants(flat, {q})
  <2>1. /\ Draws(above, some) /\ Draws(more, others)
        /\ \A r \in some : \A s \in others : r.pid # s.pid
        /\ UpTo(flat, p, k) = some \cup others
    BY <1>3, <1>6, <1>7, <1>8
  <2>. HIDE DEF some, others, lines, q
  <2>2. /\ Draws(lines, some \cup others)
        /\ \A i \in 1..a : lines[i].pid \in {r.pid : r \in some}
    BY <1>9, <2>1, FollowsDraws
  <2> QED
    BY <2>1, <2>2 DEF some
<1>13. \A i \in 2..a + b : HasParent(flat, lines, i)
  <2>1. \A r \in Members(flat) : r.pid = q.pid => r.ppid = p.pid
    BY <1>1, SamePid DEF Below
  <2> QED
    <3>. HIDE DEF lines, q
    <3>1. /\ \A i \in 2..Len(above) : HasParent(flat, above, i)
          /\ \A i \in 2..Len(more) : HasParent(flat, more, i)
      BY <1>7, <1>8
    <3>2. \A i \in 2..Len(lines) : HasParent(flat, lines, i)
      BY <1>9, <2>1, <3>1, FollowsParents
    <3> QED
      BY <1>10, <3>2
<1>14. /\ \A i \in 2..a : IF Depth(lines, i) = d + 1 THEN HasSibling(lines, i)
                          ELSE HasSibling(lines, i) <=> HasSibling(above, i)
       /\ ~HasSibling(lines, a + 1)
       /\ \A i \in 2..b : HasSibling(lines, a + i) <=> HasSibling(more, i)
  BY <1>9, FollowsSiblings
<1>15. more[1].pid = q.pid /\ more[1].last = flag
  BY <1>8 DEF Begins
<1>16. q.pid = infos[size].pid <=> k = size
  <2>1. size \in 1..size
    BY <1>1
  <2>2. q.pid = infos[size].pid => q = infos[size]
    BY <1>1, <2>1, SamePid
  <2> QED
    BY <1>1, <2>1, <2>2
<1> DEFINE Marked(i) ==
             /\ Depth(lines, i) = d + 1 =>
                  /\ HasSibling(lines, i) <=> lines[i].pid # q.pid
                  /\ lines[i].last <=> lines[i].pid = infos[size].pid
             /\ Depth(lines, i) # d + 1 =>
                  (lines[i].last <=> ~HasSibling(lines, i))
<1>. HIDE DEF infos, size, lines, a, b, d, q
<1>17. ASSUME NEW i \in 2..a PROVE Marked(i)
  <2>1. i \in 1..a
    BY <1>10
  <2>2. lines[i] = above[i] /\ Depth(lines, i) = Depth(above, i)
    BY <1>10, <2>1 DEF Depth
  <2>3. lines[i].pid # q.pid
    BY <1>5, <1>6, <1>12, <2>1
  <2>4. CASE Depth(lines, i) = d + 1
    BY <1>7, <1>14, <2>2, <2>3, <2>4
  <2>5. CASE Depth(lines, i) # d + 1
    BY <1>7, <1>14, <2>2, <2>5
  <2> QED
    BY <2>4, <2>5
<1>18. Marked(a + 1)
  <2>1. lines[a + 1] = more[1]
    BY <1>10
  <2>2. lines[a + 1].last <=> lines[a + 1].pid = infos[size].pid
    BY <1>15, <1>16, <2>1 DEF infos, size
  <2> QED
    BY <1>10, <1>14, <1>15, <2>1, <2>2
<1>19. ASSUME NEW i \in 2..b PROVE Marked(a + i)
  <2>1. i \in 1..b /\ a + i \in a + 2..a + b
    BY <1>10
  <2>2. lines[a + i] = more[i] /\ Depth(lines, a + i) > d + 1
    BY <1>10, <2>1
  <2>3. Depth(lines, a + i) # d + 1
    BY <1>10, <2>2
  <2> QED
    BY <1>8, <1>14, <2>2, <2>3
<1>20. ASSUME NEW i \in 2..a + b PROVE Marked(i)
  <2>1. i \in 2..a \/ i = a + 1 \/ (i - a \in 2..b /\ a + (i - a) = i)
    BY <1>10
  <2>. HIDE DEF Marked
  <2> QED
    BY <1>17, <1>18, <1>19, <2>1
<1> QED
  BY <1>10, <1>11, <1>12, <1>13, <1>20 DEF DrawnUpTo, infos, size, d, q, lines

\* Before the first child there is the process's own line.
LEMMA DrawNoChild ==
  ASSUME NEW flat, Proper(flat), NEW depth \in Nat, NEW p \in AtDepth(flat, depth),
         NEW indent \in Seq(BOOLEAN), NEW last \in BOOLEAN
  PROVE  DrawnUpTo(flat, <<[pid |-> p.pid, indent |-> indent, last |-> last]>>,
                   p, indent, last, 0)
<1> DEFINE line == [pid |-> p.pid, indent |-> indent, last |-> last]
           lines == <<line>>
<1>1. line \in LineOf(flat)
  BY DEF LineOf, AtDepth
<1>2. line.pid = p.pid
  OBVIOUS
<1>. HIDE DEF line
<1>3. lines \in Seq(LineOf(flat)) /\ Len(lines) = 1 /\ lines[1] = line
  BY <1>1
<1>4. UpTo(flat, p, 0) = {p}
  BY UpToIs
<1>. HIDE DEF lines
<1>5. 2..1 = {} /\ 1..1 = {1}
  OBVIOUS
<1>6. Begins(flat, lines, p, indent, last)
  BY <1>3, <1>5 DEF Begins, line
<1>7. Draws(lines, {p})
  BY <1>2, <1>3, <1>5 DEF Draws
<1>8. DrawnUpTo(flat, lines, p, indent, last, 0)
  BY <1>3, <1>4, <1>5, <1>6, <1>7 DEF DrawnUpTo
<1> QED
  BY <1>8 DEF lines, line

\* After the last one all is drawn.
LEMMA DrawLast ==
  ASSUME NEW flat, Proper(flat), NEW depth \in Nat, NEW p \in AtDepth(flat, depth),
         NEW indent, NEW last, NEW lines,
         DrawnUpTo(flat, lines, p, indent, last, Len(Children(flat, p.pid)))
  PROVE  Drawn(flat, lines, p, indent, last)
<1>1. UpTo(flat, p, Len(Children(flat, p.pid))) = Descendants(flat, {p})
  BY UpToIs
<1> QED
  BY <1>1 DEF DrawnUpTo, Drawn

LinesTo(node, indent, isLast, print, lines, n) ==
  lines = [i \in 0..n |->
             IF i = 0 THEN <<[pid |-> node.info.pid, indent |-> indent, last |-> isLast]>>
             ELSE lines[i - 1] \o
                    print[node.children[i]][Append(indent, isLast)][i = Len(node.children)]]

\* There is a function such as the one that defines the lines of a node.
LEMMA LinesExist ==
  ASSUME NEW node, NEW indent, NEW isLast, NEW print, NEW n \in Nat
  PROVE  \E lines : LinesTo(node, indent, isLast, print, lines, n)
<1> DEFINE S == {m \in Nat : \E lines : LinesTo(node, indent, isLast, print, lines, m)}
           Added(i) ==
             print[node.children[i]][Append(indent, isLast)][i = Len(node.children)]
           first == <<[pid |-> node.info.pid, indent |-> indent, last |-> isLast]>>
           Entry(l, i) == IF i = 0 THEN first ELSE l[i - 1] \o Added(i)
<1>0. \A l, m : LinesTo(node, indent, isLast, print, l, m)
                <=> l = [i \in 0..m |-> Entry(l, i)]
  BY DEF LinesTo
<1>. HIDE DEF Added, first
<1>1. 0 \in S
  <2> DEFINE lines == [i \in 0..0 |-> first]
  <2>1. lines = [i \in 0..0 |-> Entry(lines, i)]
    <3>1. \A i \in 0..0 : i = 0
      OBVIOUS
    <3> QED BY <3>1
  <2>. HIDE DEF lines, Entry
  <2> QED BY <1>0, <2>1
<1>2. ASSUME NEW m \in Nat, m \in S PROVE m + 1 \in S
  <2>. HIDE DEF Entry
  <2>1. PICK lines : lines = [i \in 0..m |-> Entry(lines, i)]
    BY <1>0, <1>2
  <2>2. \A i \in 0..m : lines[i] = Entry(lines, i)
    BY <2>1
  <2> DEFINE next == [i \in 0..m + 1 |-> IF i = m + 1 THEN Entry(lines, i) ELSE lines[i]]
  <2>3. /\ next[m + 1] = Entry(lines, m + 1)
        /\ \A i \in 0..m : next[i] = lines[i]
    <3>1. \A i \in 0..m : i \in 0..m + 1 /\ i # m + 1
      OBVIOUS
    <3>2. m + 1 \in 0..m + 1
      OBVIOUS
    <3> QED BY <3>1, <3>2
  <2>4. next = [i \in 0..m + 1 |-> next[i]]
    OBVIOUS
  <2>. HIDE DEF next
  <2>5. ASSUME NEW i \in 0..m + 1 PROVE Entry(lines, i) = Entry(next, i)
    <3>1. CASE i = 0
      BY <3>1 DEF Entry
    <3>2. CASE i # 0
      <4>1. i - 1 \in 0..m
        BY <3>2
      <4>2. next[i - 1] = lines[i - 1]
        BY <2>3, <4>1
      <4> QED BY <3>2, <4>2 DEF Entry
    <3> QED BY <3>1, <3>2
  <2>6. ASSUME NEW i \in 0..m + 1 PROVE next[i] = Entry(next, i)
    <3>1. i \in 0..m \/ i = m + 1
      OBVIOUS
    <3> QED BY <2>2, <2>3, <2>5, <3>1
  <2>7. next = [i \in 0..m + 1 |-> Entry(next, i)]
    BY <2>4, <2>6
  <2> QED BY <1>0, <2>7
<1>3. Nat \subseteq S
  <2>. HIDE DEF S
  <2> QED BY <1>1, <1>2, NatSet
<1> QED BY <1>3

\* The lines of a node and its first children.
LinesUpTo(node, indent, isLast, print) ==
  CHOOSE lines : LinesTo(node, indent, isLast, print, lines, Len(node.children))

\* What is printed before the first child, and for each.
OwnLine(node, indent, isLast) ==
  <<[pid |-> node.info.pid, indent |-> indent, last |-> isLast]>>

ChildLines(node, indent, isLast, print, i) ==
  print[node.children[i]][Append(indent, isLast)][i = Len(node.children)]

\* They grow by those of each child.
LEMMA LinesAre ==
  ASSUME NEW node, Len(node.children) \in Nat, NEW indent, NEW isLast, NEW print
  PROVE  /\ Lines(node, indent, isLast, print)
              = LinesUpTo(node, indent, isLast, print)[Len(node.children)]
         /\ LinesUpTo(node, indent, isLast, print)[0] = OwnLine(node, indent, isLast)
         /\ \A i \in 1..Len(node.children) :
              LinesUpTo(node, indent, isLast, print)[i]
                = LinesUpTo(node, indent, isLast, print)[i - 1]
                    \o ChildLines(node, indent, isLast, print, i)
<1> DEFINE size == Len(node.children)
           lines == LinesUpTo(node, indent, isLast, print)
           Added(i) == ChildLines(node, indent, isLast, print, i)
           first == OwnLine(node, indent, isLast)
<1>1. PICK l : LinesTo(node, indent, isLast, print, l, size)
  BY LinesExist
<1>2. LinesTo(node, indent, isLast, print, lines, size)
  BY <1>1 DEF LinesUpTo
<1>3. Lines(node, indent, isLast, print) = lines[size]
  BY DEF Lines, LinesUpTo, LinesTo
<1>4. lines = [i \in 0..size |-> IF i = 0 THEN first ELSE lines[i - 1] \o Added(i)]
  BY <1>2 DEF LinesTo, OwnLine, ChildLines
<1>5. size \in Nat
  OBVIOUS
<1>. HIDE DEF lines, size, Added, first
<1>6. 0 \in 0..size /\ \A i \in 1..size : i \in 0..size /\ i # 0
  BY <1>5
<1>7. lines[0] = first /\ \A i \in 1..size : lines[i] = lines[i - 1] \o Added(i)
  BY <1>4, <1>6
<1> QED
  BY <1>3, <1>7 DEF lines, size, Added, first

\* The lines of a node are those of its process and all its descendants if
\* those of its children are.
LEMMA LinesDrawn ==
  ASSUME NEW flat, Proper(flat), Len(flat) <= StackFrames,
         NEW depth \in Nat, NEW node, IsNode(flat, node, depth),
         NEW indent \in Seq(BOOLEAN), NEW isLast \in BOOLEAN, NEW print,
         \A i \in DOMAIN node.children : \A in \in Seq(BOOLEAN) : \A l \in BOOLEAN :
           Drawn(flat, print[node.children[i]][in][l], node.children[i].info, in, l)
  PROVE  Drawn(flat, Lines(node, indent, isLast, print), node.info, indent, isLast)
<1> DEFINE p == node.info
           infos == Children(flat, p.pid)
           size == Len(node.children)
           lines == LinesUpTo(node, indent, isLast, print)
           Added(i) == ChildLines(node, indent, isLast, print, i)
           S == {m \in Nat : m <= size => DrawnUpTo(flat, lines[m], p, indent, isLast, m)}
<1>0. /\ Proper(flat) /\ Len(flat) <= StackFrames /\ depth \in Nat
      /\ IsNode(flat, node, depth)
  OBVIOUS
<1>1. p \in AtDepth(flat, depth)
  BY ONLY <1>0, NodeIs
<1>2. size \in Nat /\ size = Len(infos)
  BY ONLY <1>0, NodeIs
<1>3. \A i \in 1..size : i \in DOMAIN node.children /\ node.children[i].info = infos[i]
  BY ONLY <1>0, NodeIs
<1>4. /\ Lines(node, indent, isLast, print) = lines[size]
      /\ lines[0] = <<[pid |-> p.pid, indent |-> indent, last |-> isLast]>>
      /\ \A i \in 1..size : lines[i] = lines[i - 1] \o Added(i)
  BY <1>2, LinesAre DEF OwnLine
<1>5. Append(indent, isLast) \in Seq(BOOLEAN)
  OBVIOUS
<1>6. ASSUME NEW i \in 1..size
      PROVE  Drawn(flat, Added(i), infos[i], Append(indent, isLast), i = size)
  <2>. HIDE DEF infos, size
  <2>1. i \in DOMAIN node.children /\ node.children[i].info = infos[i]
    BY <1>3
  <2>2. (i = size) \in BOOLEAN
    OBVIOUS
  <2> QED
    BY <1>5, <2>1, <2>2 DEF ChildLines, size
<1>. HIDE DEF lines, Added
<1>7. 0 \in S
  BY <1>1, <1>4, DrawNoChild
<1>8. ASSUME NEW m \in Nat, m \in S PROVE m + 1 \in S
  <2> SUFFICES ASSUME m + 1 <= size
               PROVE  DrawnUpTo(flat, lines[m + 1], p, indent, isLast, m + 1)
    OBVIOUS
  <2>1. m + 1 \in 1..size /\ (m + 1) - 1 = m /\ m <= size
    BY <1>2
  <2>2. DrawnUpTo(flat, lines[m], p, indent, isLast, m)
    BY <1>8, <2>1
  <2>3. lines[m + 1] = lines[m] \o Added(m + 1)
    BY <1>4, <2>1
  <2>4. Drawn(flat, Added(m + 1), infos[m + 1], Append(indent, isLast), m + 1 = size)
    BY <1>6, <2>1
  <2> DEFINE k == m + 1
  <2>5. DrawnUpTo(flat, lines[m] \o Added(k), p, indent, isLast, k)
    <3>1. k \in 1..size /\ k - 1 = m
      BY <2>1
    <3>2. DrawnUpTo(flat, lines[m], p, indent, isLast, k - 1)
      BY <2>2, <3>1
    <3> DEFINE flag == k = size
    <3>3. Drawn(flat, Added(k), infos[k], Append(indent, isLast), flag)
      BY <2>4
    <3>4. flag <=> k = Len(infos)
      BY <1>2
    <3>5. k \in 1..Len(infos)
      BY <1>2, <3>1
    <3>. HIDE DEF k, flag
    <3> QED
      BY <1>1, <3>2, <3>3, <3>4, <3>5, DrawChild
  <2> QED
    BY <2>3, <2>5
<1>9. Nat \subseteq S
  <2>. HIDE DEF S
  <2> QED BY <1>7, <1>8, NatSet
<1>10. DrawnUpTo(flat, lines[size], p, indent, isLast, size)
  BY <1>2, <1>9
<1>11. Drawn(flat, lines[size], p, indent, isLast)
  BY <1>1, <1>2, <1>10, DrawLast
<1> QED
  BY <1>4, <1>11

\* What a call with so much room prints.
PrintLayer(root, frames, print) ==
  [node \in Nodes(<<root>>) |-> [indent \in Seq(BOOLEAN) |-> [isLast \in BOOLEAN |->
     IF frames = 0 THEN <<>> ELSE Lines(node, indent, isLast, print[frames - 1])]]]

PrintsTo(root, print, n) == print = [frames \in 0..n |-> PrintLayer(root, frames, print)]

\* There is a function such as the one that defines print_process_hierarchy.
LEMMA PrintsExist ==
  ASSUME NEW root, NEW n \in Nat
  PROVE  \E print : PrintsTo(root, print, n)
<1> DEFINE S == {m \in Nat : \E print : PrintsTo(root, print, m)}
<1>1. 0 \in S
  <2> DEFINE print == [frames \in 0..0 |-> PrintLayer(root, 0, root)]
  <2>1. PrintLayer(root, 0, print) = PrintLayer(root, 0, root)
    BY DEF PrintLayer
  <2>2. print = [frames \in 0..0 |-> PrintLayer(root, frames, print)]
    <3>1. \A frames \in 0..0 : frames = 0
      OBVIOUS
    <3> QED BY <2>1, <3>1
  <2>. HIDE DEF print
  <2>3. PrintsTo(root, print, 0)
    BY <2>2 DEF PrintsTo
  <2> QED BY <2>3
<1>2. ASSUME NEW m \in Nat, m \in S PROVE m + 1 \in S
  <2>1. PICK print : PrintsTo(root, print, m)
    BY <1>2
  <2>2. \A frames \in 0..m : print[frames] = PrintLayer(root, frames, print)
    BY <2>1 DEF PrintsTo
  <2> DEFINE next == [frames \in 0..m + 1 |->
                        IF frames = m + 1 THEN PrintLayer(root, frames, print)
                        ELSE print[frames]]
  <2>3. /\ next[m + 1] = PrintLayer(root, m + 1, print) /\ DOMAIN next = 0..m + 1
        /\ \A frames \in 0..m : next[frames] = print[frames]
    <3>1. \A frames \in 0..m : frames \in 0..m + 1 /\ frames # m + 1
      OBVIOUS
    <3>2. m + 1 \in 0..m + 1
      OBVIOUS
    <3> QED BY <3>1, <3>2
  <2>4. next = [frames \in 0..m + 1 |-> next[frames]]
    BY <2>3
  <2>. HIDE DEF next
  <2>5. ASSUME NEW frames \in 0..m + 1
        PROVE  PrintLayer(root, frames, print) = PrintLayer(root, frames, next)
    <3>1. CASE frames = 0
      BY <3>1 DEF PrintLayer
    <3>2. CASE frames # 0
      <4>1. frames - 1 \in 0..m
        BY <3>2
      <4>2. next[frames - 1] = print[frames - 1]
        BY <2>3, <4>1
      <4> QED BY <3>2, <4>2 DEF PrintLayer
    <3> QED BY <3>1, <3>2
  <2>6. ASSUME NEW frames \in 0..m + 1 PROVE next[frames] = PrintLayer(root, frames, next)
    <3>1. frames \in 0..m \/ frames = m + 1
      OBVIOUS
    <3> QED BY <2>2, <2>3, <2>5, <3>1
  <2>7. PrintsTo(root, next, m + 1)
    BY <2>4, <2>6 DEF PrintsTo
  <2> QED BY <2>7
<1>3. Nat \subseteq S
  <2>. HIDE DEF S
  <2> QED BY <1>1, <1>2, NatSet
<1> QED BY <1>3

\* print_process_hierarchy by the room it has.
Printer(root) == CHOOSE print : PrintsTo(root, print, StackFrames)

\* It is what print_process_hierarchy runs, and each call's lines are Lines.
LEMMA PrinterIs ==
  ASSUME NEW root
  PROVE  /\ PrintHierarchy(root) = Printer(root)[StackFrames][root][<<>>][TRUE]
         /\ \A frames \in 1..StackFrames : \A node \in Nodes(<<root>>) :
              \A indent \in Seq(BOOLEAN) : \A isLast \in BOOLEAN :
                Printer(root)[frames][node][indent][isLast] =
                  Lines(node, indent, isLast, Printer(root)[frames - 1])
<1>1. PICK print : PrintsTo(root, print, StackFrames)
  BY PrintsExist, TreeAssumption
<1>2. PrintsTo(root, Printer(root), StackFrames)
  BY <1>1 DEF Printer
<1>3. PrintHierarchy(root) = Printer(root)[StackFrames][root][<<>>][TRUE]
  BY DEF PrintHierarchy, Printer, PrintsTo, PrintLayer
<1> DEFINE all == Printer(root)
<1>4. all = [frames \in 0..StackFrames |-> PrintLayer(root, frames, all)]
  BY <1>2 DEF PrintsTo
<1>. HIDE DEF all
<1>5. ASSUME NEW frames \in 1..StackFrames, NEW node \in Nodes(<<root>>),
             NEW indent \in Seq(BOOLEAN), NEW isLast \in BOOLEAN
      PROVE  all[frames][node][indent][isLast] = Lines(node, indent, isLast, all[frames - 1])
  <2>1. frames \in 0..StackFrames /\ frames # 0
    BY TreeAssumption
  <2>2. all[frames] = PrintLayer(root, frames, all)
    BY <1>4, <2>1
  <2>3. PrintLayer(root, frames, all)[node][indent][isLast]
          = Lines(node, indent, isLast, all[frames - 1])
    BY <2>1 DEF PrintLayer
  <2> QED
    BY <2>2, <2>3
<1> QED
  BY <1>3, <1>5 DEF all

\* It draws the process of a root and all its descendants.
LEMMA HierarchyDrawn ==
  ASSUME NEW flat, Proper(flat), Len(flat) <= StackFrames, NEW root, IsNode(flat, root, 0)
  PROVE  Drawn(flat, PrintHierarchy(root), root.info, <<>>, TRUE)
<1> DEFINE levels == Levels(<<root>>)
           below == Nodes(<<root>>)
           print == Printer(root)
           AllDrawn(m, node) ==
             \A indent \in Seq(BOOLEAN) : \A isLast \in BOOLEAN :
               Drawn(flat, print[m][node][indent][isLast], node.info, indent, isLast)
           S == {m \in Nat : m <= StackFrames =>
                   \A node \in levels[StackFrames - m] : AllDrawn(m, node)}
<1>1. \A k \in 0..StackFrames : \A node \in levels[k] : IsNode(flat, node, 0 + k)
  BY LevelsOfNode
<1>2. \A k \in 0..StackFrames : \A node \in levels[k] : IsNode(flat, node, k) /\ k < StackFrames
  <2> SUFFICES ASSUME NEW k \in 0..StackFrames, NEW node \in levels[k]
               PROVE  IsNode(flat, node, k) /\ k < StackFrames
    OBVIOUS
  <2>1. 0 + k = k /\ k \in Nat
    BY TreeAssumption
  <2>2. IsNode(flat, node, k)
    BY <1>1, <2>1
  <2> QED
    BY <2>1, <2>2, NodeIs
<1>3. \A k \in 1..StackFrames : levels[k] = UNION {Members(n.children) : n \in levels[k - 1]}
  <2>1. \A k \in 1..StackFrames : k \in 0..StackFrames /\ k # 0
    BY TreeAssumption
  <2> QED
    BY <2>1, LevelsAre
<1>4. root \in levels[0]
  <2>1. 0 \in 0..StackFrames
    BY TreeAssumption
  <2>2. levels[0] = Members(<<root>>)
    BY <2>1, LevelsAre
  <2>3. 1 \in DOMAIN <<root>> /\ <<root>>[1] = root
    OBVIOUS
  <2>. HIDE DEF levels
  <2> QED
    BY <2>2, <2>3 DEF Members
<1>5. below = UNION {levels[k] : k \in 0..StackFrames}
  BY DEF Nodes
<1>6. /\ PrintHierarchy(root) = print[StackFrames][root][<<>>][TRUE]
      /\ \A frames \in 1..StackFrames : \A node \in below :
           \A indent \in Seq(BOOLEAN) : \A isLast \in BOOLEAN :
             print[frames][node][indent][isLast]
               = Lines(node, indent, isLast, print[frames - 1])
  BY PrinterIs
<1>. HIDE DEF levels, below, print
<1>7. 0 \in S
  <2>1. \A node \in levels[StackFrames] : FALSE
    BY <1>2, TreeAssumption
  <2>2. StackFrames - 0 = StackFrames
    BY TreeAssumption
  <2> QED
    BY <2>1, <2>2
<1>8. ASSUME NEW m \in Nat, m \in S PROVE m + 1 \in S
  <2> DEFINE k == StackFrames - (m + 1)
  <2> SUFFICES ASSUME m + 1 <= StackFrames, NEW node \in levels[k] PROVE AllDrawn(m + 1, node)
    OBVIOUS
  <2>1. /\ k \in 0..StackFrames /\ k \in Nat /\ m + 1 \in 1..StackFrames /\ (m + 1) - 1 = m
        /\ m <= StackFrames /\ k + 1 \in 1..StackFrames /\ (k + 1) - 1 = k
        /\ k + 1 = StackFrames - m
    BY TreeAssumption
  <2>. HIDE DEF k
  <2>2. IsNode(flat, node, k) /\ node \in below
    BY <1>2, <1>5, <2>1
  <2>3. \A i \in DOMAIN node.children : node.children[i] \in levels[k + 1]
    <3>1. levels[k + 1] = UNION {Members(n.children) : n \in levels[k]}
      BY <1>3, <2>1
    <3> QED
      BY <3>1 DEF Members
  <2>4. \A i \in DOMAIN node.children : AllDrawn(m, node.children[i])
    <3>1. \A child \in levels[k + 1] : AllDrawn(m, child)
      BY <1>8, <2>1
    <3>. HIDE DEF AllDrawn
    <3> QED
      BY <2>3, <3>1
  <2>5. ASSUME NEW indent \in Seq(BOOLEAN), NEW isLast \in BOOLEAN
        PROVE  Drawn(flat, print[m + 1][node][indent][isLast], node.info, indent, isLast)
    <3>1. print[m + 1][node][indent][isLast] = Lines(node, indent, isLast, print[m])
      BY <1>6, <2>1, <2>2
    <3>2. Drawn(flat, Lines(node, indent, isLast, print[m]), node.info, indent, isLast)
      BY <2>1, <2>2, <2>4, LinesDrawn
    <3> QED
      BY <3>1, <3>2
  <2> QED
    BY <2>5
<1>9. Nat \subseteq S
  <2>. HIDE DEF S
  <2> QED BY <1>7, <1>8, NatSet
<1>10. AllDrawn(StackFrames, root)
  <2>1. StackFrames \in S /\ StackFrames - StackFrames = 0
    BY <1>9, TreeAssumption
  <2> QED
    BY <1>4, <2>1
<1>11. <<>> \in Seq(BOOLEAN) /\ TRUE \in BOOLEAN
  OBVIOUS
<1> QED
  BY <1>6, <1>10, <1>11

\* There is a first of the nodes with the largest aggregate.
LEMMA LargestIs ==
  ASSUME NEW roots, NEW n \in Nat \ {0}, DOMAIN roots = 1..n,
         \A i \in 1..n : Aggregate(roots[i]) \in 0..WordSize - 1
  PROVE  Largest(roots) \in 1..n
<1> DEFINE size(i) == Aggregate(roots[i])
<1>0. WordSize \in Nat /\ \A i \in 1..n : size(i) \in Nat /\ size(i) < WordSize
  BY TreeAssumption
<1>. HIDE DEF size
<1>1. PICK top \in 1..n : \A j \in 1..n : size(j) <= size(top)
  <2> DEFINE T == {WordSize - size(i) : i \in 1..n}
  <2>1. 1 \in 1..n
    OBVIOUS
  <2>2. T \in SUBSET Nat /\ T # {}
    BY <1>0, <2>1
  <2>3. PICK t \in T : \A s \in T : t <= s
    <3>. HIDE DEF T
    <3> QED
      BY <2>2, NatLeast
  <2>4. PICK i \in 1..n : t = WordSize - size(i)
    BY <2>3
  <2>5. ASSUME NEW j \in 1..n PROVE size(j) <= size(i)
    <3>1. WordSize - size(i) <= WordSize - size(j)
      BY <2>3, <2>4
    <3> QED
      BY <1>0, <3>1
  <2> QED
    BY <2>5
<1>2. PICK i \in 1..n : size(i) = size(top) /\ \A j \in 1..n : size(j) = size(top) => i <= j
  <2> DEFINE T == {j \in 1..n : size(j) = size(top)}
  <2>1. T \in SUBSET Nat /\ T # {}
    <3>1. top \in T
      OBVIOUS
    <3>2. \A j \in T : j \in Nat
      OBVIOUS
    <3> QED
      BY <3>1, <3>2
  <2>2. PICK t \in T : \A s \in T : t <= s
    <3>. HIDE DEF T
    <3> QED
      BY <2>1, NatLeast
  <2> QED
    BY <2>2
<1>3. \A j \in 1..n : size(i) > size(j) \/ (size(i) = size(j) /\ i <= j)
  <2> SUFFICES ASSUME NEW j \in 1..n
               PROVE  size(i) > size(j) \/ (size(i) = size(j) /\ i <= j)
    OBVIOUS
  <2>1. size(j) <= size(i) /\ size(i) \in Nat /\ size(j) \in Nat
    BY <1>0, <1>1, <1>2
  <2> QED
    BY <1>2, <2>1
<1> QED
  BY <1>3 DEF Largest, size

\* The roots of a forest are the nodes of the roots.
LEMMA RootNodes ==
  ASSUME NEW flat, Proper(flat), Numbers(flat), Len(flat) <= StackFrames
  PROVE  LET roots == Build(flat) IN
         /\ \A i \in DOMAIN roots : IsNode(flat, roots[i], 0)
         /\ roots # <<>> => Largest(roots) \in DOMAIN roots
<1> DEFINE roots == Build(flat)
           infos == Roots(flat)
           n == Len(infos)
<1>0. Len(flat) \in Nat /\ DOMAIN flat = 1..Len(flat)
  BY DEF Proper
<1>1. n \in Nat /\ DOMAIN infos = 1..n
  <2> DEFINE P == {i \in DOMAIN flat : IsRoot(flat[i], flat)}
  <2>1. P \in SUBSET (1..Len(flat)) /\ infos = Selected(flat, P)
    BY <1>0 DEF Roots
  <2>2. IsListing(Selected(flat, P))
    <3>. HIDE DEF P
    <3> QED
      BY <1>0, <2>1, SelectedSequence
  <2>. HIDE DEF infos, P
  <2>3. PICK c \in Nat : infos = [k \in 1..c |-> infos[k]]
    BY <2>1, <2>2 DEF IsListing
  <2> QED
    BY <2>3
<1>2. /\ roots = [i \in 1..n |-> roots[i]]
      /\ \A i \in 1..n : roots[i] = BuildNodes(flat)[StackFrames][infos[i]]
  <2>1. roots = [i \in DOMAIN infos |-> BuildNodes(flat)[StackFrames][infos[i]]]
    BY DEF Build
  <2>. HIDE DEF roots, infos, n
  <2> QED
    BY <1>1, <2>1
<1>3. \A i \in 1..n : infos[i] \in AtDepth(flat, 0)
  <2>1. Members(infos) = {p \in Members(flat) : IsRoot(p, flat)}
    BY RootsAre
  <2>2. Members(infos) = AtDepth(flat, 0)
    BY <2>1, AtDepthIs
  <2>. HIDE DEF infos, n
  <2> QED
    BY <1>1, <2>2 DEF Members
<1>. HIDE DEF roots, infos, n
<1>4. DOMAIN roots = 1..n
  BY <1>2
<1>5. ASSUME NEW i \in 1..n PROVE IsNode(flat, roots[i], 0)
  <2>1. StackFrames - 0 = StackFrames
    BY TreeAssumption
  <2> QED
    BY <1>2, <1>3, <2>1 DEF IsNode
<1>6. \A i \in 1..n : Aggregate(roots[i]) \in 0..WordSize - 1
  <2> SUFFICES ASSUME NEW i \in 1..n PROVE Aggregate(roots[i]) \in 0..WordSize - 1
    OBVIOUS
  <2> DEFINE some == Descendants(flat, {roots[i].info})
             sum == SumOver(flat, some)
  <2>1. Aggregate(roots[i]) = sum % WordSize
    BY <1>5, AggregateIs DEF TotalOf
  <2>2. sum \in Nat
    <3>1. Len(flat) \in 0..Len(flat)
      BY <1>0
    <3>. HIDE DEF some
    <3> QED
      BY <1>0, <3>1, SumsAre, SumsType
  <2>. HIDE DEF sum
  <2> QED
    BY <2>1, <2>2, ModForm, TreeAssumption
<1>7. ASSUME roots # <<>> PROVE Largest(roots) \in 1..n
  <2>1. n # 0
    <3> SUFFICES ASSUME n = 0 PROVE FALSE
      OBVIOUS
    <3>1. 1..n = {}
      OBVIOUS
    <3>2. roots = <<>>
      BY <1>2, <3>1
    <3> QED
      BY <1>7, <3>2
  <2> QED
    BY <1>1, <1>4, <1>6, <2>1, LargestIs
<1> QED
  BY <1>4, <1>5, <1>7 DEF roots

\* So what is printed for the largest is drawn.
LEMMA LargestDrawn ==
  ASSUME NEW flat, Proper(flat), Numbers(flat), Len(flat) <= StackFrames, Build(flat) # <<>>
  PROVE  \E p \in AtDepth(flat, 0) :
           Drawn(flat, PrintHierarchy(Build(flat)[Largest(Build(flat))]), p, <<>>, TRUE)
<1> DEFINE root == Build(flat)[Largest(Build(flat))]
<1>1. IsNode(flat, root, 0)
  BY RootNodes
<1>2. root.info \in AtDepth(flat, 0)
  BY <1>1, NodeIs
<1> QED
  BY <1>1, <1>2, HierarchyDrawn

\* The process a line is about.
InfoOf(flat, lines, i) == CHOOSE q \in Members(flat) : q.pid = lines[i].pid

\* What TreeReadable says of them.
Reads(flat, lines) ==
  /\ DOMAIN lines = 1..Len(lines) /\ Len(lines) \in Nat /\ Len(lines) > 0
  /\ {InfoOf(flat, lines, i) : i \in 1..Len(lines)}
       = Descendants(flat, {InfoOf(flat, lines, 1)})
  /\ \A i \in 1..Len(lines) :
       /\ lines[i].last <=> ~HasSibling(lines, i)
       /\ \A j \in 1..i - 1 : lines[j].pid # lines[i].pid
       /\ i > 1 => \E j \in 1..i - 1 :
            /\ Depth(lines, j) = Depth(lines, i) - 1
            /\ InfoOf(flat, lines, i).ppid = lines[j].pid
            /\ \A k \in j + 1..i : Depth(lines, k) > Depth(lines, j)
            /\ lines[i].indent = Append(lines[j].indent, lines[j].last)

\* A drawing is readable.
LEMMA DrawnReads ==
  ASSUME NEW flat, Proper(flat), NEW p \in AtDepth(flat, 0),
         NEW lines, Drawn(flat, lines, p, <<>>, TRUE)
  PROVE  Reads(flat, lines)
<1> DEFINE info(i) == InfoOf(flat, lines, i)
           n == Len(lines)
           below == Descendants(flat, {p})
<1>1. /\ lines \in Seq(LineOf(flat)) /\ n > 0
      /\ lines[1] = [pid |-> p.pid, indent |-> <<>>, last |-> TRUE]
      /\ \A i \in 2..n : Depth(lines, i) > Len(<<>>)
      /\ {lines[i].pid : i \in 1..n} = {q.pid : q \in below}
      /\ \A i, j \in 1..n : lines[i].pid = lines[j].pid => i = j
      /\ \A i \in 2..n :
           HasParent(flat, lines, i) /\ (lines[i].last <=> ~HasSibling(lines, i))
  BY DEF Drawn, Begins, Draws
<1>2. below \subseteq Members(flat) /\ p \in Members(flat) /\ p \in below
  BY DescendantsIn DEF AtDepth
<1>3. DOMAIN lines = 1..n /\ n \in Nat
  BY <1>1
<1>. HIDE DEF below, n
<1>4. {lines[i].pid : i \in 1..n} = {q.pid : q \in below}
  BY <1>1
<1>5. ASSUME NEW i \in 1..n
      PROVE  info(i) \in below /\ info(i).pid = lines[i].pid
  <2>1. lines[i].pid \in {lines[k].pid : k \in 1..n}
    OBVIOUS
  <2>2. lines[i].pid \in {q.pid : q \in below}
    BY ONLY <1>4, <2>1
  <2>3. PICK q \in below : q.pid = lines[i].pid
    BY ONLY <2>2
  <2>4. q \in Members(flat)
    BY <1>2, <2>3
  <2>5. info(i) \in Members(flat) /\ info(i).pid = lines[i].pid
    BY <2>3, <2>4 DEF InfoOf
  <2>6. info(i) = q
    <3>. HIDE DEF info
    <3> QED
      BY <2>3, <2>4, <2>5, SamePid
  <2> QED
    BY <2>3, <2>6
<1>. HIDE DEF info
<1>6. 1 \in 1..n
  BY <1>1, <1>3
<1>7. info(1) = p
  <2>1. info(1).pid = p.pid /\ info(1) \in Members(flat)
    BY <1>1, <1>2, <1>5, <1>6
  <2> QED
    BY <1>2, <2>1, SamePid
<1>8. {info(i) : i \in 1..n} = below
  <2>1. ASSUME NEW q \in below PROVE \E i \in 1..n : info(i) = q
    <3>1. q.pid \in {r.pid : r \in below}
      OBVIOUS
    <3>2. q.pid \in {lines[i].pid : i \in 1..n}
      BY ONLY <1>4, <3>1
    <3>3. PICK i \in 1..n : lines[i].pid = q.pid
      BY ONLY <3>2
    <3>4. info(i).pid = q.pid /\ info(i) \in Members(flat) /\ q \in Members(flat)
      BY <1>2, <1>5, <3>3
    <3> QED
      BY <3>4, SamePid
  <2> QED
    BY <1>5, <2>1
<1>9. lines[1].last /\ ~HasSibling(lines, 1)
  <2>1. lines[1].last
    BY <1>1
  <2>2. ASSUME NEW j \in 1..n, SiblingAt(lines, 1, j) PROVE FALSE
    <3>1. j \in 2..n /\ Depth(lines, 1) = Depth(lines, j)
      BY <1>3, <2>2 DEF SiblingAt
    <3>2. Depth(lines, 1) = 0
      <4>1. lines[1].indent = <<>>
        BY <1>1
      <4> QED
        BY <4>1 DEF Depth
    <3>3. Depth(lines, j) > 0
      BY <1>1, <3>1
    <3> QED
      BY <3>1, <3>2, <3>3
  <2> QED
    BY <2>1, <2>2 DEF HasSibling, n
<1>10. ASSUME NEW i \in 1..n PROVE lines[i].last <=> ~HasSibling(lines, i)
  <2>1. i = 1 \/ i \in 2..n
    BY <1>3
  <2> QED
    BY <1>1, <1>9, <2>1
<1>11. ASSUME NEW i \in 1..n, NEW j \in 1..i - 1 PROVE lines[j].pid # lines[i].pid
  <2>1. j \in 1..n /\ j # i
    BY <1>3
  <2> QED
    BY <1>1, <2>1
<1>12. ASSUME NEW i \in 1..n, i > 1
       PROVE  \E j \in 1..i - 1 :
                /\ Depth(lines, j) = Depth(lines, i) - 1
                /\ info(i).ppid = lines[j].pid
                /\ \A k \in j + 1..i : Depth(lines, k) > Depth(lines, j)
                /\ lines[i].indent = Append(lines[j].indent, lines[j].last)
  <2>1. i \in 2..n
    BY <1>3, <1>12
  <2>2. PICK j \in 1..i - 1 : ParentAt(flat, lines, i, j)
    BY <1>1, <2>1 DEF HasParent
  <2>3. info(i) \in Members(flat) /\ info(i).pid = lines[i].pid
    BY <1>2, <1>5
  <2> QED
    BY <2>2, <2>3 DEF ParentAt
<1> QED
  BY <1>1, <1>3, <1>7, <1>8, <1>10, <1>11, <1>12 DEF Reads, info, n, below

-----------------------------------------------------------------------------
(* What test_process_monitoring builds.                                    *)

\* It builds its forest of a list of different processes, as many as are
\* followed at most.
FlatProper ==
  world \in Worlds /\ Proper(Flat) /\ Len(Flat) <= world.busy

\* The stack has room for as many calls as processes are followed.
StackSuffices == \A w \in Worlds : w.busy <= StackFrames

\* Only the last test changes the list and what is shown of it.
LEMMA OnlyMonitor ==
  ASSUME [Next]_vars
  PROVE  UNCHANGED <<world, tracked_processes, printed>> \/ Monitor
<1>1. RunSimple \/ Summary => UNCHANGED <<world, tracked_processes, printed>>
  BY DEF RunSimple, Summary, monitorVars
<1>2. BeginList \/ ReadDir \/ EndOfDir \/ Stat \/ Filter =>
        UNCHANGED <<world, tracked_processes, printed>>
  BY DEF BeginList, ReadDir, EndOfDir, Stat, Filter, monitorVars
<1>3. ListStatus \/ ListMetrics \/ EndList =>
        UNCHANGED <<world, tracked_processes, printed>>
  BY DEF ListStatus, ListMetrics, EndList, monitorVars
<1>4. \A t : KernelStep(t) => UNCHANGED <<world, tracked_processes, printed>>
  BY DEF KernelStep, monitorVars
<1>5. Kernel => UNCHANGED <<world, tracked_processes, printed>>
  BY <1>4 DEF Kernel, Spawn, Exec, Exit, Reap
<1>6. UNCHANGED vars => UNCHANGED <<world, tracked_processes, printed>>
  BY DEF vars, monitorVars
<1> QED
  BY <1>1, <1>2, <1>3, <1>5, <1>6 DEF Next, List

\* The list the tree is built from always has different processes, each
\* under its own number, and no more than the world has.
LEMMA FlatInductive == Spec => []FlatProper
<1>1. Init => FlatProper
  <2> SUFFICES ASSUME Init PROVE FlatProper
    OBVIOUS
  <2>1. world \in Worlds /\ Flat = <<>>
    BY DEF Init, Flat
  <2>2. Len(Flat) = 0 /\ DOMAIN Flat = {} /\ 1..0 = {} /\ world.busy \in Nat
    BY <2>1, WorldAssumption
  <2> QED
    BY <2>1, <2>2 DEF FlatProper, Proper
<1>2. FlatProper /\ [Next]_vars => FlatProper'
  <2> SUFFICES ASSUME FlatProper, [Next]_vars PROVE FlatProper'
    OBVIOUS
  <2>1. CASE UNCHANGED <<world, tracked_processes>>
    BY <2>1 DEF FlatProper, Proper, Flat
  <2>2. CASE Monitor
    <3>1. world' = world
      BY <2>2 DEF Monitor
    <3>2. PICK n \in 0..world.busy :
            \E pid \in {f \in [1..n -> Pids] : \A i, j \in 1..n : f[i] = f[j] => i = j},
               ppid \in [1..n -> Ppids] :
              /\ \A i \in 1..n : pid[i] # ppid[i]
              /\ tracked_processes' =
                   [i \in 1..n |->
                      [pid |-> pid[i], ppid |-> ppid[i], mem |-> Rss[pid[i]]]]
      BY <2>2 DEF Monitor
    <3>3. PICK pid \in [1..n -> Pids], ppid \in [1..n -> Ppids] :
            /\ \A i, j \in 1..n : pid[i] = pid[j] => i = j
            /\ tracked_processes' =
                 [i \in 1..n |-> [pid |-> pid[i], ppid |-> ppid[i], mem |-> Rss[pid[i]]]]
      BY <3>2
    <3>4. world \in Worlds /\ world.busy \in Nat /\ n \in Nat /\ n <= world.busy
      BY <3>2, WorldAssumption DEF FlatProper
    <3>5. \A i, j \in 1..n : pid[i] = pid[j] => i = j
      BY <3>3
    <3>6. /\ DOMAIN Flat' = 1..n /\ \A i \in 1..n : Flat'[i].pid = pid[i]
      BY <3>3 DEF Flat
    <3>7. Len(Flat') = n
      BY <3>3, <3>4 DEF Flat
    <3>8. \A i \in 1..n : pid[i] # 0
      BY WorldAssumption
    <3> QED
      BY <3>1, <3>4, <3>5, <3>6, <3>7, <3>8 DEF FlatProper, Proper
  <2> QED
    BY <2>1, <2>2, OnlyMonitor
<1> QED
  BY <1>1, <1>2, PTL DEF Spec

\* process_tree.hpp: build_node never calls itself more often than the list is
\* long: a stack with room for as many calls never runs over.
THEOREM BuildEnds == ASSUME StackSuffices PROVE Spec => []Terminates
<1>1. FlatProper => Terminates
  <2> SUFFICES ASSUME FlatProper, NEW node \in Nodes(Forest) PROVE node # Overflow
    BY DEF Terminates
  <2>1. Len(Flat) \in Nat /\ world.busy \in Nat /\ Len(Flat) <= StackFrames
    BY WorldAssumption, TreeAssumption DEF FlatProper, Proper, StackSuffices
  <2> QED
    BY <2>1, BuildTerminates DEF FlatProper, Forest
<1> QED
  BY <1>1, FlatInductive, PTL

\* process_tree.hpp: every process is placed at most once, as a root or under
\* the process its ppid names.
THEOREM PlacedOnce == Spec => []Placed
<1>1. FlatProper => Placed
  BY BuildPlaces DEF FlatProper, Placed, Forest
<1> QED
  BY <1>1, FlatInductive, PTL

\* process_tree.hpp: the processes left out of the forest are those on a cycle
\* of ppids and their descendants.
THEOREM BuildComplete == ASSUME StackSuffices PROVE Spec => []Complete
<1>1. FlatProper => Complete
  <2> SUFFICES ASSUME FlatProper PROVE Complete
    OBVIOUS
  <2>1. Len(Flat) \in Nat /\ world.busy \in Nat /\ Len(Flat) <= StackFrames
    BY WorldAssumption, TreeAssumption DEF FlatProper, Proper, StackSuffices
  <2>2. \A p : OnCycle(p) <=> Cyclic(Flat, p)
    BY DEF OnCycle, Cyclic
  <2>3. {p \in Members(Flat) : OnCycle(p)} = {p \in Members(Flat) : Cyclic(Flat, p)}
    BY <2>2
  <2>4. {node.info : node \in Nodes(Build(Flat))} =
          Members(Flat) \ Descendants(Flat, {p \in Members(Flat) : Cyclic(Flat, p)})
    BY <2>1, BuildIsComplete DEF FlatProper
  <2> QED
    BY <2>3, <2>4 DEF Complete, Forest
<1> QED
  BY <1>1, FlatInductive, PTL

\* The numbers of the processes in the list are those of the world.
LEMMA NumbersInductive == Spec => []Numbers(Flat)
<1>1. Init => Numbers(Flat)
  BY DEF Init, Flat, Numbers
<1>2. Numbers(Flat) /\ [Next]_vars => Numbers(Flat)'
  <2> SUFFICES ASSUME Numbers(Flat), [Next]_vars PROVE Numbers(Flat)'
    OBVIOUS
  <2>1. CASE UNCHANGED <<world, tracked_processes>>
    BY <2>1 DEF Numbers, Flat
  <2>2. CASE Monitor
    <3>1. PICK n \in 0..world.busy :
            \E pid \in {f \in [1..n -> Pids] : \A i, j \in 1..n : f[i] = f[j] => i = j},
               ppid \in [1..n -> Ppids] :
              /\ \A i \in 1..n : pid[i] # ppid[i]
              /\ tracked_processes' =
                   [i \in 1..n |->
                      [pid |-> pid[i], ppid |-> ppid[i], mem |-> Rss[pid[i]]]]
      BY <2>2 DEF Monitor
    <3>2. PICK pid \in [1..n -> Pids], ppid \in [1..n -> Ppids] :
            tracked_processes' =
              [i \in 1..n |-> [pid |-> pid[i], ppid |-> ppid[i], mem |-> Rss[pid[i]]]]
      BY <3>1
    <3>3. DOMAIN Flat' = 1..n /\ \A i \in 1..n : Flat'[i].mem = Rss[pid[i]]
      BY <3>2 DEF Flat
    <3>4. \A i \in 1..n : pid[i] \in Pids
      OBVIOUS
    <3>5. \A p \in Pids : Rss[p] \in 0..WordSize - 1
      BY WorldAssumption
    <3> QED
      BY <3>3, <3>4, <3>5 DEF Numbers
  <2> QED
    BY <2>1, <2>2, OnlyMonitor
<1> QED
  BY <1>1, <1>2, PTL DEF Spec

\* process_tree.hpp: the aggregate of every node is the sum over all the
\* descendants of its process, modulo 2^64.
THEOREM TotalsCorrect == ASSUME StackSuffices PROVE Spec => []Totals
<1>1. FlatProper /\ Numbers(Flat) => Totals
  <2> SUFFICES ASSUME FlatProper, Numbers(Flat), NEW node \in Nodes(Forest)
               PROVE  Aggregate(node)
                        = SumOver(Flat, Descendants(Flat, {node.info})) % WordSize
    BY DEF Totals
  <2>1. Len(Flat) \in Nat /\ world.busy \in Nat /\ Len(Flat) <= StackFrames
    BY WorldAssumption, TreeAssumption DEF FlatProper, Proper, StackSuffices
  <2> QED
    BY <2>1, AggregateIsTotal DEF FlatProper, Forest
<1> QED
  BY <1>1, FlatInductive, NumbersInductive, PTL

\* What was printed is the drawing of one of the roots.
PictureDrawn ==
  printed # <<>> =>
    \E p \in AtDepth(Flat, 0) : Drawn(Flat, printed, p, <<>>, TRUE)

\* It stays so: the list and its picture change together.
LEMMA PictureInductive == ASSUME StackSuffices PROVE Spec => []PictureDrawn
<1>1. Init => PictureDrawn
  BY DEF Init, PictureDrawn
<1>2. FlatProper' /\ Numbers(Flat)' /\ PictureDrawn /\ [Next]_vars => PictureDrawn'
  <2> SUFFICES ASSUME FlatProper', Numbers(Flat)', PictureDrawn, [Next]_vars
               PROVE  PictureDrawn'
    OBVIOUS
  <2>1. CASE UNCHANGED <<tracked_processes, printed>>
    BY <2>1 DEF PictureDrawn, Flat
  <2>2. CASE Monitor
    <3>1. /\ Build(Flat') = <<>> => printed' = <<>>
          /\ Build(Flat') # <<>> =>
               printed' = PrintHierarchy(Build(Flat')[Largest(Build(Flat'))])
      BY <2>2 DEF Monitor, Flat
    <3>2. Len(Flat') \in Nat /\ world'.busy \in Nat /\ Len(Flat') <= StackFrames
      BY WorldAssumption, TreeAssumption DEF FlatProper, Proper, StackSuffices
    <3>3. Proper(Flat') /\ Numbers(Flat')
      BY DEF FlatProper
    <3> QED
      BY <3>1, <3>2, <3>3, LargestDrawn DEF PictureDrawn
  <2> QED
    BY <2>1, <2>2, OnlyMonitor
<1> QED
  BY <1>1, <1>2, FlatInductive, NumbersInductive, PTL DEF Spec

\* main.cpp print_process_hierarchy: the picture of the largest tree shows its
\* processes once each, below their parents, with a bar for every sibling that
\* is still to come.
THEOREM PictureReadable == ASSUME StackSuffices PROVE Spec => []TreeReadable
<1>1. FlatProper /\ PictureDrawn => TreeReadable
  <2> SUFFICES ASSUME FlatProper, PictureDrawn, printed # <<>> PROVE TreeReadable
    BY DEF TreeReadable
  <2> DEFINE lines == printed
  <2>1. PICK p \in AtDepth(Flat, 0) : Drawn(Flat, lines, p, <<>>, TRUE)
    BY DEF PictureDrawn
  <2>2. Proper(Flat)
    BY DEF FlatProper
  <2> DEFINE info(i) == InfoOf(Flat, lines, i)
  <2>3. \A i : Level(i) = Depth(lines, i)
    BY DEF Level, Depth
  <2>4. \A i, j : Sibling(i, j) <=> SiblingAt(lines, i, j)
    BY <2>3 DEF Sibling, SiblingAt
  <2>5. /\ DOMAIN lines = 1..Len(lines)
        /\ {info(i) : i \in 1..Len(lines)} = Descendants(Flat, {info(1)})
        /\ \A i \in 1..Len(lines) :
             /\ lines[i].last <=> ~HasSibling(lines, i)
             /\ \A j \in 1..i - 1 : lines[j].pid # lines[i].pid
             /\ i > 1 => \E j \in 1..i - 1 :
                  /\ Depth(lines, j) = Depth(lines, i) - 1
                  /\ info(i).ppid = lines[j].pid
                  /\ \A k \in j + 1..i : Depth(lines, k) > Depth(lines, j)
                  /\ lines[i].indent = Append(lines[j].indent, lines[j].last)
    <3>1. Reads(Flat, lines)
      BY <2>1, <2>2, DrawnReads
    <3> QED
      BY <3>1 DEF Reads
  <2> HIDE DEF lines, info
  <2>6. ASSUME NEW i \in DOMAIN lines
        PROVE  /\ lines[i].last <=> ~\E j \in DOMAIN lines : Sibling(i, j)
               /\ \A j \in 1..i - 1 : lines[j].pid # lines[i].pid
               /\ i > 1 => \E j \in 1..i - 1 :
                    /\ Level(j) = Level(i) - 1 /\ info(i).ppid = lines[j].pid
                    /\ \A k \in j + 1..i : Level(k) > Level(j)
                    /\ lines[i].indent = Append(lines[j].indent, lines[j].last)
    <3>1. lines[i].last <=> ~\E j \in DOMAIN lines : Sibling(i, j)
      BY <2>4, <2>5 DEF HasSibling
    <3> QED
      BY <2>3, <2>5, <3>1
  <2>7. {info(i) : i \in DOMAIN lines} = Descendants(Flat, {info(1)})
    BY <2>5
  <2> QED
    BY <2>6, <2>7 DEF TreeReadable, InfoOf, lines, info
<1> QED
  BY <1>1, FlatInductive, PictureInductive, PTL
=============================================================================
