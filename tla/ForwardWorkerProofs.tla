------------------------- MODULE ForwardWorkerProofs ------------------------
(***************************************************************************)
(* What a step of the forward worker keeps, for every set of assets and    *)
(* any number of days and faults: the ledger and its copy hold consecutive *)
(* days, the journal is written ahead of the ledger, and neither the A/B   *)
(* pairs nor the snapshot are ahead of it. PaperStackProofs draws the      *)
(* conclusions for the worker and its supervisor together.                 *)
(***************************************************************************)
EXTENDS ForwardWorker, SequenceTheorems, TLAPS

\* Each revision of a bar was a fault.
RevisionsAreFaults ==
    /\ faults \in 0..MaxFaults
    /\ \A d \in Day : bars[d] <= faults

\* A ledger file holds a day, and its days are consecutive.
LedgerIsWhole == ledger # NoLedger => ledger.days # << >> /\ DayByDay(ledger)

Begins(s, t) == Len(s) <= Len(t) /\ \A i \in 1..Len(s) : s[i] = t[i]

\* What the poll knows of its copy: it goes on where the file ends, and differs
\* from it in its days only while they are being journalled; from then on it
\* has caught up with the feed.
CopyExtendsLedger ==
    copy # NoLedger =>
      /\ ledger # NoLedger
      /\ copy.days # << >>
      /\ DayByDay(copy)
      /\ Begins(ledger.days, copy.days)
      /\ Last(ledger.days) <= Last(copy.days)
      /\ pc # "journalling" => copy.days = ledger.days
      /\ pc \in {"journalling", "observing", "publishing"} => feed.day <= Last(copy.days)

IsJournalled(day) == \E j \in DOMAIN journal : journal[j].type = "day" /\ journal[j].day = day

IsPending(day) == \E k \in DOMAIN pending : pending[k] = day

\* No day of the copy is forgotten: it has its line or it is about to get it.
CopyIsJournalled ==
    /\ pc # "journalling" => pending = << >>
    /\ copy # NoLedger =>
         \A i \in 2..Len(copy.days) : IsJournalled(copy.days[i]) \/ IsPending(copy.days[i])

WorkerInv ==
    /\ WorkerTypeOK
    /\ RevisionsAreFaults
    /\ LedgerIsWhole
    /\ CopyExtendsLedger
    /\ CopyIsJournalled
    /\ EveryDayIsJournalled
    /\ PairsFollowTheLedger

-----------------------------------------------------------------------------
LEMMA PollInv ==
    ASSUME WorkerInv, Poll
    PROVE  WorkerInv'
<1> USE DEF WorkerInv
<1>1. feed' \in Feed /\ faults' \in 0..MaxFaults /\ faults' >= faults
  BY ForwardAssumption DEF Poll, Feed, WorkerTypeOK, RevisionsAreFaults, market
<1>2. WorkerTypeOK'
  BY <1>1, ForwardAssumption DEF Poll, At, WorkerTypeOK, market, files
<1>3. RevisionsAreFaults'
  BY <1>1, ForwardAssumption DEF Poll, WorkerTypeOK, RevisionsAreFaults, market
<1>4. LedgerIsWhole' /\ CopyExtendsLedger'
  BY DEF Poll, At, WorkerTypeOK, LedgerIsWhole, DayByDay, CopyExtendsLedger, files
<1>5. CopyIsJournalled' /\ EveryDayIsJournalled'
  BY DEF Poll, At, WorkerTypeOK, CopyIsJournalled, EveryDayIsJournalled, files
<1>6. PairsFollowTheLedger'
  BY DEF Poll, PairsFollowTheLedger, files
<1> QED BY <1>2, <1>3, <1>4, <1>5, <1>6

\* A poll that ends leaves the files as they are, but for a torn line.
LEMMA GiveUpInv ==
    ASSUME WorkerInv, GiveUp,
           UNCHANGED <<market, ledger, journal, pairs, snapshot>>,
           torn' \subseteq {"journal", "pairs"},
           process' \in {"up", "down", "exited"},
           faults' \in 0..MaxFaults, faults' >= faults
    PROVE  WorkerInv'
<1> USE DEF WorkerInv, GiveUp
<1>1. WorkerTypeOK'
  BY DEF WorkerTypeOK, market
<1>2. RevisionsAreFaults'
  BY DEF WorkerTypeOK, RevisionsAreFaults, market
<1>3. LedgerIsWhole' /\ CopyExtendsLedger'
  BY DEF LedgerIsWhole, DayByDay, CopyExtendsLedger
<1>4. CopyIsJournalled' /\ EveryDayIsJournalled'
  BY DEF CopyIsJournalled, EveryDayIsJournalled
<1>5. PairsFollowTheLedger'
  BY DEF PairsFollowTheLedger
<1> QED BY <1>1, <1>2, <1>3, <1>4, <1>5

\* One line more in the journal: what was there stays, and the copy counts it.
LEMMA AppendEventAdds ==
    ASSUME journal \in Seq(Event), NEW base \in Ledger, NEW day \in Day,
           NEW type \in {"bootstrap", "revision", "day"}, AppendEvent(base, type, day)
    PROVE  /\ journal' \in Seq(Event)
           /\ copy' \in Ledger
           /\ copy'.days = base.days
           /\ \A d : IsJournalled(d) => IsJournalled(d)'
           /\ type = "day" => IsJournalled(day)'
<1> DEFINE line == [sequence |-> base.sequence + 1, type |-> type, day |-> day]
<1>1. line \in Event /\ journal' = Append(journal, line)
  BY DEF Event, AppendEvent, Ledger
<1>2. copy' \in Ledger /\ copy'.days = base.days
  <2>1. copy' = [base EXCEPT !.sequence = base.sequence + 1]
    BY DEF AppendEvent
  <2>2. base.sequence + 1 \in Nat
    BY DEF Ledger
  <2> QED BY <2>1, <2>2 DEF Ledger
<1>3. line.type = type /\ line.day = day
  OBVIOUS
<1> HIDE DEF line
<1>4. /\ journal' \in Seq(Event)
      /\ Len(journal') = Len(journal) + 1
      /\ \A i \in 1..Len(journal) : journal'[i] = journal[i]
      /\ journal'[Len(journal) + 1] = line
  BY <1>1
<1>5. \A d : IsJournalled(d) => IsJournalled(d)'
  BY <1>4 DEF IsJournalled
<1>6. type = "day" => IsJournalled(day)'
  BY <1>3, <1>4 DEF IsJournalled
<1> QED BY <1>2, <1>4, <1>5, <1>6

\* A step that writes at most a line to the journal and leaves the days of the
\* copy as they are keeps the invariant, wherever it goes before journalling.
LEMMA GoOnInv ==
    ASSUME WorkerInv, At(pc), copy # NoLedger,
           NEW place \in {"confirming", "comparing", "advancing"}, GoOn(place),
           pc \in {"announcing", "confirming", "comparing"},
           copy' \in Ledger, copy'.days = copy.days, journal' \in Seq(Event),
           ledger' \in Ledger, ledger'.days = ledger.days,
           \A d : IsJournalled(d) => IsJournalled(d)',
           UNCHANGED <<market, torn, pairs, snapshot, process, faults>>
    PROVE  WorkerInv'
<1> USE DEF WorkerInv, GoOn
<1>1. copy' # NoLedger /\ ledger' # NoLedger /\ ledger # NoLedger
  BY ForwardAssumption DEF CopyExtendsLedger
<1>2. WorkerTypeOK'
  BY <1>1 DEF WorkerTypeOK, market, At
<1>3. RevisionsAreFaults'
  BY DEF RevisionsAreFaults, market
<1>4. LedgerIsWhole' /\ CopyExtendsLedger'
  BY <1>1 DEF LedgerIsWhole, DayByDay, CopyExtendsLedger, Begins
<1>5. CopyIsJournalled'
  BY <1>1 DEF CopyIsJournalled, IsPending
<1>6. EveryDayIsJournalled'
  BY <1>1 DEF EveryDayIsJournalled, IsJournalled
<1>7. PairsFollowTheLedger'
  BY <1>1 DEF PairsFollowTheLedger
<1> QED BY <1>2, <1>3, <1>4, <1>5, <1>6, <1>7

\* The first ledger: one day, nothing to journal.
LEMMA BootstrapInv ==
    ASSUME WorkerInv, Bootstrap
    PROVE  WorkerInv'
<1> USE DEF WorkerInv, GoOn
<1>1. feed \in Feed /\ feed' = feed /\ pc' = "announcing" /\ pending' = pending /\ process' = "up"
  BY DEF Bootstrap, Ready, At, WorkerTypeOK
<1>2. /\ ledger' \in Ledger /\ copy' = ledger' /\ ledger' # NoLedger
      /\ ledger'.days = <<feed.day>> /\ feed.day \in Day
  <2>1. /\ feed.day \in Day /\ feed.bars[feed.day] \in Nat
        /\ Active \in SUBSET Assets
    BY <1>1, ForwardAssumption DEF Feed, Active
  <2>2. FirstLedger \in Ledger /\ FirstLedger.days = <<feed.day>>
    BY <2>1 DEF FirstLedger, Ledger
  <2> QED BY <2>1, <2>2, ForwardAssumption DEF Bootstrap
<1>3. WorkerTypeOK'
  BY <1>1, <1>2 DEF WorkerTypeOK, market, Bootstrap, Ready, At
<1>4. RevisionsAreFaults'
  BY DEF RevisionsAreFaults, market, Bootstrap
<1>5. LedgerIsWhole' /\ CopyExtendsLedger'
  BY <1>1, <1>2 DEF LedgerIsWhole, DayByDay, CopyExtendsLedger, Begins, Last, Day
<1>6. CopyIsJournalled' /\ EveryDayIsJournalled'
  BY <1>1, <1>2 DEF CopyIsJournalled, EveryDayIsJournalled, Bootstrap, Ready, At
<1>7. PairsFollowTheLedger'
  BY <1>2, ForwardAssumption DEF PairsFollowTheLedger, Bootstrap, Last, Day
<1> QED BY <1>3, <1>4, <1>5, <1>6, <1>7

LEMMA LoadLedgerInv ==
    ASSUME WorkerInv, LoadLedger
    PROVE  WorkerInv'
<1> USE DEF WorkerInv, GoOn, LoadLedger, Ready, At, files
<1>1. WorkerTypeOK' /\ RevisionsAreFaults'
  BY DEF WorkerTypeOK, RevisionsAreFaults, market
<1>2. ledger.days \in Seq(Day) /\ ledger.days # << >>
  BY DEF LedgerIsWhole, WorkerTypeOK, Ledger
<1>3. Begins(ledger.days, ledger.days) /\ Last(ledger.days) <= Last(ledger.days)
  <2>1. Len(ledger.days) \in Nat /\ ledger.days[Len(ledger.days)] \in Day
    BY <1>2
  <2> QED BY <2>1, ForwardAssumption DEF Begins, Last, Day
<1>4. LedgerIsWhole' /\ CopyExtendsLedger'
  BY <1>2, <1>3 DEF LedgerIsWhole, CopyExtendsLedger
<1>5. CopyIsJournalled' /\ EveryDayIsJournalled'
  BY DEF CopyIsJournalled, EveryDayIsJournalled, IsJournalled
<1>6. PairsFollowTheLedger'
  BY DEF PairsFollowTheLedger
<1> QED BY <1>1, <1>4, <1>5, <1>6

\* What a poll that holds a copy knows of it.
LEMMA CopyFacts ==
    ASSUME WorkerInv, pc \notin {"sleeping", "loaded"}
    PROVE  /\ copy \in Ledger /\ copy # NoLedger
           /\ ledger \in Ledger /\ ledger # NoLedger
           /\ copy.days \in Seq(Day) /\ copy.days # << >>
           /\ Last(copy.days) \in Day
           /\ feed \in Feed /\ feed.day \in Day
           /\ process = "up"
<1>1. /\ copy \in Ledger /\ copy # NoLedger
      /\ ledger \in Ledger /\ ledger # NoLedger
      /\ copy.days # << >>
      /\ feed \in Feed
      /\ process = "up"
  BY DEF WorkerInv, WorkerTypeOK, CopyExtendsLedger
<1>2. copy.days \in Seq(Day)
  BY <1>1 DEF Ledger
<1>3. Last(copy.days) \in Day
  BY <1>1, <1>2 DEF Last
<1>4. feed.day \in Day
  BY <1>1 DEF Feed
<1> QED BY <1>1, <1>2, <1>3, <1>4

LEMMA AnnounceLedgerInv ==
    ASSUME WorkerInv, AnnounceLedger
    PROVE  WorkerInv'
<1>1. copy \in Ledger /\ Last(copy.days) \in Day /\ ledger \in Ledger /\ copy # NoLedger
  BY CopyFacts DEF AnnounceLedger, At
<1>2. /\ journal' \in Seq(Event) /\ copy' \in Ledger /\ copy'.days = copy.days
      /\ \A d : IsJournalled(d) => IsJournalled(d)'
  BY <1>1, AppendEventAdds DEF AnnounceLedger, WorkerInv, WorkerTypeOK
<1> QED BY <1>1, <1>2, GoOnInv DEF AnnounceLedger, At, AppendEvent

LEMMA ConfirmLedgerInv ==
    ASSUME WorkerInv, ConfirmLedger
    PROVE  WorkerInv'
<1>1. /\ copy \in Ledger /\ copy # NoLedger /\ copy.days = ledger.days
      /\ journal \in Seq(Event)
  BY CopyFacts DEF ConfirmLedger, At, WorkerInv, WorkerTypeOK, CopyExtendsLedger
<1>2. \A d : IsJournalled(d) => IsJournalled(d)'
  BY DEF ConfirmLedger, IsJournalled
<1> QED BY <1>1, <1>2, GoOnInv DEF ConfirmLedger, At

LEMMA RecordRevisionInv ==
    ASSUME WorkerInv, RecordRevision
    PROVE  WorkerInv'
<1> DEFINE base == [copy EXCEPT !.revision = Revision]
<1>1. /\ copy \in Ledger /\ Last(copy.days) \in Day /\ ledger \in Ledger /\ copy # NoLedger
      /\ feed \in Feed
  BY CopyFacts DEF RecordRevision, At
<1>2. Revision \in Day \X Nat
  BY <1>1, ForwardAssumption DEF Revision, Feed
<1>3. base \in Ledger /\ base.days = copy.days
  BY <1>1, <1>2 DEF Ledger
<1>4. AppendEvent(base, "revision", Last(copy.days))
  BY DEF RecordRevision
<1> HIDE DEF base
<1>5. /\ journal' \in Seq(Event) /\ copy' \in Ledger /\ copy'.days = copy.days
      /\ \A d : IsJournalled(d) => IsJournalled(d)'
  BY <1>1, <1>3, <1>4, AppendEventAdds DEF WorkerInv, WorkerTypeOK
<1> QED BY <1>1, <1>5, GoOnInv DEF RecordRevision, At, AppendEvent

LEMMA NothingRevisedInv ==
    ASSUME WorkerInv, NothingRevised
    PROVE  WorkerInv'
<1>1. copy \in Ledger /\ copy # NoLedger /\ ledger \in Ledger /\ journal \in Seq(Event)
  BY CopyFacts DEF NothingRevised, At, WorkerInv, WorkerTypeOK
<1>2. \A d : IsJournalled(d) => IsJournalled(d)'
  BY DEF NothingRevised, files, IsJournalled
<1> QED BY <1>1, <1>2, GoOnInv DEF NothingRevised, At, files

\* The polls that end early: a refused feed, a KeyError, other assets.
LEMMA EndsEarlyInv ==
    ASSUME WorkerInv, RefuseFeed \/ ExitOnKeyError \/ AssetsChanged
    PROVE  WorkerInv'
<1>1. GiveUp /\ UNCHANGED <<market, files, faults>> /\ process' \in {"up", "down", "exited"}
  BY DEF RefuseFeed, ExitOnKeyError, AssetsChanged, WorkerInv, WorkerTypeOK
<1> QED BY <1>1, GiveUpInv DEF files, WorkerInv, WorkerTypeOK, RevisionsAreFaults

-----------------------------------------------------------------------------
\* The days between the copy and the feed: the next ones, up to the feed.
LEMMA NewDaysAreNext ==
    ASSUME NEW last \in Day, NEW day \in Day,
           last = Last(copy.days), day = feed.day
    PROVE  /\ NewDays \in Seq(Day)
           /\ Len(NewDays) = IF day > last THEN day - last ELSE 0
           /\ \A i \in 1..Len(NewDays) : NewDays[i] = last + i
<1> DEFINE count == day - last
<1>1. NewDays = [i \in 1..count |-> last + i]
  BY DEF NewDays
<1>2. last \in Nat /\ day \in Nat /\ last <= MaxDay /\ day <= MaxDay /\ MaxDay \in Nat /\ last >= 1
  BY ForwardAssumption DEF Day
<1>3. CASE day > last
  <2>1. count \in Nat
    BY <1>2, <1>3
  <2>2. \A i \in 1..count : last + i \in Day
    BY <1>2, <1>3 DEF Day
  <2> HIDE DEF count
  <2>3. NewDays \in Seq(Day) /\ Len(NewDays) = count
    BY <1>1, <2>1, <2>2
  <2> QED BY <1>1, <1>3, <2>3 DEF count
<1>4. CASE ~(day > last)
  <2>1. 1..count = {}
    BY <1>2, <1>4
  <2>2. NewDays = << >>
    BY <1>1, <2>1
  <2> QED BY <1>4, <2>2
<1> QED BY <1>3, <1>4

\* Consecutive days followed by the next ones are consecutive days.
LEMMA DaysGoOn ==
    ASSUME NEW old \in Seq(Nat), old # << >>, NEW more \in Seq(Nat),
           \A i \in 1..(Len(old) - 1) : old[i + 1] = old[i] + 1,
           \A i \in 1..Len(more) : more[i] = Last(old) + i
    PROVE  /\ old \o more # << >>
           /\ \A i \in 1..(Len(old \o more) - 1) : (old \o more)[i + 1] = (old \o more)[i] + 1
           /\ Last(old \o more) = Last(old) + Len(more)
           /\ Begins(old, old \o more)
           /\ \A i \in 2..Len(old \o more) :
                 \/ i \in 2..Len(old) /\ (old \o more)[i] = old[i]
                 \/ \E k \in 1..Len(more) : (old \o more)[i] = more[k]
<1> DEFINE new == old \o more
           m == Len(old)
           n == Len(more)
<1>1. /\ new \in Seq(Nat) /\ Len(new) = m + n
      /\ m \in Nat /\ n \in Nat /\ m > 0
      /\ \A i \in 1..m : new[i] = old[i] /\ old[i] \in Nat
      /\ \A k \in 1..n : new[m + k] = more[k]
  OBVIOUS
<1>2. \A k \in 1..n : more[k] = old[m] + k
  BY DEF Last
<1>3. \A i \in (m + 1)..(m + n) : \E k \in 1..n : i = m + k
  <2> SUFFICES ASSUME NEW i \in (m + 1)..(m + n)
               PROVE  \E k \in 1..n : i = m + k
    OBVIOUS
  <2>1. i - m \in 1..n /\ i = m + (i - m)
    BY <1>1
  <2> QED BY <2>1
<1>4. \A i \in (m + 1)..(m + n) : \E k \in 1..n : i = m + k /\ new[i] = more[k]
  BY <1>1, <1>3
<1>5. \A i \in 1..(m + n) : new[i] = IF i <= m THEN old[i] ELSE old[m] + (i - m)
  <2> SUFFICES ASSUME NEW i \in 1..(m + n)
               PROVE  new[i] = IF i <= m THEN old[i] ELSE old[m] + (i - m)
    OBVIOUS
  <2>1. CASE i <= m
    BY <1>1, <2>1
  <2>2. CASE i > m
    <3>1. PICK k \in 1..n : i = m + k /\ new[i] = more[k]
      BY <1>1, <1>4, <2>2
    <3>2. more[k] = old[m] + k
      BY <1>2
    <3> QED BY <1>1, <2>2, <3>1, <3>2
  <2> QED BY <1>1, <2>1, <2>2
<1> HIDE DEF new, m, n
<1>6. \A i \in 1..(Len(new) - 1) : new[i + 1] = new[i] + 1
  <2> SUFFICES ASSUME NEW i \in 1..(Len(new) - 1)
               PROVE  new[i + 1] = new[i] + 1
    OBVIOUS
  <2>1. /\ i \in 1..(m + n) /\ i + 1 \in 1..(m + n)
        /\ new[i] = IF i <= m THEN old[i] ELSE old[m] + (i - m)
        /\ new[i + 1] = IF i + 1 <= m THEN old[i + 1] ELSE old[m] + ((i + 1) - m)
    BY <1>1, <1>5
  <2>2. i \in Nat /\ old[m] \in Nat
    BY <1>1, <2>1
  <2>3. CASE i < m
    BY <1>1, <2>1, <2>2, <2>3 DEF m
  <2>4. CASE i = m
    BY <1>1, <2>1, <2>2, <2>4
  <2>5. CASE i > m
    <3>1. ~(i <= m) /\ ~(i + 1 <= m)
      BY <1>1, <2>2, <2>5
    <3>2. new[i] = old[m] + (i - m) /\ new[i + 1] = old[m] + ((i + 1) - m)
      BY <2>1, <3>1
    <3>3. m \in Nat
      BY <1>1
    <3> QED BY <2>2, <3>2, <3>3
  <2> QED BY <1>1, <2>2, <2>3, <2>4, <2>5
<1>7. new[Len(new)] = old[m] + n
  BY <1>1, <1>5
<1>8. Begins(old, new)
  BY <1>1 DEF Begins, m
<1>9. \A i \in 2..Len(new) : \/ i \in 2..m /\ new[i] = old[i]
                             \/ \E k \in 1..n : new[i] = more[k]
  BY <1>1, <1>4
<1> QED BY <1>1, <1>6, <1>7, <1>8, <1>9 DEF Last, new, m, n

LEMMA AdvanceInv ==
    ASSUME WorkerInv, Advance
    PROVE  WorkerInv'
<1> DEFINE old == copy.days
           last == Last(copy.days)
           new == copy.days \o NewDays
<1>1. /\ copy \in Ledger /\ copy # NoLedger /\ ledger # NoLedger /\ ledger \in Ledger
      /\ old \in Seq(Day) /\ old # << >> /\ last \in Day
      /\ feed \in Feed /\ feed.day \in Day /\ feed.bars[feed.day] \in Nat
      /\ ledger.days = old /\ DayByDay(copy) /\ pc = "advancing" /\ process = "up"
  <2>1. feed \in Feed => feed.bars \in [Day -> Nat]
    BY ForwardAssumption DEF Feed
  <2> QED BY <2>1, CopyFacts DEF Advance, At, WorkerInv, CopyExtendsLedger
<1>2. /\ NewDays \in Seq(Day)
      /\ Len(NewDays) = IF feed.day > last THEN feed.day - last ELSE 0
      /\ \A i \in 1..Len(NewDays) : NewDays[i] = last + i
  BY <1>1, NewDaysAreNext
<1>3. old \in Seq(Nat) /\ NewDays \in Seq(Nat) /\ new \in Seq(Day)
  <2>1. Day \subseteq Nat
    BY DEF Day
  <2>2. \A s : s \in Seq(Day) => s \in Seq(Nat)
    BY <2>1, SeqMonotonic
  <2>3. new \in Seq(Day)
    BY <1>1, <1>2
  <2> QED BY <1>1, <1>2, <2>2, <2>3
<1>4. /\ new # << >>
      /\ \A i \in 1..(Len(new) - 1) : new[i + 1] = new[i] + 1
      /\ Last(new) = last + Len(NewDays)
      /\ Begins(old, new)
      /\ \A i \in 2..Len(new) : \/ i \in 2..Len(old) /\ new[i] = old[i]
                                \/ \E k \in 1..Len(NewDays) : new[i] = NewDays[k]
  <2>1. \A i \in 1..(Len(old) - 1) : old[i + 1] = old[i] + 1
    BY <1>1 DEF DayByDay
  <2> QED BY <1>1, <1>2, <1>3, <2>1, DaysGoOn
<1>5. copy' \in Ledger /\ copy'.days = new /\ copy' # NoLedger
  <2>1. CASE NewDays = << >>
    <3>1. new = old
      BY <1>1, <2>1
    <3> QED BY <1>1, <2>1, <3>1 DEF Advance
  <2>2. CASE NewDays # << >>
    <3>1. copy' = [copy EXCEPT !.days = new, !.bar = feed.bars[feed.day]]
      BY <2>2 DEF Advance
    <3>2. copy' \in Ledger /\ copy'.days = new
      BY <1>1, <1>3, <3>1 DEF Ledger
    <3> QED BY <3>2, ForwardAssumption
  <2> QED BY <2>1, <2>2
<1>6. /\ pending' = NewDays /\ pc' = "journalling" /\ feed' = feed
      /\ UNCHANGED <<market, files, process, faults>>
  BY DEF Advance
<1> HIDE DEF old, last, new
<1>7. last <= Last(new) /\ feed.day <= Last(new)
  BY <1>1, <1>2, <1>4, ForwardAssumption DEF Day
<1>8. WorkerTypeOK' /\ RevisionsAreFaults'
  BY <1>1, <1>2, <1>5, <1>6 DEF WorkerInv, WorkerTypeOK, RevisionsAreFaults, market, files
<1>9. LedgerIsWhole'
  BY <1>6 DEF WorkerInv, LedgerIsWhole, DayByDay, files
<1>10. CopyExtendsLedger'
  <2>1. DayByDay(copy')
    BY <1>4, <1>5 DEF DayByDay
  <2>2. ledger' # NoLedger /\ ledger'.days = old /\ feed'.day = feed.day /\ Last(ledger'.days) = last
    BY <1>1, <1>6 DEF files, old, last
  <2> QED BY <1>4, <1>5, <1>6, <1>7, <2>1, <2>2 DEF CopyExtendsLedger
<1>11. CopyIsJournalled'
  <2> SUFFICES ASSUME NEW i \in 2..Len(new), NEW day, day = new[i]
               PROVE  IsJournalled(day)' \/ IsPending(day)'
    BY <1>5, <1>6 DEF CopyIsJournalled
  <2>1. CASE i \in 2..Len(old) /\ new[i] = old[i]
    <3>1. IsJournalled(day)
      BY <1>1, <2>1 DEF WorkerInv, CopyIsJournalled, IsPending, old
    <3> QED BY <1>6, <3>1 DEF IsJournalled, files
  <2>2. CASE \E k \in 1..Len(NewDays) : new[i] = NewDays[k]
    BY <1>2, <1>6, <2>2 DEF IsPending
  <2> QED BY <1>4, <2>1, <2>2
<1>12. EveryDayIsJournalled' /\ PairsFollowTheLedger'
  BY <1>6 DEF WorkerInv, EveryDayIsJournalled, PairsFollowTheLedger, files
<1> QED BY <1>8, <1>9, <1>10, <1>11, <1>12 DEF WorkerInv

-----------------------------------------------------------------------------
\* The day at the head of the pending ones gets its line.
LEMMA JournalDayInv ==
    ASSUME WorkerInv, JournalDay
    PROVE  WorkerInv'
<1>1. /\ copy \in Ledger /\ ledger \in Ledger /\ ledger # NoLedger /\ feed \in Feed
      /\ pc = "journalling" /\ process = "up" /\ copy # NoLedger
  BY CopyFacts DEF JournalDay, At
<1>2. /\ pending \in Seq(Day) /\ pending # << >> /\ Head(pending) \in Day
      /\ pending' = Tail(pending) /\ pending' \in Seq(Day)
      /\ Head(pending) = pending[1]
      /\ \A k \in 2..Len(pending) : k - 1 \in 1..Len(pending') /\ pending'[k - 1] = pending[k]
  <2>1. pending \in Seq(Day) /\ pending # << >> /\ pending' = Tail(pending)
    BY DEF JournalDay, WorkerInv, WorkerTypeOK
  <2>2. /\ Head(pending) \in Day /\ pending' \in Seq(Day)
        /\ Len(pending') = Len(pending) - 1
        /\ Head(pending) = pending[1]
        /\ \A k \in 1..Len(pending') : pending'[k] = pending[k + 1]
        /\ Len(pending) \in Nat
    BY <2>1
  <2>3. \A k \in 2..Len(pending) : k - 1 \in 1..Len(pending') /\ pending'[k - 1] = pending[k]
    BY <2>2
  <2> QED BY <2>1, <2>2, <2>3
<1>3. /\ journal' \in Seq(Event) /\ copy' \in Ledger /\ copy'.days = copy.days
      /\ \A d : IsJournalled(d) => IsJournalled(d)'
  BY <1>1, <1>2, AppendEventAdds DEF JournalDay, WorkerInv, WorkerTypeOK
<1>4. \A d : d = pending[1] => IsJournalled(d)'
  <2> SUFFICES ASSUME NEW d, d = pending[1] PROVE IsJournalled(d)'
    OBVIOUS
  <2>1. d \in Day /\ AppendEvent(copy, "day", d)
    BY <1>2 DEF JournalDay
  <2> QED BY <1>1, <2>1, AppendEventAdds DEF WorkerInv, WorkerTypeOK
<1>5. copy' # NoLedger
  BY <1>3, ForwardAssumption
<1>6. WorkerTypeOK' /\ RevisionsAreFaults'
  BY <1>1, <1>2, <1>3, <1>5
  DEF JournalDay, AppendEvent, WorkerInv, WorkerTypeOK, RevisionsAreFaults, market
<1>7. LedgerIsWhole' /\ CopyExtendsLedger'
  BY <1>1, <1>3, <1>5
  DEF JournalDay, WorkerInv, LedgerIsWhole, CopyExtendsLedger, DayByDay, Begins
<1>8. CopyIsJournalled'
  <2> SUFFICES ASSUME NEW i \in 2..Len(copy.days), NEW day, day = copy.days[i]
               PROVE  IsJournalled(day)' \/ IsPending(day)'
    BY <1>1, <1>3 DEF CopyIsJournalled, JournalDay
  <2>1. CASE IsJournalled(day)
    BY <1>3, <2>1
  <2>2. CASE IsPending(day)
    <3>1. PICK k \in 1..Len(pending) : pending[k] = day
      BY <1>2, <2>2 DEF IsPending
    <3>2. CASE k = 1
      BY <1>4, <3>1, <3>2
    <3>3. CASE k # 1
      <4>1. k \in 2..Len(pending)
        BY <1>2, <3>3
      <4>2. k - 1 \in DOMAIN pending' /\ pending'[k - 1] = day
        BY <1>2, <3>1, <4>1
      <4> QED BY <4>2 DEF IsPending
    <3> QED BY <3>2, <3>3
  <2> QED BY <1>1, <2>1, <2>2 DEF WorkerInv, CopyIsJournalled
<1>9. EveryDayIsJournalled'
  <2>1. /\ ledger' = ledger
        /\ \A i \in 2..Len(ledger.days) : IsJournalled(ledger.days[i])
    BY <1>1 DEF JournalDay, WorkerInv, EveryDayIsJournalled, IsJournalled
  <2>2. \A i \in 2..Len(ledger.days) : \A d : d = ledger.days[i] => IsJournalled(d)'
    BY <1>3, <2>1
  <2> QED BY <2>1, <2>2 DEF EveryDayIsJournalled, IsJournalled
<1>10. PairsFollowTheLedger'
  BY DEF JournalDay, AppendEvent, WorkerInv, PairsFollowTheLedger
<1> QED BY <1>6, <1>7, <1>8, <1>9, <1>10 DEF WorkerInv

\* The save: every day of the copy has its line by now.
LEMMA SaveLedgerInv ==
    ASSUME WorkerInv, SaveLedger
    PROVE  WorkerInv'
<1>1. /\ copy \in Ledger /\ copy # NoLedger /\ ledger \in Ledger /\ ledger # NoLedger
      /\ copy.days \in Seq(Day) /\ copy.days # << >> /\ Last(copy.days) \in Day
      /\ feed \in Feed /\ process = "up" /\ pc = "journalling" /\ pending = << >>
      /\ DayByDay(copy) /\ feed.day <= Last(copy.days)
      /\ Last(ledger.days) <= Last(copy.days)
  BY CopyFacts DEF SaveLedger, At, WorkerInv, CopyExtendsLedger
<1>2. /\ ledger' = copy
      /\ UNCHANGED <<market, journal, torn, pairs, snapshot, process, faults>>
      /\ \/ pc' = "observing" /\ feed' = feed /\ copy' = copy /\ pending' = pending
         \/ GiveUp
  BY DEF SaveLedger, GoOn
<1>3. WorkerTypeOK' /\ RevisionsAreFaults'
  BY <1>1, <1>2 DEF GiveUp, WorkerInv, WorkerTypeOK, RevisionsAreFaults, market
<1>4. LedgerIsWhole'
  BY <1>1, <1>2 DEF LedgerIsWhole, DayByDay
<1>5. CopyExtendsLedger'
  <2>1. CASE GiveUp
    BY <2>1 DEF GiveUp, CopyExtendsLedger
  <2>2. CASE pc' = "observing" /\ feed' = feed /\ copy' = copy
    <3>1. Begins(copy.days, copy.days) /\ Last(copy.days) <= Last(copy.days)
      BY <1>1, ForwardAssumption DEF Begins, Day
    <3> QED BY <1>1, <1>2, <2>2, <3>1 DEF CopyExtendsLedger, DayByDay
  <2> QED BY <1>2, <2>1, <2>2
<1>6. \A i \in 2..Len(copy.days) : IsJournalled(copy.days[i])
  BY <1>1 DEF WorkerInv, CopyIsJournalled, IsPending
<1>7. CopyIsJournalled' /\ EveryDayIsJournalled'
  BY <1>1, <1>2, <1>6 DEF CopyIsJournalled, EveryDayIsJournalled, IsJournalled, GiveUp
<1>8. PairsFollowTheLedger'
  <2>1. /\ snapshot \in Nat /\ Last(ledger.days) \in Nat /\ Last(copy.days) \in Nat
        /\ \A i \in DOMAIN pairs : pairs[i] \in Nat
    <3>1. ledger.days \in Seq(Day) /\ ledger.days # << >>
      BY <1>1 DEF WorkerInv, LedgerIsWhole, Ledger
    <3>2. Last(ledger.days) \in Day
      BY <3>1 DEF Last
    <3> QED BY <1>1, <3>2, ForwardAssumption DEF WorkerInv, WorkerTypeOK, Day
  <2>2. /\ snapshot <= Last(ledger.days)
        /\ \A i \in DOMAIN pairs : pairs[i] <= Last(ledger.days)
        /\ \A i, j \in DOMAIN pairs : i < j => pairs[i] < pairs[j]
    BY <1>1 DEF WorkerInv, PairsFollowTheLedger
  <2> QED BY <1>1, <1>2, <2>1, <2>2 DEF PairsFollowTheLedger
<1> QED BY <1>3, <1>4, <1>5, <1>7, <1>8 DEF WorkerInv

\* A pair is taken of a later day than the last one, and of none the ledger
\* does not hold yet.
LEMMA ObserveInv ==
    ASSUME WorkerInv, Observe
    PROVE  WorkerInv'
<1>1. /\ copy \in Ledger /\ copy # NoLedger /\ ledger # NoLedger /\ copy.days = ledger.days
      /\ feed \in Feed /\ feed.day \in Day /\ feed.day <= Last(copy.days) /\ process = "up"
      /\ pc = "observing" /\ pairs \in Seq(Day) /\ Last(copy.days) \in Day
      /\ faults \in 0..MaxFaults
  BY CopyFacts
  DEF Observe, At, WorkerInv, CopyExtendsLedger, WorkerTypeOK, RevisionsAreFaults
<1>2. /\ pc' = "publishing"
      /\ UNCHANGED <<market, ledger, journal, torn, snapshot, process, copy, feed, pending>>
      /\ \/ pairs' = pairs
         \/ TakesPair(feed.day) /\ pairs' = Append(pairs, feed.day)
      /\ faults' \in 0..MaxFaults /\ faults' >= faults
  BY <1>1, ForwardAssumption DEF Observe, GoOn
<1>3. pairs' \in Seq(Day)
  BY <1>1, <1>2
<1>4. WorkerTypeOK' /\ RevisionsAreFaults'
  BY <1>1, <1>2, <1>3, ForwardAssumption DEF WorkerInv, WorkerTypeOK, RevisionsAreFaults, market
<1>5. LedgerIsWhole' /\ CopyExtendsLedger'
  BY <1>1, <1>2 DEF WorkerInv, LedgerIsWhole, CopyExtendsLedger, DayByDay, Begins
<1>6. CopyIsJournalled' /\ EveryDayIsJournalled'
  BY <1>1, <1>2
  DEF WorkerInv, CopyIsJournalled, EveryDayIsJournalled, IsJournalled, IsPending
<1>7. PairsFollowTheLedger'
  <2>1. CASE pairs' = pairs
    BY <1>2, <2>1 DEF WorkerInv, PairsFollowTheLedger
  <2>2. CASE TakesPair(feed.day) /\ pairs' = Append(pairs, feed.day)
    <3> DEFINE n == Len(pairs)
               day == feed.day
    <3>1. /\ n \in Nat /\ DOMAIN pairs = 1..n /\ DOMAIN pairs' = 1..(n + 1)
          /\ \A i \in 1..n : pairs'[i] = pairs[i] /\ pairs[i] \in Nat
          /\ pairs'[n + 1] = day /\ day \in Nat
      <4>1. /\ n \in Nat /\ DOMAIN pairs = 1..n
            /\ \A i \in 1..n : pairs[i] \in Day
        BY <1>1
      <4>2. /\ DOMAIN pairs' = 1..(n + 1) /\ pairs'[n + 1] = day
            /\ \A i \in 1..n : pairs'[i] = pairs[i]
        BY <1>1, <2>2
      <4>3. Day \subseteq Nat
        BY DEF Day
      <4> QED BY <1>1, <4>1, <4>2, <4>3
    <3>2. \A i \in 1..n : pairs[i] < day
      <4> SUFFICES ASSUME NEW i \in 1..n PROVE pairs[i] < day
        OBVIOUS
      <4>1. pairs[n] < day
        BY <1>1, <2>2, <3>1 DEF TakesPair, Last
      <4>2. pairs[i] = pairs[n] \/ pairs[i] < pairs[n]
        BY <3>1 DEF WorkerInv, PairsFollowTheLedger
      <4> QED BY <3>1, <4>1, <4>2
    <3> HIDE DEF n, day
    <3>3. \A i, j \in DOMAIN pairs' : i < j => pairs'[i] < pairs'[j]
      <4> SUFFICES ASSUME NEW i \in 1..(n + 1), NEW j \in 1..(n + 1), i < j
                   PROVE  pairs'[i] < pairs'[j]
        BY <3>1
      <4>1. i \in 1..n
        BY <3>1
      <4>2. CASE j = n + 1
        BY <3>1, <3>2, <4>1, <4>2
      <4>3. CASE j # n + 1
        BY <3>1, <4>1, <4>3 DEF WorkerInv, PairsFollowTheLedger
      <4> QED BY <4>2, <4>3
    <3>4. \A i \in DOMAIN pairs' : pairs'[i] <= Last(ledger.days)
      <4>1. day <= Last(ledger.days)
        BY <1>1 DEF day
      <4> QED BY <1>1, <3>1, <4>1 DEF WorkerInv, PairsFollowTheLedger
    <3>5. snapshot <= Last(ledger.days)
      BY <1>1 DEF WorkerInv, PairsFollowTheLedger
    <3> QED BY <1>1, <1>2, <3>3, <3>4, <3>5 DEF PairsFollowTheLedger
  <2> QED BY <1>2, <2>1, <2>2
<1> QED BY <1>4, <1>5, <1>6, <1>7 DEF WorkerInv

LEMMA PublishInv ==
    ASSUME WorkerInv, Publish
    PROVE  WorkerInv'
<1>1. /\ ledger # NoLedger /\ feed.day \in Day /\ feed.day <= Last(ledger.days)
  BY CopyFacts DEF Publish, At, WorkerInv, CopyExtendsLedger
<1>2. /\ GiveUp /\ snapshot' = feed.day
      /\ UNCHANGED <<market, ledger, journal, torn, pairs, process, faults>>
  BY DEF Publish
<1>3. WorkerTypeOK' /\ RevisionsAreFaults'
  BY <1>1, <1>2 DEF GiveUp, WorkerInv, WorkerTypeOK, RevisionsAreFaults, market
<1>4. LedgerIsWhole' /\ CopyExtendsLedger'
  BY <1>2 DEF GiveUp, WorkerInv, LedgerIsWhole, CopyExtendsLedger, DayByDay
<1>5. CopyIsJournalled' /\ EveryDayIsJournalled'
  BY <1>2 DEF GiveUp, WorkerInv, CopyIsJournalled, EveryDayIsJournalled, IsJournalled
<1>6. PairsFollowTheLedger'
  BY <1>1, <1>2 DEF WorkerInv, PairsFollowTheLedger
<1> QED BY <1>3, <1>4, <1>5, <1>6 DEF WorkerInv

-----------------------------------------------------------------------------
LEMMA WorkerStepInv ==
    ASSUME WorkerInv, WorkerStep
    PROVE  WorkerInv'
  BY PollInv, EndsEarlyInv, BootstrapInv, LoadLedgerInv, AnnounceLedgerInv, ConfirmLedgerInv,
     RecordRevisionInv, NothingRevisedInv, AdvanceInv, JournalDayInv, SaveLedgerInv,
     ObserveInv, PublishInv
  DEF WorkerStep

\* A death drops what the poll held and may leave half a line behind.
LEMMA DieInv ==
    ASSUME WorkerInv, Die
    PROVE  WorkerInv'
<1>1. BeingWritten \subseteq {"journal", "pairs"}
  BY DEF BeingWritten
<1>2. /\ GiveUp /\ process' = "down"
      /\ UNCHANGED <<market, ledger, journal, pairs, snapshot>>
      /\ torn' \subseteq {"journal", "pairs"}
      /\ faults' \in 0..MaxFaults /\ faults' >= faults
  <2>1. /\ torn \subseteq {"journal", "pairs"} /\ faults \in Nat /\ MaxFaults \in Nat
        /\ faults <= MaxFaults
    BY ForwardAssumption DEF WorkerInv, WorkerTypeOK, RevisionsAreFaults
  <2>2. /\ GiveUp /\ process' = "down"
        /\ UNCHANGED <<market, ledger, journal, pairs, snapshot>>
        /\ \/ torn' = torn /\ faults' = faults
           \/ faults < MaxFaults /\ torn' = torn \cup BeingWritten /\ faults' = faults + 1
    BY DEF Die
  <2>3. torn' \subseteq {"journal", "pairs"}
    BY <1>1, <2>1, <2>2
  <2>4. faults' \in 0..MaxFaults /\ faults' >= faults
    BY <2>1, <2>2
  <2> QED BY <2>2, <2>3, <2>4
<1> QED BY <1>2, GiveUpInv

\* What happens outside the poll: a start, a bar that closes or is revised.
LEMMA OutsideInv ==
    ASSUME WorkerInv, Start \/ CloseDay \/ ReviseBar \/ UNCHANGED workerVars
    PROVE  WorkerInv'
<1>1. UNCHANGED <<files, memory>>
  BY DEF Start, CloseDay, ReviseBar, workerVars
<1>2. /\ closed' \in Day /\ bars' \in [Day -> Nat]
      /\ faults' \in 0..MaxFaults /\ \A d \in Day : bars'[d] <= faults'
      /\ process' \in {"up", "down", "exited"} /\ (process' # "up" => pc = "sleeping")
  <2>1. CASE Start \/ UNCHANGED workerVars
    BY <2>1, ForwardAssumption
    DEF Start, workerVars, market, WorkerInv, WorkerTypeOK, RevisionsAreFaults
  <2>2. CASE CloseDay
    BY <2>2, ForwardAssumption DEF CloseDay, Day, WorkerInv, WorkerTypeOK, RevisionsAreFaults
  <2>3. CASE ReviseBar
    <3>1. PICK day \in 1..closed : bars' = [bars EXCEPT ![day] = @ + 1]
      BY <2>3 DEF ReviseBar
    <3>2. /\ faults' = faults + 1 /\ faults < MaxFaults /\ faults \in Nat /\ MaxFaults \in Nat
          /\ bars \in [Day -> Nat] /\ \A d \in Day : bars[d] <= faults
          /\ closed' = closed /\ closed \in Day
          /\ process' = process /\ pc' = pc
      BY <2>3, ForwardAssumption
      DEF ReviseBar, memory, WorkerInv, WorkerTypeOK, RevisionsAreFaults
    <3>3. \A d \in Day : bars'[d] = (IF d = day THEN bars[d] + 1 ELSE bars[d]) /\ bars[d] \in Nat
      BY <3>1, <3>2
    <3>4. bars' \in [Day -> Nat]
      <4>1. day \in Day
        BY <3>1, <3>2, ForwardAssumption DEF Day
      <4>2. bars[day] + 1 \in Nat
        BY <3>2, <4>1
      <4> QED BY <3>1, <3>2, <4>1, <4>2
    <3>5. \A d \in Day : bars'[d] <= faults'
      BY <3>2, <3>3
    <3>6. process' \in {"up", "down", "exited"} /\ (process' # "up" => pc = "sleeping")
      BY <3>2 DEF WorkerInv, WorkerTypeOK
    <3> QED BY <3>2, <3>4, <3>5, <3>6
  <2> QED BY <2>1, <2>2, <2>3
<1>3. bars' \in [Day -> 0..MaxFaults]
  BY <1>2, ForwardAssumption
<1>4. WorkerTypeOK' /\ RevisionsAreFaults'
  BY <1>1, <1>2, <1>3 DEF files, memory, WorkerInv, WorkerTypeOK, RevisionsAreFaults
<1>5. LedgerIsWhole' /\ CopyExtendsLedger'
  BY <1>1 DEF files, memory, WorkerInv, LedgerIsWhole, CopyExtendsLedger, DayByDay
<1>6. CopyIsJournalled' /\ EveryDayIsJournalled'
  BY <1>1
  DEF files, memory, WorkerInv, CopyIsJournalled, EveryDayIsJournalled, IsJournalled, IsPending
<1>7. PairsFollowTheLedger'
  BY <1>1 DEF files, WorkerInv, PairsFollowTheLedger
<1> QED BY <1>4, <1>5, <1>6, <1>7 DEF WorkerInv

LEMMA WorkerInitInv ==
    ASSUME WorkerInit, process = "down"
    PROVE  WorkerInv
<1>1. bars \in [Day -> 0..MaxFaults] /\ \A d \in Day : bars[d] = 0
  BY ForwardAssumption DEF WorkerInit
<1>2. WorkerTypeOK /\ RevisionsAreFaults
  BY <1>1, ForwardAssumption DEF WorkerInit, Asleep, WorkerTypeOK, RevisionsAreFaults, Day
<1>3. LedgerIsWhole /\ CopyExtendsLedger /\ CopyIsJournalled /\ EveryDayIsJournalled
  BY DEF WorkerInit, Asleep, LedgerIsWhole, CopyExtendsLedger, CopyIsJournalled,
         EveryDayIsJournalled
<1>4. PairsFollowTheLedger
  BY DEF WorkerInit, PairsFollowTheLedger
<1> QED BY <1>2, <1>3, <1>4 DEF WorkerInv

-----------------------------------------------------------------------------
LEMMA BeginsIsPrefix ==
    ASSUME NEW S, NEW s \in Seq(S), NEW t \in Seq(S), Begins(s, t)
    PROVE  IsPrefix(s, t)
<1>1. Len(s) \in Nat /\ Len(t) \in Nat /\ Len(s) <= Len(t)
  BY DEF Begins
<1>2. /\ SubSeq(s, 1, Len(s)) = s
      /\ SubSeq(t, 1, Len(s)) \in Seq(S) /\ Len(SubSeq(t, 1, Len(s))) = Len(s)
      /\ \A i \in 1..Len(s) : SubSeq(t, 1, Len(s))[i] = t[i]
  BY <1>1
<1>3. SubSeq(t, 1, Len(s)) = s
  BY <1>2, SeqEqual DEF Begins
<1> QED BY <1>1, <1>2, <1>3 DEF IsPrefix

\* The steps that write the ledger file: the copy goes on where the file ends.
LEMMA SavedLedgerGrows ==
    ASSUME WorkerInv,
           WorkerStep \/ CloseDay \/ ReviseBar \/ Die \/ Start \/ UNCHANGED workerVars,
           ledger' # ledger, ledger # NoLedger
    PROVE  IsPrefix(ledger.days, ledger'.days) /\ DayByDay(ledger')
<1>1. WorkerStep
  BY DEF CloseDay, ReviseBar, Die, Start, files, workerVars
<1>2. ConfirmLedger \/ SaveLedger
  BY <1>1
  DEF WorkerStep, Poll, RefuseFeed, Bootstrap, LoadLedger, AnnounceLedger, ExitOnKeyError,
      RecordRevision, NothingRevised, AssetsChanged, Advance, JournalDay, Observe, Publish, files
<1>3. ledger' = copy /\ pc \notin {"sleeping", "loaded"}
  BY <1>2 DEF ConfirmLedger, SaveLedger, At
<1>4. /\ copy.days \in Seq(Day) /\ ledger.days \in Seq(Day)
      /\ Begins(ledger.days, copy.days) /\ DayByDay(copy)
  BY <1>3, CopyFacts DEF WorkerInv, CopyExtendsLedger, Ledger
<1> QED BY <1>3, <1>4, BeginsIsPrefix DEF DayByDay

=============================================================================
