---------------------------- MODULE PublicProofs ----------------------------
(***************************************************************************)
(* Proofs about PublicPages, for any number of sites, slugs, monitors and  *)
(* requests, any capacity and times.  The bound on the age of a page is    *)
(* carried through its life: while it is read it is out of date for at most*)
(* the ticks its handler has spent, and when it is stored those are at     *)
(* most LoadMax.                                                           *)
(***************************************************************************)
EXTENDS PublicPages, CommonLemmas, TLAPS

\* What was read of a site has been out of date for at most `bound' ticks.
Fits(view, bound) ==
    /\ view \in View
    /\ view.off <= bound
    /\ \A m \in Monitors : view.old[m] <= bound
    /\ \A m \in Monitors : view.shown[m] # None => m \in Of(view.site)

MonitorsFit == monitor \in [Monitors -> [active : BOOLEAN, last : Results \cup {None}]]

LoadsFit ==
    /\ load \in [Requests -> [slug : Slugs, view : View \cup {None}, spent : Nat] \cup {None}]
    /\ \A q \in Requests : load[q] # None =>
          /\ load[q].spent <= LoadMax
          /\ load[q].view # None => Fits(load[q].view, load[q].spent)

\* A page that is stored has been read to the end.
CacheFits ==
    /\ cache \in [Slugs -> [view : View, age : Nat] \cup {None}]
    /\ \A slug \in Slugs : cache[slug] # None =>
          /\ Fits(cache[slug].view, LoadMax + cache[slug].age)
          /\ \A m \in Of(cache[slug].view.site) : cache[slug].view.shown[m] # None

PInv == MonitorsFit /\ LoadsFit /\ CacheFits

-----------------------------------------------------------------------------

LEMMA StatusFits ==
  ASSUME MonitorsFit, NEW m \in Monitors
  PROVE  monitor_status(m) \in Statuses
BY PagesAssumption DEF MonitorsFit, monitor_status, Statuses

LEMMA SeenFits ==
  ASSUME NEW s \in Sites, NEW bound \in Nat
  PROVE  Fits(Seen(s), bound)
<1>1. Seen(s) \in View
  BY DEF Seen, View
<1> QED BY <1>1 DEF Fits, Seen

LEMMA AgedFits ==
  ASSUME NEW slug, NEW view, NEW bound \in Nat, Fits(view, bound)
  PROVE  /\ Fits(Aged(slug, view), bound + 1)
         /\ Aged(slug, view).site = view.site /\ Aged(slug, view).shown = view.shown
<1> DEFINE off == IF page[view.site] = [slug |-> slug, enabled |-> TRUE] THEN 0 ELSE view.off + 1
           old == [m \in Monitors |->
                      IF view.shown[m] \in {None, monitor_status(m)} THEN 0 ELSE view.old[m] + 1]
<1>1. view \in View /\ view.off \in Nat /\ view.off <= bound
      /\ \A m \in Monitors : view.old[m] \in Nat /\ view.old[m] <= bound
  BY DEF Fits, View
<1>2. off \in Nat /\ off <= bound + 1
  BY <1>1
<1>3. old \in [Monitors -> Nat] /\ \A m \in Monitors : old[m] <= bound + 1
  BY <1>1
<1>4. Aged(slug, view) = [view EXCEPT !.off = off, !.old = old]
  BY <1>1 DEF Aged, View
<1> HIDE DEF off, old
<1>5. /\ Aged(slug, view) \in View
      /\ Aged(slug, view).site = view.site /\ Aged(slug, view).shown = view.shown
      /\ Aged(slug, view).off = off /\ Aged(slug, view).old = old
  BY <1>1, <1>2, <1>3, <1>4 DEF View
<1> QED BY <1>2, <1>3, <1>5 DEF Fits

\* The handler of q goes on to l; the monitors and the cache stay.
LEMMA LoadStep ==
  ASSUME PInv, NEW q \in Requests,
         NEW l \in [slug : Slugs, view : View \cup {None}, spent : Nat] \cup {None},
         l # None => l.spent <= LoadMax /\ (l.view # None => Fits(l.view, l.spent)),
         load' = [load EXCEPT ![q] = l], UNCHANGED <<monitor, cache>>
  PROVE  PInv'
<1>1. MonitorsFit' /\ CacheFits'
  BY DEF PInv, MonitorsFit, CacheFits, Fits, Of
<1>2. load' \in [Requests -> [slug : Slugs, view : View \cup {None}, spent : Nat] \cup {None}]
  BY DEF PInv, LoadsFit
<1>3. \A p \in Requests : load'[p] = IF p = q THEN l ELSE load[p]
  BY DEF PInv, LoadsFit
<1>4. \A p \in Requests : load'[p] # None =>
          /\ load'[p].spent <= LoadMax
          /\ load'[p].view # None => Fits(load'[p].view, load'[p].spent)
  BY <1>3 DEF PInv, LoadsFit
<1> QED BY <1>1, <1>2, <1>4 DEF PInv, LoadsFit, Fits, Of

LEMMA GetKeeps ==
  ASSUME PInv, NEW q \in Requests, NEW c \in Clients, NEW slug \in Slugs,
         get_public_status_page(q, c, slug)
  PROVE  PInv'
<1>1. UNCHANGED <<monitor, cache>>
  BY DEF get_public_status_page, get
<1>2. CASE load' = load
  <2>1. load' = [load EXCEPT ![q] = load[q]] /\ load[q] = None
    BY <1>2 DEF PInv, LoadsFit, get_public_status_page
  <2> QED BY <1>1, <2>1, LoadStep
<1>3. CASE load' # load
  <2> DEFINE l == [slug |-> slug, view |-> None, spent |-> 0]
  <2>1. load' = [load EXCEPT ![q] = l]
    BY <1>3 DEF get_public_status_page
  <2>2. l \in [slug : Slugs, view : View \cup {None}, spent : Nat] /\ l.spent = 0 /\ l.view = None
    OBVIOUS
  <2>3. 0 <= LoadMax
    BY PagesAssumption
  <2> HIDE DEF l
  <2> QED BY <1>1, <2>1, <2>2, <2>3, LoadStep
<1> QED BY <1>2, <1>3

\* The handler ends.
LEMMA LoadEnds ==
  ASSUME PInv, NEW q \in Requests, load' = [load EXCEPT ![q] = None], UNCHANGED <<monitor, cache>>
  PROVE  PInv'
BY LoadStep

LEMMA LoadTyped ==
  ASSUME PInv, NEW q \in Requests, load[q] # None
  PROVE  /\ load[q] \in [slug : Slugs, view : View \cup {None}, spent : Nat]
         /\ load[q].slug \in Slugs /\ load[q].spent \in Nat /\ load[q].spent <= LoadMax
         /\ load[q].view # None => Fits(load[q].view, load[q].spent)
BY DEF PInv, LoadsFit

LEMMA ReadPageKeeps ==
  ASSUME PInv, NEW q \in Requests, ReadPage(q)
  PROVE  PInv'
<1>1. UNCHANGED <<monitor, cache>> /\ load[q] # None
  BY DEF ReadPage, Reading
<1>2. CASE load' = [load EXCEPT ![q] = None]
  BY <1>1, <1>2, LoadEnds
<1>3. ASSUME NEW s \in Sites, load' = [load EXCEPT ![q].view = Seen(s)]
      PROVE  PInv'
  <2> DEFINE l == [load[q] EXCEPT !.view = Seen(s)]
  <2>1. load' = [load EXCEPT ![q] = l]
    BY <1>3 DEF PInv, LoadsFit
  <2>2. Fits(Seen(s), load[q].spent)
    BY <1>1, LoadTyped, SeenFits
  <2>3. /\ l \in [slug : Slugs, view : View \cup {None}, spent : Nat]
        /\ l.spent = load[q].spent /\ l.view = Seen(s)
    BY <1>1, <2>2, LoadTyped DEF Fits
  <2>4. l.spent <= LoadMax
    BY <1>1, <2>3, LoadTyped
  <2> HIDE DEF l
  <2> QED BY <1>1, <2>1, <2>2, <2>3, <2>4, LoadStep
<1> QED BY <1>2, <1>3 DEF ReadPage

LEMMA ReadMonitorsKeeps ==
  ASSUME PInv, NEW q \in Requests, NEW kind \in Kinds, ReadMonitors(q, kind)
  PROVE  PInv'
<1>1. UNCHANGED <<monitor, cache>> /\ load[q] # None /\ load[q].view # None
  BY DEF ReadMonitors, Reading
<1> DEFINE read  == {m \in Unread(q) : KindOf[m] = kind}
           shown == [m \in Monitors |->
                        IF m \in read THEN monitor_status(m) ELSE load[q].view.shown[m]]
           view  == [load[q].view EXCEPT !.shown = shown]
           l     == [load[q] EXCEPT !.view = view]
<1>2. load' = [load EXCEPT ![q] = l]
  BY DEF ReadMonitors, PInv, LoadsFit
<1>3. Fits(load[q].view, load[q].spent) /\ load[q].view \in View
  BY <1>1, LoadTyped DEF Fits
<1>4. read \subseteq Of(load[q].view.site)
  BY DEF Unread
<1>5. shown \in [Monitors -> Statuses \cup {None}]
  BY <1>3, StatusFits DEF PInv, View
<1> HIDE DEF read
<1>6. \A m \in Monitors : shown[m] # None => m \in Of(load[q].view.site)
  BY <1>3, <1>4 DEF Fits
<1> HIDE DEF shown
<1>7. /\ view \in View /\ view.site = load[q].view.site /\ view.shown = shown
      /\ view.off = load[q].view.off /\ view.old = load[q].view.old
  BY <1>3, <1>5 DEF View
<1> HIDE DEF view
<1>8. Fits(view, load[q].spent)
  BY <1>3, <1>6, <1>7 DEF Fits
<1>9. /\ l \in [slug : Slugs, view : View \cup {None}, spent : Nat]
      /\ l.spent = load[q].spent /\ l.view = view /\ l.spent <= LoadMax
  BY <1>1, <1>7, LoadTyped
<1> HIDE DEF l
<1> QED BY <1>1, <1>2, <1>8, <1>9, LoadStep

LEMMA PublishKeeps ==
  ASSUME PInv, NEW q \in Requests, Publish(q)
  PROVE  PInv'
<1> DEFINE view == load[q].view
           slug == load[q].slug
<1>1. /\ load[q] # None /\ view # None /\ Unread(q) = {}
      /\ load' = [load EXCEPT ![q] = None] /\ monitor' = monitor
  BY DEF Publish, Reading
<1>2. Fits(view, load[q].spent) /\ load[q].spent \in Nat /\ load[q].spent <= LoadMax
  BY <1>1, LoadTyped
<1>3. Fits(view, LoadMax + 0)
  <2>1. \A n \in Nat : n <= load[q].spent => n <= LoadMax + 0
    BY <1>2, PagesAssumption
  <2> QED BY <1>2, <2>1 DEF Fits, View
<1>4. \A m \in Of(view.site) : view.shown[m] # None
  BY <1>1 DEF Unread
<1>5. MonitorsFit' /\ LoadsFit'
  <2>1. \A p \in Requests : load'[p] = IF p = q THEN None ELSE load[p]
    BY <1>1 DEF PInv, LoadsFit
  <2>2. load' \in [Requests -> [slug : Slugs, view : View \cup {None}, spent : Nat] \cup {None}]
    BY <1>1 DEF PInv, LoadsFit
  <2>3. \A p \in Requests : load'[p] # None =>
          /\ load'[p].spent <= LoadMax
          /\ load'[p].view # None => Fits(load'[p].view, load'[p].spent)
    BY <2>1 DEF PInv, LoadsFit
  <2> QED BY <1>1, <2>2, <2>3 DEF PInv, MonitorsFit, LoadsFit, Fits, Of
<1>6. \A n \in Slugs : \/ cache'[n] = [view |-> view, age |-> 0]
                       \/ cache'[n] = None
                       \/ cache'[n] = cache[n]
  BY DEF Publish, set
<1>7. cache' \in [Slugs -> [view : View, age : Nat] \cup {None}]
  <2>1. view \in View
    BY <1>3 DEF Fits
  <2>2. \A n \in Slugs : cache'[n] \in [view : View, age : Nat] \cup {None}
    BY <1>6, <2>1 DEF PInv, CacheFits
  <2>3. cache' = [n \in Slugs |-> cache'[n]]
    BY DEF Publish, set
  <2> QED BY <2>2, <2>3
<1>8. \A n \in Slugs : cache'[n] # None =>
          /\ Fits(cache'[n].view, LoadMax + cache'[n].age)
          /\ \A m \in Of(cache'[n].view.site) : cache'[n].view.shown[m] # None
  <2> HIDE DEF view
  <2> QED BY <1>3, <1>4, <1>6 DEF PInv, CacheFits
<1>9. CacheFits'
  BY <1>7, <1>8 DEF CacheFits, Fits, Of
<1> QED BY <1>5, <1>9 DEF PInv

-----------------------------------------------------------------------------
(* What goes on meanwhile.                                                 *)

LEMMA TickKeeps ==
  ASSUME PInv, Tick
  PROVE  PInv'
<1>1. MonitorsFit'
  BY DEF Tick, PInv, MonitorsFit
<1>2. ASSUME NEW q \in Requests, load[q] # None
      PROVE  /\ load'[q] \in [slug : Slugs, view : View \cup {None}, spent : Nat]
             /\ load'[q].spent <= LoadMax
             /\ load'[q].view # None => Fits(load'[q].view, load'[q].spent)
  <2> DEFINE view == IF load[q].view = None THEN None ELSE Aged(load[q].slug, load[q].view)
  <2>1. load'[q] = [load[q] EXCEPT !.spent = @ + 1, !.view = view] /\ load[q].spent < LoadMax
    BY <1>2 DEF Tick
  <2>2. load[q].spent + 1 \in Nat /\ load[q].spent + 1 <= LoadMax
    BY <1>2, <2>1, LoadTyped, PagesAssumption
  <2>3. view # None => Fits(view, load[q].spent + 1) /\ view \in View
    <3>1. CASE load[q].view # None
      <4>1. Fits(Aged(load[q].slug, load[q].view), load[q].spent + 1)
        BY <1>2, <3>1, LoadTyped, AgedFits
      <4> QED BY <3>1, <4>1 DEF Fits
    <3>2. CASE load[q].view = None
      BY <3>2
    <3> QED BY <3>1, <3>2
  <2> HIDE DEF view
  <2>4. /\ load'[q] \in [slug : Slugs, view : View \cup {None}, spent : Nat]
        /\ load'[q].spent = load[q].spent + 1 /\ load'[q].view = view
    BY <1>2, <2>1, <2>2, <2>3, LoadTyped
  <2> QED BY <2>2, <2>3, <2>4
<1>3. \A q \in Requests : load[q] = None => load'[q] = None
  BY DEF Tick
<1>4. LoadsFit'
  <2>1. load' = [q \in Requests |-> load'[q]]
    BY DEF Tick
  <2>2. load' \in [Requests -> [slug : Slugs, view : View \cup {None}, spent : Nat] \cup {None}]
    BY <1>2, <1>3, <2>1
  <2>3. \A q \in Requests : load'[q] # None =>
          /\ load'[q].spent <= LoadMax
          /\ load'[q].view # None => Fits(load'[q].view, load'[q].spent)
    BY <1>2, <1>3
  <2> QED BY <2>2, <2>3 DEF LoadsFit, Fits, Of
<1>5. ASSUME NEW slug \in Slugs, Live(slug)
      PROVE  /\ cache'[slug] \in [view : View, age : Nat]
             /\ Fits(cache'[slug].view, LoadMax + cache'[slug].age)
             /\ \A m \in Of(cache'[slug].view.site) : cache'[slug].view.shown[m] # None
  <2> DEFINE view == Aged(slug, cache[slug].view)
             age  == cache[slug].age
  <2>1. cache'[slug] = [view |-> view, age |-> age + 1]
    BY <1>5 DEF Tick
  <2>2. /\ Fits(cache[slug].view, LoadMax + age) /\ age \in Nat
        /\ \A m \in Of(cache[slug].view.site) : cache[slug].view.shown[m] # None
    BY <1>5 DEF Live, PInv, CacheFits
  <2>3. LoadMax + age \in Nat /\ LoadMax + age + 1 = LoadMax + (age + 1)
    BY <2>2, PagesAssumption
  <2>4. /\ Fits(view, LoadMax + (age + 1))
        /\ view.site = cache[slug].view.site /\ view.shown = cache[slug].view.shown
    BY <2>2, <2>3, AgedFits
  <2>5. view \in View
    BY <2>4 DEF Fits
  <2> HIDE DEF view, age
  <2> QED BY <2>1, <2>2, <2>4, <2>5
<1>6. \A slug \in Slugs : ~Live(slug) => cache'[slug] = cache[slug]
  BY DEF Tick
<1>7. CacheFits'
  <2>1. cache' = [slug \in Slugs |-> cache'[slug]]
    BY DEF Tick
  <2>2. \A slug \in Slugs : cache'[slug] \in [view : View, age : Nat] \cup {None}
    BY <1>5, <1>6 DEF PInv, CacheFits
  <2>3. \A slug \in Slugs : cache'[slug] # None =>
          /\ Fits(cache'[slug].view, LoadMax + cache'[slug].age)
          /\ \A m \in Of(cache'[slug].view.site) : cache'[slug].view.shown[m] # None
    BY <1>5, <1>6 DEF PInv, CacheFits
  <2> QED BY <2>1, <2>2, <2>3 DEF CacheFits, Fits, Of
<1> QED BY <1>1, <1>4, <1>7 DEF PInv

LEMMA ReadersStay ==
  ASSUME PInv, MonitorsFit', UNCHANGED <<load, cache>>
  PROVE  PInv'
BY DEF PInv, LoadsFit, CacheFits, Fits, Of

LEMMA MonitorChanges ==
  ASSUME PInv, NEW m \in Monitors,
         \/ \E result \in Results : SaveCheck(m, result)
         \/ \E on \in BOOLEAN : SetActive(m, on)
         \/ \E on \in BOOLEAN : \E result \in Results : ChangeMaximum(m, on, result)
  PROVE  PInv'
<1>1. MonitorsFit /\ UNCHANGED <<load, cache>>
  BY DEF PInv, SaveCheck, SetActive, ChangeMaximum
<1>2. ASSUME NEW result \in Results, SaveCheck(m, result)
      PROVE  MonitorsFit'
  BY <1>1, <1>2 DEF SaveCheck, MonitorsFit
<1>3. ASSUME NEW on \in BOOLEAN, SetActive(m, on)
      PROVE  MonitorsFit'
  BY <1>1, <1>3 DEF SetActive, MonitorsFit
<1>4. ASSUME NEW on \in BOOLEAN, NEW result \in Results, ChangeMaximum(m, on, result)
      PROVE  MonitorsFit'
  BY <1>1, <1>4 DEF ChangeMaximum, MonitorsFit
<1> QED BY <1>1, <1>2, <1>3, <1>4, ReadersStay

-----------------------------------------------------------------------------
(* The limiter.                                                            *)

\* The sums of a history: up to every age, what was accepted.
LEMMA SumsFit ==
  ASSUME NEW f \in [0..Window - 1 -> Nat]
  PROVE  /\ InLastTicks(f) \in [0..Window -> Nat]
         /\ IsSums(InLastTicks(f), f, Window)
<1>1. PICK g \in [0..Window -> Nat] : IsSums(g, f, Window)
  BY SumsExist, LimiterAssumption
<1>2. InLastTicks(f) = CHOOSE h : h = [n \in 0..Window |-> IF n = 0 THEN 0 ELSE h[n - 1] + f[n - 1]]
  BY DEF InLastTicks
<1>3. IsSums(InLastTicks(f), f, Window)
  BY <1>1, <1>2 DEF IsSums
<1>4. Window \in Nat
  BY LimiterAssumption
<1>5. InLastTicks(f) \in [0..Window -> Nat]
  BY <1>3, <1>4, SumsTyped
<1> QED BY <1>3, <1>5

\* One more request is one more in every sum, and a tick later the last n + 1
\* ticks accepted what the last n had.
LEMMA SumsStep ==
  ASSUME NEW f \in [0..Window - 1 -> Nat], NEW h \in [0..Window - 1 -> Nat]
  PROVE  /\ OneMore(h, f, Window) =>
               \A n \in 1..Window : InLastTicks(h)[n] = InLastTicks(f)[n] + 1
         /\ Shifted(h, f, Window) =>
               \A n \in 0..Window - 1 : InLastTicks(h)[n + 1] = InLastTicks(f)[n]
<1>1. IsSums(InLastTicks(f), f, Window) /\ IsSums(InLastTicks(h), h, Window) /\ Window \in Nat
  BY SumsFit, LimiterAssumption
<1>2. ASSUME OneMore(h, f, Window)
      PROVE  \A n \in 1..Window : InLastTicks(h)[n] = InLastTicks(f)[n] + 1
  BY <1>1, <1>2, SumsAfterOneMore
<1>3. ASSUME Shifted(h, f, Window)
      PROVE  \A n \in 0..Window - 1 : InLastTicks(h)[n + 1] = InLastTicks(f)[n]
  BY <1>1, <1>3, SumsShift
<1> QED BY <1>2, <1>3

\* What the limiter keeps per key.  A window that counts has accepted what its
\* entry says, its first request when it opened; of the windows before, at most
\* MaxRequests - 1 requests are not older than Window.  A key without such a
\* window has accepted nothing since the last tick.
WindowFits(c) ==
    LET entry == entries[c]
        sum   == InLastTicks(accepted[c])
    IN  /\ entry = None \/ entry.age >= Window =>
              accepted[c][0] = 0 /\ sum[Window] <= MaxRequests - 1
        /\ entry # None /\ entry.age < Window =>
              /\ accepted[c][entry.age] >= 1
              /\ sum[entry.age + 1] = entry.count
              /\ sum[Window] <= entry.count + (MaxRequests - 1)
        /\ c \in refused => sum[Window] >= MaxRequests

LInv == LimiterTypeOK /\ \A c \in Clients : WindowFits(c)

LEMMA HistoryFits ==
  ASSUME LimiterTypeOK, NEW c \in Clients
  PROVE  /\ accepted[c] \in [0..Window - 1 -> Nat]
         /\ InLastTicks(accepted[c]) \in [0..Window -> Nat]
         /\ IsSums(InLastTicks(accepted[c]), accepted[c], Window)
         /\ entries[c] # None => /\ entries[c] \in LimitEntry /\ entries[c].age \in 0..Window
                                 /\ entries[c].count \in 0..MaxRequests
         /\ Window \in Nat \ {0} /\ MaxRequests \in Nat \ {0}
BY SumsFit, LimiterAssumption DEF LimiterTypeOK, LimitEntry

\* The window that a request of c finds, after the cleanup: one that counts, or
\* a new one.
LEMMA FoundFits ==
  ASSUME LInv, NEW c \in Clients
  PROVE  LET entry == Found(c)
             sum   == InLastTicks(accepted[c])
         IN  /\ entry \in LimitEntry /\ entry.age < Window
             /\ \/ /\ entry = entries[c] /\ entry # None
                   /\ accepted[c][entry.age] >= 1
                   /\ sum[entry.age + 1] = entry.count
                   /\ sum[Window] <= entry.count + (MaxRequests - 1)
                \/ /\ entry = Opened /\ accepted[c][0] = 0
                   /\ sum[Window] <= MaxRequests - 1
<1>1. LimiterTypeOK /\ WindowFits(c)
  BY DEF LInv
<1>2. /\ entries[c] # None => entries[c] \in LimitEntry
      /\ Window \in Nat \ {0} /\ MaxRequests \in Nat \ {0}
  BY <1>1, HistoryFits
<1>3. Opened \in LimitEntry /\ Opened.age < Window
  BY <1>2 DEF Opened, LimitEntry
<1>4. CASE entries[c] # None /\ entries[c].age < Window
  <2>1. Found(c) = entries[c]
    BY <1>2, <1>4 DEF Found, Current, Cleaned, Retained, LimitEntry
  <2> QED BY <1>1, <1>2, <1>4, <2>1 DEF WindowFits
<1>5. CASE entries[c] = None \/ entries[c].age >= Window
  <2>1. Found(c) = Opened
    BY <1>2, <1>5 DEF Found, Current, Cleaned
  <2>2. accepted[c][0] = 0 /\ InLastTicks(accepted[c])[Window] <= MaxRequests - 1
    BY <1>1, <1>5 DEF WindowFits
  <2> QED BY <1>3, <2>1, <2>2
<1> QED BY <1>2, <1>4, <1>5 DEF LimitEntry

\* A key whose requests are not the ones being checked.
LEMMA OthersWindowFits ==
  ASSUME LInv, NEW c \in Clients, NEW o \in Clients \ {c}, check(c)
  PROVE  WindowFits(o)'
<1>1. LimiterTypeOK /\ WindowFits(o)
  BY DEF LInv
<1>2. entries[o] # None => entries[o].age \in 0..Window
  BY <1>1, HistoryFits
<1>3. entries'[o] = Cleaned[o] /\ accepted'[o] = accepted[o] /\ (o \in refused' => o \in refused)
  BY <1>1 DEF check, Cleaned, LimiterTypeOK
<1>4. CASE Cleaned[o] = entries[o]
  BY <1>1, <1>3, <1>4 DEF WindowFits
<1>5. CASE Cleaned[o] # entries[o]
  <2>1. Cleaned[o] = None /\ (entries[o] = None \/ entries[o].age >= Window)
    BY <1>2, <1>5, LimiterAssumption DEF Cleaned, Retained
  <2> QED BY <1>1, <1>3, <2>1 DEF WindowFits
<1> QED BY <1>4, <1>5

LEMMA AllowedWindowFits ==
  ASSUME LInv, NEW c \in Clients, check(c), Allows(c)
  PROVE  WindowFits(c)' /\ LimiterTypeOK'
<1> DEFINE e   == Found(c)
           new == [e EXCEPT !.count = @ + 1]
           f   == accepted[c]
           h   == accepted'[c]
           sum == InLastTicks(f)
           more == InLastTicks(h)
<1>1. LimiterTypeOK
  BY DEF LInv
<1>2. /\ Window \in Nat \ {0} /\ MaxRequests \in Nat \ {0}
      /\ accepted[c] \in [0..Window - 1 -> Nat]
      /\ sum \in [0..Window -> Nat] /\ IsSums(sum, accepted[c], Window)
  BY <1>1, HistoryFits
<1>3. /\ e \in LimitEntry /\ e.age < Window
      /\ \/ /\ accepted[c][e.age] >= 1 /\ sum[e.age + 1] = e.count
            /\ sum[Window] <= e.count + (MaxRequests - 1)
         \/ /\ e = Opened /\ accepted[c][0] = 0 /\ sum[Window] <= MaxRequests - 1
  BY FoundFits
<1>4. e.count < MaxRequests
  BY DEF Allows
<1>5. /\ entries' = [Cleaned EXCEPT ![c] = new]
      /\ accepted' = [accepted EXCEPT ![c][0] = @ + 1]
      /\ refused' = refused
      /\ request_counter' = (request_counter + 1) % CleanEvery
  BY DEF check
<1> HIDE DEF e
<1>6. new \in LimitEntry /\ new.age = e.age /\ new.count = e.count + 1 /\ new # None
  <2>1. e.count \in Nat /\ e.count + 1 \in 0..MaxRequests
    BY <1>2, <1>3, <1>4 DEF LimitEntry
  <2>2. new \in LimitEntry /\ new.age = e.age /\ new.count = e.count + 1
    BY <1>3, <2>1 DEF LimitEntry
  <2> QED BY <2>2, LimiterAssumption
<1> HIDE DEF new
<1>7. entries'[c] = new
  BY <1>5 DEF Cleaned
<1>8. /\ h \in [0..Window - 1 -> Nat]
      /\ \A a \in 0..Window - 1 : h[a] = IF a = 0 THEN f[0] + 1 ELSE f[a]
  <2>1. h = [f EXCEPT ![0] = @ + 1]
    BY <1>1, <1>5 DEF LimiterTypeOK
  <2>2. f \in [0..Window - 1 -> Nat] /\ 0 \in 0..Window - 1
    BY <1>2
  <2> HIDE DEF f, h
  <2> QED BY <2>1, <2>2
<1>9. LimiterTypeOK'
  <2>1. entries' \in [Clients -> LimitEntry \cup {None}]
    BY <1>1, <1>5, <1>6 DEF Cleaned, LimiterTypeOK
  <2>2. accepted' \in [Clients -> [0..Window - 1 -> Nat]]
    BY <1>1, <1>5, <1>8 DEF LimiterTypeOK
  <2>3. request_counter' \in 0..CleanEvery - 1
    BY <1>1, <1>5, LimiterAssumption DEF LimiterTypeOK
  <2> QED BY <1>1, <1>5, <2>1, <2>2, <2>3 DEF LimiterTypeOK, LimitEntry
<1> HIDE DEF f, h
<1>10. more \in [0..Window -> Nat] /\ IsSums(more, h, Window)
  BY <1>8, SumsFit
<1> HIDE DEF sum, more
<1>11. \A n \in 1..Window : more[n] = sum[n] + 1
  <2>1. f \in [0..Window - 1 -> Nat]
    BY <1>2 DEF f
  <2>2. OneMore(h, f, Window)
    BY <1>8 DEF OneMore
  <2> QED BY <1>8, <2>1, <2>2, SumsStep DEF sum, more
<1>12. more[1] = f[0] + 1
  <2>1. Window \in Nat
    BY <1>2
  <2>2. more[0] = 0 /\ \A n \in 1..Window : more[n] = more[n - 1] + h[n - 1]
    BY <1>10, <2>1, SumsTyped
  <2>3. f[0] \in Nat
    BY <1>2 DEF f
  <2> QED BY <1>2, <1>8, <2>2, <2>3
<1>13. more[Window] = sum[Window] + 1 /\ sum[Window] \in Nat /\ e.age \in 0..Window - 1 /\ e.count \in Nat
  BY <1>2, <1>3, <1>11 DEF LimitEntry
<1>14. h[e.age] >= 1
  <2>1. f[0] \in Nat /\ (e = Opened => e.age = 0)
    BY <1>2 DEF f, Opened
  <2>2. e = Opened \/ f[e.age] >= 1
    BY <1>3 DEF f
  <2> QED BY <1>8, <1>13, <2>1, <2>2
<1>15. more[e.age + 1] = e.count + 1 /\ more[Window] <= e.count + 1 + (MaxRequests - 1)
  <2>1. CASE sum[e.age + 1] = e.count /\ sum[Window] <= e.count + (MaxRequests - 1)
    BY <1>2, <1>11, <1>13, <2>1
  <2>2. CASE e = Opened /\ f[0] = 0 /\ sum[Window] <= MaxRequests - 1
    BY <1>2, <1>12, <1>13, <2>2 DEF Opened
  <2> QED BY <1>3, <2>1, <2>2 DEF f, sum
<1>16. c \in refused' => more[Window] >= MaxRequests
  <2>1. c \in refused => sum[Window] >= MaxRequests
    BY DEF LInv, WindowFits, sum, f
  <2> QED BY <1>2, <1>5, <1>13, <2>1
<1>17. ~(entries'[c] = None \/ entries'[c].age >= Window)
  BY <1>2, <1>3, <1>6, <1>7, <1>13
<1>18. WindowFits(c)'
  BY <1>6, <1>7, <1>14, <1>15, <1>16, <1>17 DEF WindowFits, more, h
<1> QED BY <1>9, <1>18

\* A key is refused by a full window, which alone has accepted MaxRequests.
LEMMA RefusedWindowFits ==
  ASSUME LInv, NEW c \in Clients, check(c), ~Allows(c)
  PROVE  WindowFits(c)' /\ LimiterTypeOK'
<1> DEFINE e   == Found(c)
           f   == accepted[c]
           sum == InLastTicks(f)
<1>1. LimiterTypeOK
  BY DEF LInv
<1>2. Window \in Nat \ {0} /\ MaxRequests \in Nat \ {0}
  BY LimiterAssumption
<1>3. /\ entries' = [Cleaned EXCEPT ![c] = e] /\ accepted' = accepted
      /\ refused' = refused \cup {c} /\ request_counter' = (request_counter + 1) % CleanEvery
  BY DEF check
<1>4. e \in LimitEntry /\ e.age < Window
  BY FoundFits
<1>5. e.count = MaxRequests
  BY <1>2, <1>4 DEF Allows, LimitEntry
<1>6. /\ e = entries[c] /\ e # None
      /\ f[e.age] >= 1 /\ sum[e.age + 1] = e.count
      /\ sum[Window] <= e.count + (MaxRequests - 1)
  <2>1. e # Opened
    BY <1>2, <1>5 DEF Opened
  <2> QED BY <2>1, FoundFits
<1>7. sum[Window] >= MaxRequests
  <2>1. /\ IsSums(sum, f, Window) /\ sum \in [0..Window -> Nat]
        /\ Window \in Nat /\ e.age + 1 \in 0..Window /\ Window \in 0..Window /\ e.age + 1 <= Window
    BY <1>1, <1>2, <1>4, HistoryFits DEF LimitEntry
  <2> HIDE DEF e, sum, f
  <2>2. sum[e.age + 1] <= sum[Window]
    BY <2>1, SumsGrow
  <2> QED BY <1>2, <1>5, <1>6, <2>1, <2>2
<1> HIDE DEF e
<1>8. entries'[c] = e
  BY <1>3 DEF Cleaned
<1>9. LimiterTypeOK'
  <2>1. entries' \in [Clients -> LimitEntry \cup {None}]
    BY <1>1, <1>3, <1>4 DEF Cleaned, LimiterTypeOK
  <2>2. request_counter' \in 0..CleanEvery - 1
    BY <1>1, <1>3, LimiterAssumption DEF LimiterTypeOK
  <2> QED BY <1>1, <1>3, <2>1, <2>2 DEF LimiterTypeOK, LimitEntry
<1>10. WindowFits(c)'
  <2>1. ~(entries'[c] = None \/ entries'[c].age >= Window)
    BY <1>2, <1>4, <1>6, <1>8 DEF LimitEntry
  <2> QED BY <1>3, <1>6, <1>7, <1>8, <2>1 DEF WindowFits
<1> QED BY <1>9, <1>10

LEMMA CheckKeepsWindows ==
  ASSUME LInv, NEW c \in Clients, check(c)
  PROVE  LInv'
BY OthersWindowFits, AllowedWindowFits, RefusedWindowFits DEF LInv

\* A window that elapses leaves its first request behind.
LEMMA TickKeepsWindows ==
  ASSUME LInv, LimiterTick
  PROVE  LInv'
<1>1. LimiterTypeOK /\ Window \in Nat \ {0} /\ MaxRequests \in Nat \ {0}
  BY LimiterAssumption DEF LInv
<1>2. ASSUME NEW c \in Clients
      PROVE  /\ WindowFits(c)'
             /\ entries'[c] \in LimitEntry \cup {None}
             /\ accepted'[c] \in [0..Window - 1 -> Nat]
  <2> DEFINE e    == entries[c]
             f    == accepted[c]
             h    == accepted'[c]
             sum  == InLastTicks(f)
             next == InLastTicks(h)
  <2>1. /\ f \in [0..Window - 1 -> Nat] /\ sum \in [0..Window -> Nat] /\ IsSums(sum, f, Window)
        /\ e # None => e \in LimitEntry /\ e.age \in 0..Window /\ e.count \in 0..MaxRequests
    BY <1>1, HistoryFits
  <2>2. h = [a \in 0..Window - 1 |-> IF a = 0 THEN 0 ELSE f[a - 1]]
    BY DEF LimiterTick
  <2>3. h \in [0..Window - 1 -> Nat] /\ Shifted(h, f, Window)
    BY <1>1, <2>1, <2>2 DEF Shifted
  <2>4. entries'[c] = IF e = None \/ e.age = Window THEN e ELSE [e EXCEPT !.age = @ + 1]
    BY DEF LimiterTick
  <2>5. c \notin refused'
    BY DEF LimiterTick
  <2>6. WindowFits(c)
    BY DEF LInv
  <2> HIDE DEF f, h
  <2>7. \A n \in 0..Window - 1 : next[n + 1] = sum[n]
    BY <2>1, <2>3, SumsStep
  <2> HIDE DEF sum, next
  <2>8. /\ h[0] = 0 /\ \A a \in 0..Window - 1 : a + 1 < Window => h[a + 1] = f[a]
        /\ \A a \in 0..Window - 1 : sum[a + 1] = sum[a] + f[a]
        /\ \A n \in 0..Window : sum[n] \in Nat
    <3>1. Window \in Nat /\ Window > 0 /\ IsSums(sum, f, Window)
      BY <1>1, <2>1
    <3>2. /\ \A n \in 1..Window : sum[n] = sum[n - 1] + f[n - 1]
          /\ sum \in [0..Window -> Nat]
      BY <3>1, SumsTyped
    <3>3. \A a \in 0..Window - 1 : sum[a + 1] = sum[a] + f[a]
      <4> TAKE a \in 0..Window - 1
      <4>1. a + 1 \in 1..Window /\ a + 1 - 1 = a
        BY <3>1
      <4> QED BY <3>2, <4>1
    <3>4. Shifted(h, f, Window)
      BY <2>3
    <3>5. h[0] = 0 /\ \A a \in 0..Window - 1 : a + 1 < Window => h[a + 1] = f[a]
      BY <3>1, <3>4 DEF Shifted
    <3> QED BY <3>2, <3>3, <3>5
  <2>9. next[Window] = sum[Window - 1] /\ sum[Window - 1] <= sum[Window]
    <3>1. Window - 1 \in 0..Window - 1 /\ Window - 1 + 1 = Window
      BY <1>1
    <3>2. f[Window - 1] \in Nat /\ sum[Window - 1] \in Nat
      BY <2>1, <2>8, <3>1
    <3> QED BY <2>7, <2>8, <3>1, <3>2
  <2>10. CASE e = None \/ e.age >= Window
    <3>1. e = None \/ e.age = Window
      BY <1>1, <2>1, <2>10
    <3>2. entries'[c] = e
      BY <2>4, <3>1
    <3>3. sum[Window] <= MaxRequests - 1
      BY <2>6, <2>10 DEF WindowFits, sum, f
    <3>4. next[Window] <= MaxRequests - 1
      BY <1>1, <2>8, <2>9, <3>3
    <3>5. WindowFits(c)'
      <4>1. ~(e # None /\ e.age < Window)
        BY <1>1, <3>1
      <4> QED BY <2>5, <2>8, <3>2, <3>4, <4>1 DEF WindowFits, next, h
    <3> QED BY <2>1, <2>3, <3>2, <3>5 DEF h
  <2>11. CASE e # None /\ e.age < Window
    <3> DEFINE new == [e EXCEPT !.age = @ + 1]
    <3>1. entries'[c] = new
      BY <1>1, <2>1, <2>4, <2>11
    <3>2. new \in LimitEntry /\ new.age = e.age + 1 /\ new.count = e.count /\ new # None
      <4>0. e.age \in 0..Window
        BY <2>1, <2>11
      <4>1. e.age + 1 \in 0..Window
        BY <1>1, <2>11, <4>0
      <4>2. new \in LimitEntry /\ new.age = e.age + 1 /\ new.count = e.count
        BY <2>1, <2>11, <4>1 DEF LimitEntry
      <4> QED BY <4>2, LimiterAssumption
    <3>3. f[e.age] >= 1 /\ sum[e.age + 1] = e.count /\ sum[Window] <= e.count + (MaxRequests - 1)
      BY <2>6, <2>11 DEF WindowFits, sum, f
    <3>4. e.age \in 0..Window - 1 /\ e.count \in 0..MaxRequests
      BY <1>1, <2>1, <2>11
    <3> HIDE DEF e, new
    <3>5. CASE e.age + 1 < Window
      <4>1. h[new.age] >= 1 /\ next[new.age + 1] = new.count
        <5>1. e.age + 1 \in 0..Window - 1
          BY <1>1, <3>4, <3>5
        <5> QED BY <2>7, <2>8, <3>2, <3>3, <3>4, <3>5, <5>1
      <4>2. next[Window] <= new.count + (MaxRequests - 1)
        <5>1. sum[Window - 1] \in Nat /\ sum[Window] \in Nat
          BY <1>1, <2>8
        <5> QED BY <1>1, <2>9, <3>2, <3>3, <3>4, <5>1
      <4>3. ~(new = None \/ new.age >= Window)
        BY <1>1, <3>2, <3>4, <3>5
      <4> QED BY <2>3, <2>5, <3>1, <3>2, <4>1, <4>2, <4>3 DEF WindowFits, next, h
    <3>6. CASE e.age + 1 = Window
      <4>1. next[Window] <= MaxRequests - 1
        <5>1. sum[e.age + 1] = sum[e.age] + f[e.age] /\ sum[e.age] \in Nat
          BY <1>1, <2>8, <3>4
        <5>2. e.age = Window - 1
          BY <1>1, <3>4, <3>6
        <5>3. f[e.age] \in Nat
          BY <2>1, <3>4
        <5> QED BY <5>3, <1>1, <2>9, <3>3, <3>4, <5>1, <5>2
      <4>2. ~(new # None /\ new.age < Window)
        BY <1>1, <3>2, <3>6
      <4> QED BY <2>3, <2>5, <2>8, <3>1, <3>2, <4>1, <4>2 DEF WindowFits, next, h
    <3> QED BY <1>1, <3>4, <3>5, <3>6
  <2> QED BY <1>1, <2>1, <2>10, <2>11
<1>3. LimiterTypeOK'
  <2>1. /\ entries' = [c \in Clients |-> entries'[c]] /\ accepted' = [c \in Clients |-> accepted'[c]]
        /\ refused' = {} /\ request_counter' = request_counter
    BY DEF LimiterTick
  <2>2. entries' \in [Clients -> LimitEntry \cup {None}]
    BY <1>2, <2>1
  <2>3. accepted' \in [Clients -> [0..Window - 1 -> Nat]]
    BY <1>2, <2>1
  <2> QED BY <1>1, <2>1, <2>2, <2>3 DEF LimiterTypeOK, LimitEntry
<1> QED BY <1>2, <1>3 DEF LInv

LEMMA InitWindowsFit == Init => LInv
<1> SUFFICES ASSUME Init PROVE LInv
  OBVIOUS
<1> DEFINE f == [a \in 0..Window - 1 |-> 0]
<1>1. Window \in Nat \ {0} /\ MaxRequests \in Nat \ {0} /\ CleanEvery \in Nat \ {0}
  BY LimiterAssumption
<1>2. f \in [0..Window - 1 -> Nat]
  OBVIOUS
<1>3. LimiterTypeOK
  BY <1>1, <1>2 DEF Init, LimiterInit, LimiterTypeOK
<1>4. InLastTicks(f)[Window] = 0
  <2> DEFINE sum == InLastTicks(f)
  <2>1. IsSums(sum, f, Window)
    BY <1>2, SumsFit
  <2>0. \A a \in 0..Window - 1 : f[a] = 0
    OBVIOUS
  <2> HIDE DEF f, sum
  <2>2. sum[0] = 0 /\ \A n \in 1..Window : sum[n] = sum[n - 1] + f[n - 1]
    BY <1>1, <2>1, SumsTyped
  <2> DEFINE T == {n \in Nat : n <= Window => sum[n] = 0}
  <2>3. 0 \in T
    BY <2>2
  <2>4. ASSUME NEW n \in Nat, n \in T PROVE n + 1 \in T
    BY <1>1, <2>0, <2>2, <2>4
  <2>5. Nat \subseteq T
    <3> HIDE DEF T
    <3> QED BY <2>3, <2>4, AllNaturals
  <2>6. sum[Window] = 0
    BY <1>1, <2>5
  <2> QED BY <2>6 DEF sum
<1>5. ASSUME NEW c \in Clients PROVE WindowFits(c)
  <2>1. entries[c] = None /\ accepted[c] = f /\ refused = {} /\ f[0] = 0
    BY <1>1 DEF Init, LimiterInit
  <2> QED BY <1>1, <1>4, <2>1 DEF WindowFits
<1> QED BY <1>3, <1>5 DEF LInv

LEMMA WindowsStay ==
  ASSUME LInv, UNCHANGED limiterVars
  PROVE  LInv'
BY DEF LInv, LimiterTypeOK, WindowFits, limiterVars

LEMMA NextKeepsWindows == LInv /\ [Next]_vars => LInv'
<1> SUFFICES ASSUME LInv, [Next]_vars PROVE LInv'
  OBVIOUS
<1>1. ASSUME NEW q \in Requests, Handler(q) PROVE LInv'
  BY <1>1, CheckKeepsWindows, WindowsStay
     DEF Handler, get_public_status_page, ReadPage, Publish, LoadFails, ReadMonitors
<1>2. ASSUME Tick PROVE LInv'
  BY <1>2, TickKeepsWindows DEF Tick
<1>3. CASE UNCHANGED vars
  BY <1>3, WindowsStay DEF vars
<1> QED BY <1>1, <1>2, <1>3, WindowsStay
        DEF Next, upsert_status_page_config, SaveCheck, SetActive, ChangeMaximum

LEMMA LimiterInvariant == Spec => []LInv
BY InitWindowsFit, NextKeepsWindows, PTL DEF Spec

-----------------------------------------------------------------------------
(* The cache of pages.                                                     *)

PagesFit ==
    /\ page \in [Sites -> SiteStatusPage \cup {None}]
    /\ changes \in 0..MaxChanges

\* The order of use is an order of the pages held, which fit in the capacity.
OrderFits ==
    /\ \A slug \in Held : cache[slug].age <= TTL
    /\ IsFiniteSet(Held) /\ Cardinality(Held) <= Capacity
    /\ Orders(recent, Held)

LEMMA OrderStays ==
  ASSUME OrderFits, UNCHANGED <<cache, recent>>
  PROVE  OrderFits'
BY DEF OrderFits, Held

LEMMA InUsedLast ==
  ASSUME NEW slug, NEW x \in Held \cup {slug}, NEW y \in Held \cup {slug}
  PROVE  <<x, y>> \in UsedLast(slug) <=> \/ x # slug /\ y # slug /\ <<x, y>> \in recent
                                         \/ x = slug /\ y # slug
BY DEF UsedLast

LEMMA GetKeepsOrder ==
  ASSUME OrderFits, NEW slug \in Slugs, get(slug)
  PROVE  OrderFits'
<1>1. cache' = cache /\ Held' = Held
  BY DEF get, Held
<1>2. CASE slug \in Held
  <2>1. recent' = UsedLast(slug)
    BY <1>2 DEF get
  <2>2. Orders(UsedLast(slug), Held)
    <3>1. Promotes(UsedLast(slug), recent, slug, Held)
      BY <1>2, InUsedLast DEF Promotes
    <3> QED BY <3>1, OrderAfterUse DEF OrderFits
  <2> QED BY <1>1, <2>1, <2>2 DEF OrderFits
<1>3. CASE slug \notin Held
  BY <1>1, <1>3, OrderStays DEF get
<1> QED BY <1>2, <1>3

\* A full cache has a page that was used before the others.
LEMMA EvictedFits ==
  ASSUME OrderFits, NEW slug \in Slugs
  PROVE  /\ Evicted(slug) \subseteq Held /\ slug \notin Evicted(slug)
         /\ slug \in Held \/ Cardinality(Held) < Capacity \/ \E v \in Held : v \in Evicted(slug)
<1>1. Evicted(slug) \subseteq Held /\ slug \notin Evicted(slug)
  BY DEF Evicted
<1>2. ASSUME slug \notin Held, ~(Cardinality(Held) < Capacity)
      PROVE  \E v \in Held : v \in Evicted(slug)
  <2>1. Held # {}
    BY <1>2, FS_EmptySet, PagesAssumption
  <2>2. PICK v : FirstUsed(recent, Held, v)
    BY <2>1, OrderHasEnds DEF OrderFits
  <2> QED BY <1>2, <2>2 DEF Evicted, FirstUsed
<1> QED BY <1>1, <1>2

LEMMA SetKeepsOrder ==
  ASSUME OrderFits, NEW slug \in Slugs, NEW view, set(slug, view)
  PROVE  OrderFits'
<1> DEFINE gone == Evicted(slug)
<1>1. /\ cache' = [n \in Slugs |-> IF n = slug THEN [view |-> view, age |-> 0]
                                  ELSE IF n \in gone THEN None ELSE cache[n]]
      /\ recent' = {pair \in UsedLast(slug) : pair[1] \notin gone /\ pair[2] \notin gone}
  BY DEF set
<1>2. /\ gone \subseteq Held /\ slug \notin gone
      /\ slug \in Held \/ Cardinality(Held) < Capacity \/ \E v \in Held : v \in gone
  BY EvictedFits
<1> HIDE DEF gone
<1>3. \A n \in Held' : n = slug \/ (n \in Held /\ n \notin gone /\ cache'[n] = cache[n])
  BY <1>1 DEF Held
<1>4. Held' \in SUBSET (Held \cup {slug}) /\ \A n \in gone : n \notin Held'
  BY <1>2, <1>3
<1>5. Orders(recent', Held')
  <2>1. \A x, y \in Held' : <<x, y>> \in recent' <=> <<x, y>> \in UsedLast(slug)
    BY <1>1, <1>4
  <2>2. Promotes(recent', recent, slug, Held')
    BY <1>4, <2>1, InUsedLast DEF Promotes
  <2> QED BY <1>4, <2>2, OrderAfterUse DEF OrderFits
<1>6. IsFiniteSet(Held') /\ Cardinality(Held') <= Capacity
  <2>1. slug \in Held \/ Cardinality(Held) < Capacity \/ \E v \in Held : v \notin Held'
    BY <1>2, <1>4
  <2> QED BY <1>4, <2>1, CapacityKept, PagesAssumption DEF OrderFits
<1>7. \A n \in Held' : cache'[n].age <= TTL
  <2>1. cache'[slug].age = 0 /\ 0 <= TTL
    BY <1>1, PagesAssumption
  <2> QED BY <1>3, <2>1 DEF OrderFits
<1> QED BY <1>5, <1>6, <1>7 DEF OrderFits

LEMMA TickKeepsOrder ==
  ASSUME PInv, OrderFits, Tick
  PROVE  OrderFits'
<1>1. /\ cache' = [slug \in Slugs |->
                     IF ~Live(slug) THEN cache[slug]
                     ELSE [view |-> Aged(slug, cache[slug].view), age |-> cache[slug].age + 1]]
      /\ recent' = recent
  BY DEF Tick
<1>2. ASSUME NEW slug \in Held' PROVE slug \in Held /\ cache'[slug].age <= TTL
  <2>1. CASE ~Live(slug)
    <3>1. cache'[slug] = cache[slug] /\ slug \in Held
      BY <1>1, <2>1 DEF Held
    <3> QED BY <3>1 DEF OrderFits
  <2>2. CASE Live(slug)
    <3>1. slug \in Held /\ cache'[slug].age = cache[slug].age + 1 /\ cache[slug].age < TTL
      BY <1>1, <2>2 DEF Held, Live
    <3>2. cache[slug].age \in Nat
      BY <3>1 DEF Held, PInv, CacheFits
    <3> QED BY <3>1, <3>2, PagesAssumption
  <2> QED BY <2>1, <2>2
<1>3. Held' \in SUBSET Held
  BY <1>2
<1>4. IsFiniteSet(Held') /\ Cardinality(Held') <= Capacity
  <2>1. /\ IsFiniteSet(Held') /\ Cardinality(Held') <= Cardinality(Held)
        /\ Cardinality(Held) \in Nat /\ Cardinality(Held) <= Capacity
    BY <1>3, FS_Subset, FS_CardinalityType DEF OrderFits
  <2>2. Cardinality(Held') \in Nat
    BY <2>1, FS_CardinalityType
  <2> QED BY <2>1, <2>2, PagesAssumption
<1>5. Orders(recent', Held')
  BY <1>1, <1>3 DEF Orders, OrderFits
<1> QED BY <1>2, <1>4, <1>5 DEF OrderFits

LEMMA NextKeepsOrder == PInv /\ OrderFits /\ PagesFit /\ [Next]_vars => OrderFits' /\ PagesFit'
<1> SUFFICES ASSUME PInv, OrderFits, PagesFit, [Next]_vars PROVE OrderFits' /\ PagesFit'
  OBVIOUS
<1>0. Changes => changes' \in 0..MaxChanges
  BY PagesAssumption DEF Changes, PagesFit
<1>1. ASSUME NEW q \in Requests, Handler(q) PROVE OrderFits' /\ PagesFit'
  <2>1. page' = page /\ changes' = changes
    BY <1>1 DEF Handler, get_public_status_page, ReadPage, Publish, LoadFails, ReadMonitors
  <2>2. ASSUME NEW c \in Clients, NEW slug \in Slugs, get_public_status_page(q, c, slug)
        PROVE  OrderFits'
    BY <2>2, GetKeepsOrder, OrderStays DEF get_public_status_page
  <2>3. ASSUME Publish(q) PROVE OrderFits'
    <3>1. load[q].slug \in Slugs
      BY <2>3, LoadTyped DEF Publish
    <3> QED BY <2>3, <3>1, SetKeepsOrder DEF Publish
  <2>4. ASSUME ReadPage(q) \/ LoadFails(q) \/ \E kind \in Kinds : ReadMonitors(q, kind)
        PROVE  OrderFits'
    BY <2>4, OrderStays DEF ReadPage, LoadFails, ReadMonitors
  <2> QED BY <1>1, <2>1, <2>2, <2>3, <2>4 DEF Handler, PagesFit
<1>2. ASSUME NEW s \in Sites, NEW slug \in Slugs, NEW enabled \in BOOLEAN,
             upsert_status_page_config(s, slug, enabled)
      PROVE  OrderFits' /\ PagesFit'
  BY <1>0, <1>2, OrderStays DEF upsert_status_page_config, PagesFit, SiteStatusPage
<1>3. ASSUME NEW m \in Monitors,
             \/ \E result \in Results : SaveCheck(m, result)
             \/ \E on \in BOOLEAN : SetActive(m, on)
             \/ \E on \in BOOLEAN : \E result \in Results : ChangeMaximum(m, on, result)
      PROVE  OrderFits' /\ PagesFit'
  BY <1>0, <1>3, OrderStays DEF SaveCheck, SetActive, ChangeMaximum, PagesFit
<1>4. ASSUME Tick PROVE OrderFits' /\ PagesFit'
  BY <1>4, TickKeepsOrder DEF Tick, PagesFit
<1>5. CASE UNCHANGED vars
  BY <1>5, OrderStays DEF vars, pageVars, PagesFit
<1> QED BY <1>1, <1>2, <1>3, <1>4, <1>5 DEF Next

-----------------------------------------------------------------------------
(* The theorems.                                                           *)

LEMMA InitFits == Init => PInv
BY DEF Init, PInv, MonitorsFit, LoadsFit, CacheFits

LEMMA HandlerKeeps ==
  ASSUME PInv, NEW q \in Requests, Handler(q)
  PROVE  PInv'
<1>1. ASSUME LoadFails(q) PROVE PInv'
  BY <1>1, LoadEnds DEF LoadFails
<1> QED BY <1>1, GetKeeps, ReadPageKeeps, ReadMonitorsKeeps, PublishKeeps DEF Handler

LEMMA NextKeeps == PInv /\ [Next]_vars => PInv'
<1> SUFFICES ASSUME PInv, [Next]_vars PROVE PInv'
  OBVIOUS
<1>1. ASSUME NEW s \in Sites, NEW slug \in Slugs, NEW enabled \in BOOLEAN,
             upsert_status_page_config(s, slug, enabled)
      PROVE  PInv'
  BY <1>1, ReadersStay DEF upsert_status_page_config, PInv, MonitorsFit
<1>2. CASE UNCHANGED vars
  BY <1>2, ReadersStay DEF vars, pageVars, PInv, MonitorsFit
<1> QED BY <1>1, <1>2, HandlerKeeps, MonitorChanges, TickKeeps DEF Next

LEMMA PublicInvariant == Spec => []PInv
BY InitFits, NextKeeps, PTL DEF Spec

\* Every variable keeps its type, the cache its capacity, and of two pages held
\* one was used later (StatusPageCache, an LruCache).
THEOREM PagesTyped == Spec => []TypeOK
<1>1. Init => OrderFits /\ PagesFit
  <2> SUFFICES ASSUME Init PROVE OrderFits /\ PagesFit
    OBVIOUS
  <2>1. Held = {}
    BY DEF Init, Held
  <2>2. IsFiniteSet(Held) /\ Cardinality(Held) <= Capacity
    BY <2>1, FS_EmptySet, PagesAssumption
  <2>3. 0 \in 0..MaxChanges
    BY PagesAssumption
  <2> QED BY <2>1, <2>2, <2>3 DEF Init, OrderFits, PagesFit, Orders
<1>2. ASSUME PInv, LInv, OrderFits, PagesFit PROVE TypeOK
  <2>1. \A slug \in Held : cache[slug].view \in View /\ cache[slug].age \in 0..TTL
    <3> SUFFICES ASSUME NEW slug \in Held PROVE cache[slug].view \in View /\ cache[slug].age \in 0..TTL
      OBVIOUS
    <3>1. cache[slug] \in [view : View, age : Nat]
      BY <1>2 DEF Held, PInv, CacheFits
    <3> QED BY <1>2, <3>1, PagesAssumption DEF OrderFits
  <2>2. \A slug, n \in Held : slug # n => (<<slug, n>> \in recent) # (<<n, slug>> \in recent)
    BY <1>2 DEF OrderFits, Orders
  <2>3. \A q \in Requests : load[q] # None =>
          /\ load[q].slug \in Slugs /\ load[q].spent \in 0..LoadMax
          /\ load[q].view \in View \cup {None}
    BY <1>2, LoadTyped, PagesAssumption
  <2> QED BY <1>2, <2>1, <2>2, <2>3 DEF TypeOK, LInv, PInv, MonitorsFit, PagesFit, OrderFits
<1>3. Spec => [](PInv /\ LInv /\ OrderFits /\ PagesFit)
  BY <1>1, InitFits, NextKeeps, InitWindowsFit, NextKeepsWindows, NextKeepsOrder, PTL DEF Spec
<1> QED BY <1>2, <1>3, PTL

\* What visitors are shown has been out of date for less than LoadMax + TTL ticks,
\* whatever the order in which handlers store their pages
\* (get_public_status_page, StatusPageCache).
THEOREM PagesRecent == Spec => []PagesAreRecent
<1>1. PInv => PagesAreRecent
  BY DEF PInv, CacheFits, Fits, PagesAreRecent, Live
<1> QED BY <1>1, PublicInvariant, PTL

\* A page that visitors are shown and that says "operational" shows every monitor
\* of its site, of any number of kinds read one after the other while checks go
\* on, as up or paused, and one of them as up (derive_overall_status).
THEOREM OperationalDeserved == Spec => []OperationalIsDeserved
<1>1. ASSUME PInv PROVE OperationalIsDeserved
  <2> SUFFICES ASSUME NEW slug \in Slugs, Live(slug),
                      derive_overall_status(cache[slug].view.shown) = "operational"
               PROVE  LET view == cache[slug].view IN
                      /\ \A m \in Of(view.site) : view.shown[m] \in {"up", "paused"}
                      /\ \E m \in Of(view.site) : view.shown[m] = "up"
    BY DEF OperationalIsDeserved
  <2> DEFINE view   == cache[slug].view
             active == {view.shown[m] : m \in Monitors} \ {None, "paused"}
  <2>1. /\ Fits(view, LoadMax + cache[slug].age)
        /\ \A m \in Of(view.site) : view.shown[m] # None
    BY <1>1 DEF Live, PInv, CacheFits
  <2>2. active = {"up"}
    BY DEF derive_overall_status
  <2>3. \A m \in Of(view.site) : view.shown[m] \in {"up", "paused"} /\ m \in Monitors
    BY <2>1, <2>2 DEF Of
  <2>4. \E m \in Monitors : view.shown[m] = "up"
    BY <2>2
  <2>5. None # "up"
    BY PagesAssumption DEF Statuses
  <2> QED BY <2>1, <2>3, <2>4, <2>5 DEF Fits
<1> QED BY <1>1, PublicInvariant, PTL

\* However the windows of a key lie, and whether or not an elapsed one has been
\* dropped, any Window ticks accept at most two windows' requests less one
\* (AuthRateLimiter::check).
THEOREM LimitKept == Spec => []LimitIsKept
<1>1. ASSUME LInv PROVE LimitIsKept
  <2> SUFFICES ASSUME NEW c \in Clients PROVE Recent(c) <= 2 * MaxRequests - 1
    BY DEF LimitIsKept
  <2>1. /\ Window \in Nat \ {0} /\ MaxRequests \in Nat \ {0}
        /\ InLastTicks(accepted[c]) \in [0..Window -> Nat]
        /\ entries[c] # None => entries[c].age \in 0..Window /\ entries[c].count \in 0..MaxRequests
    BY <1>1, HistoryFits DEF LInv
  <2>2. Recent(c) \in Nat
    BY <2>1 DEF Recent
  <2>3. \/ Recent(c) <= MaxRequests - 1
        \/ entries[c] # None /\ Recent(c) <= entries[c].count + (MaxRequests - 1)
    BY <1>1, <2>1 DEF LInv, WindowFits, Recent
  <2> QED BY <2>1, <2>2, <2>3
<1> QED BY <1>1, LimiterInvariant, PTL

\* A key is refused only while the last Window ticks accepted its maximum: a
\* window that has elapsed refuses nothing (AuthRateLimiter::check).
THEOREM RefusalsDeserved == Spec => []RefusalsAreDeserved
<1>1. LInv => RefusalsAreDeserved
  BY DEF LInv, LimiterTypeOK, WindowFits, RefusalsAreDeserved, Recent
<1> QED BY <1>1, LimiterInvariant, PTL
=============================================================================
