----------------------------- MODULE ReleasesProofs -----------------------------
(* That a scan of the RSS feeds goes by the subscriptions and the filters   *)
(* the user has set, that episodes are mapped to what they are, and that    *)
(* the settings of the backend stay what was asked for, for any feeds,      *)
(* releases, variants, shows, files and numbers of edits.                   *)
EXTENDS Subscriptions, ReleaseFilters, MetadataValidation, Settings, DataLemmas

------------------------------------------------------------------------------
(* The subscriptions (Subscriptions).                                      *)

\* The reader always has what the list says: every edit gives it the whole
\* list anew.  A scan finds nothing before it has read its feeds.
Rows == [enabled : BOOLEAN, completed : BOOLEAN, rules : BOOLEAN]
SubInv ==
    /\ subs \in [DOMAIN subs -> Rows]
    /\ reader = [urls |-> ActiveUrls, everywhere |-> banned, rules |-> {u \in ActiveUrls : subs[u].rules}]
    /\ scan = [at |-> scan.at, urls |-> scan.urls, found |-> scan.found]
    /\ scan.at = "fetching" => scan.found = <<>>

\* An edit leaves the reader with what the list then says.
LEMMA EditSyncs ==
    ASSUME SubInv, NEW all, NEW everywhere, Save(all, everywhere),
           all \in [DOMAIN all -> Rows]
    PROVE  SubInv' /\ scan' = scan
  <1>1. subs' = all /\ banned' = everywhere /\ scan' = scan /\ reader' = Synced(all, everywhere)
    BY DEF Save
  <1>2. (subs \in [DOMAIN subs -> Rows])'
    BY <1>1 DEF Rows
  <1> QED
    BY <1>1, <1>2 DEF SubInv, Synced, ActiveUrls

\* So does every one of the handlers.
LEMMA EditStepSyncs ==
    ASSUME SubInv, EditStep
    PROVE  SubInv' /\ scan' = scan
  <1>0. /\ \A b \in BOOLEAN : Subscription(b) \in Rows
        /\ subs \in [DOMAIN subs -> Rows]
    BY DEF Subscription, Rows, SubInv
  <1>1. ASSUME NEW u \in Feeds, NEW b \in BOOLEAN, Follow(u, b) PROVE SubInv' /\ scan' = scan
    <2> DEFINE all == Stored(subs, u, Subscription(b))
    <2>1. /\ DOMAIN all = DOMAIN subs \union {u}
          /\ \A v \in DOMAIN all : all[v] = IF v = u THEN Subscription(b) ELSE subs[v]
          /\ all = [v \in DOMAIN all |-> all[v]]
      BY DEF Stored
    <2>2. Save(all, banned)
      BY <1>1 DEF Follow, Edit
    <2> HIDE DEF all
    <2>3. all \in [DOMAIN all -> Rows]
      BY <1>0, <2>1 DEF Rows
    <2> QED
      BY <2>2, <2>3, EditSyncs
  <1>2. ASSUME NEW u \in Feeds, NEW b \in BOOLEAN, Toggle(u, b) PROVE SubInv' /\ scan' = scan
    <2> DEFINE all == [subs EXCEPT ![u].enabled = b, ![u].completed = @ /\ ~b]
    <2>1. Save(all, banned)
      BY <1>2 DEF Toggle, Edit
    <2>2. all \in [DOMAIN all -> Rows]
      BY <1>0, <1>2 DEF Rows, Toggle
    <2> HIDE DEF all
    <2> QED
      BY <2>1, <2>2, EditSyncs
  <1>3. ASSUME NEW u \in Feeds, NEW b \in BOOLEAN, Complete(u, b) PROVE SubInv' /\ scan' = scan
    <2> DEFINE all == [subs EXCEPT ![u].completed = b, ![u].enabled = @ \/ ~b]
    <2>1. Save(all, banned)
      BY <1>3 DEF Complete, Edit
    <2>2. all \in [DOMAIN all -> Rows]
      BY <1>0, <1>3 DEF Rows, Complete
    <2> HIDE DEF all
    <2> QED
      BY <2>1, <2>2, EditSyncs
  <1>4. ASSUME NEW u \in Feeds, NEW b \in BOOLEAN, Exclude(u, b) PROVE SubInv' /\ scan' = scan
    <2> DEFINE all == [subs EXCEPT ![u].rules = b]
    <2>1. Save(all, banned)
      BY <1>4 DEF Exclude, Edit
    <2>2. all \in [DOMAIN all -> Rows]
      BY <1>0, <1>4 DEF Rows, Exclude
    <2> HIDE DEF all
    <2> QED
      BY <2>1, <2>2, EditSyncs
  <1>5. ASSUME NEW u \in Feeds, NEW v \in Feeds, NEW b \in BOOLEAN, Correct(u, v, b) PROVE SubInv' /\ scan' = scan
    <2> DEFINE kept == [w \in DOMAIN subs \ {u} |-> subs[w]]
               moved == [subs[u] EXCEPT !.rules = b]
               all == Stored(kept, v, moved)
    <2>1. Save(all, banned) /\ u \in DOMAIN subs
      BY <1>5 DEF Correct, Edit
    <2>2. /\ DOMAIN all = (DOMAIN subs \ {u}) \union {v}
          /\ \A w \in DOMAIN all : all[w] = IF w = v THEN moved ELSE subs[w]
          /\ all = [w \in DOMAIN all |-> all[w]]
      BY DEF Stored
    <2>3. moved \in Rows
      BY <1>0, <2>1 DEF Rows
    <2> HIDE DEF all, moved
    <2>4. all \in [DOMAIN all -> Rows]
      BY <1>0, <2>2, <2>3 DEF Rows
    <2> QED
      BY <2>1, <2>4, EditSyncs
  <1>6. ASSUME NEW u \in Feeds, Unfollow(u) PROVE SubInv' /\ scan' = scan
    <2> DEFINE all == [v \in DOMAIN subs \ {u} |-> subs[v]]
    <2>1. Save(all, banned)
      BY <1>6 DEF Unfollow, Edit
    <2>2. all \in [DOMAIN all -> Rows]
      BY <1>0 DEF Rows
    <2> HIDE DEF all
    <2> QED
      BY <2>1, <2>2, EditSyncs
  <1>7. ASSUME NEW b \in BOOLEAN, ExcludeEverywhere(b) PROVE SubInv' /\ scan' = scan
    <2>1. Save(subs, b)
      BY <1>7 DEF ExcludeEverywhere
    <2> QED
      BY <1>0, <2>1, EditSyncs DEF Rows
  <1> QED
    BY <1>1, <1>2, <1>3, <1>4, <1>5, <1>6, <1>7 DEF EditStep

\* Whatever happens between the steps of a scan, what it has found it has
\* found by the rules of the moment it read the feed.
LEMMA InitSub == SubInit => SubInv
  <1> SUFFICES ASSUME SubInit PROVE SubInv
    OBVIOUS
  <1>1. PICK u \in SUBSET Feeds, rules \in BOOLEAN : subs = [v \in u |-> Subscription(rules)]
    BY DEF SubInit
  <1>2. subs \in [DOMAIN subs -> Rows]
    BY <1>1 DEF Rows, Subscription
  <1> QED
    BY <1>2 DEF SubInit, SubInv, NoScan

LEMMA ScanStepKeeps ==
    ASSUME SubInv, ScanStep
    PROVE  SubInv'
  <1> DEFINE Begun(s) == /\ s = [at |-> s.at, urls |-> s.urls, found |-> s.found]
                         /\ s.at = "fetching" => s.found = <<>>
  <1>1. UNCHANGED <<subs, banned, reader>>
    BY DEF ScanStep, StartScan, FetchEnds, Filtered, Reserve, EndScan, list
  <1>2. CASE StartScan
    <2>1. Begun(scan')
      BY <1>2 DEF StartScan, NoScan
    <2> QED
      BY <1>1, <2>1 DEF SubInv, Rows, ActiveUrls
  <1>3. CASE FetchEnds
    <2>1. Begun(scan')
      BY <1>3 DEF FetchEnds, SubInv
    <2> QED
      BY <1>1, <2>1 DEF SubInv, Rows, ActiveUrls
  <1>4. CASE Filtered
    <2>1. Begun(scan')
      BY <1>4 DEF Filtered, SubInv
    <2> QED
      BY <1>1, <2>1 DEF SubInv, Rows, ActiveUrls
  <1>5. ASSUME NEW r \in Releases, Reserve(r) PROVE SubInv'
    <2>1. Begun(scan')
      BY <1>5 DEF Reserve, SubInv
    <2> QED
      BY <1>1, <2>1 DEF SubInv, Rows, ActiveUrls
  <1>6. CASE EndScan
    <2>1. Begun(scan')
      BY <1>6 DEF EndScan, NoScan
    <2> QED
      BY <1>1, <2>1 DEF SubInv, Rows, ActiveUrls
  <1> QED
    BY <1>2, <1>3, <1>4, <1>5, <1>6 DEF ScanStep

\* What a scan has just read it has read by the rules of the list.
LEMMA FetchedByTheRules ==
    ASSUME SubInv, FetchEnds, NEW r \in DOMAIN scan'.found, scan'.found[r].source \in ActiveUrls
    PROVE  /\ scan'.found[r].tuned = subs[scan'.found[r].source].rules
           /\ banned \/ subs[scan'.found[r].source].rules => r \notin Unwanted
  <1> DEFINE sources(read, s) == {u \in read : s \in Listed[u] /\ ~Excluded(u, s)}
             offered(read) == {s \in Releases : sources(read, s) # {}}
  <1>1. PICK read \in SUBSET scan.urls :
          \E from \in [offered(read) -> Feeds] :
              /\ \A s \in offered(read) : from[s] \in sources(read, s)
              /\ scan' = [scan EXCEPT !.at = "filtering",
                     !.found = [s \in offered(read) |-> [source |-> from[s], tuned |-> from[s] \in reader.rules]]]
    BY DEF FetchEnds
  <1>2. PICK from \in [offered(read) -> Feeds] :
              /\ \A s \in offered(read) : from[s] \in sources(read, s)
              /\ scan' = [scan EXCEPT !.at = "filtering",
                     !.found = [s \in offered(read) |-> [source |-> from[s], tuned |-> from[s] \in reader.rules]]]
    BY <1>1
  <1> HIDE DEF offered
  <1>3. scan'.found = [s \in offered(read) |-> [source |-> from[s], tuned |-> from[s] \in reader.rules]]
    BY <1>2 DEF SubInv
  <1>4. /\ r \in offered(read) /\ scan'.found[r].source = from[r]
        /\ scan'.found[r].tuned = (from[r] \in reader.rules)
    BY <1>3
  <1>5. ~Excluded(from[r], r)
    BY <1>2, <1>4
  <1>6. from[r] \in DOMAIN subs /\ subs[from[r]].rules \in BOOLEAN
    BY <1>4 DEF SubInv, Rows, ActiveUrls, ActiveIn
  <1>7. /\ (from[r] \in reader.rules) = subs[from[r]].rules
        /\ reader.everywhere = banned
    BY <1>4, <1>6 DEF SubInv
  <1> QED
    BY <1>4, <1>5, <1>7 DEF Excluded

\* Whatever edits overtake a scan, a release is taken with the rules that the
\* list has for its feed when the feed has been read.
THEOREM AlwaysTakenByTheRules == SubSpec => TakenByTheRules
  <1> DEFINE Taken == \A r \in DOMAIN scan'.found :
                         LET u == scan'.found[r].source
                         IN scan.at = "fetching" /\ u \in ActiveUrls
                            => /\ scan'.found[r].tuned = subs[u].rules
                               /\ banned \/ subs[u].rules => r \notin Unwanted
  <1>1. SubInv /\ [SubNext]_subVars => SubInv'
    <2> SUFFICES ASSUME SubInv, [SubNext]_subVars PROVE SubInv'
      OBVIOUS
    <2>1. CASE EditStep
      BY <2>1, EditStepSyncs
    <2>2. CASE ScanStep
      BY <2>2, ScanStepKeeps
    <2>3. CASE UNCHANGED <<list, reader, scan>>
      BY <2>3 DEF SubInv, Rows, list, ActiveUrls
    <2>4. FullScan \/ (\E r \in Releases : TaskEnds(r)) \/ UNCHANGED subVars => UNCHANGED <<list, reader, scan>>
      BY DEF FullScan, TaskEnds, subVars, list
    <2> QED
      BY <2>1, <2>2, <2>3, <2>4 DEF SubNext
  <1>2. SubInv /\ [SubNext]_subVars => [Taken]_subVars
    <2> SUFFICES ASSUME SubInv, SubNext, scan.at = "fetching" PROVE Taken
      BY DEF Taken
    <2>1. CASE scan' = scan
      BY <2>1 DEF SubInv
    <2>2. CASE FetchEnds
      BY <2>2, FetchedByTheRules
    <2>3. CASE EndScan
      BY <2>3 DEF EndScan, NoScan
    <2>4. ScanStep => FetchEnds \/ EndScan
      BY DEF ScanStep, StartScan, Filtered, Reserve
    <2>5. EditStep => scan' = scan
      BY EditStepSyncs
    <2>6. FullScan \/ (\E r \in Releases : TaskEnds(r)) => scan' = scan
      BY DEF FullScan, TaskEnds
    <2> QED
      BY <2>1, <2>2, <2>3, <2>4, <2>5, <2>6 DEF SubNext
  <1> QED
    BY <1>1, <1>2, InitSub, PTL DEF SubSpec, TakenByTheRules

------------------------------------------------------------------------------
(* The filters (ReleaseFilters).                                           *)

FltInv ==
    /\ library \in Seq(Variants) /\ active \subseteq Variants
    /\ pass.batch \subseteq Variants /\ pass.rows \in Seq(Variants)
    /\ pass = [at |-> pass.at, batch |-> pass.batch, rows |-> pass.rows]

LEMMA FltStep == FltInv /\ [FltNext]_fltVars => FltInv'
  <1> SUFFICES ASSUME FltInv, [FltNext]_fltVars PROVE FltInv'
    OBVIOUS
  <1>1. CASE List
    BY <1>1 DEF List, FltInv
  <1>2. CASE ReadForRank \/ ReadForCompare
    BY <1>2 DEF ReadForRank, ReadForCompare, ReadRows, FltInv
  <1>3. CASE Rank
    <2>1. Prioritized(pass.batch, Range(pass.rows) \union active) \subseteq pass.batch
      BY DEF Prioritized, BestOf
    <2> QED
      BY <1>3, <2>1 DEF Rank, FltInv
  <1>4. CASE Compare
    <2>1. DistinctStems(pass.batch, pass.rows) \subseteq pass.batch
      BY DEF DistinctStems
    <2> QED
      BY <1>4, <2>1 DEF Compare, FltInv
  <1>5. CASE EndPass
    BY <1>5 DEF EndPass, NoPass, FltInv
  <1>6. ASSUME NEW c \in Variants, Take(c) \/ Record(c) \/ Finish(c) \/ Fail(c) PROVE FltInv'
    BY <1>6 DEF Take, Record, Finish, Fail, FltInv
  <1>7. CASE UNCHANGED fltVars
    BY <1>7 DEF fltVars, FltInv
  <1> QED
    BY <1>1, <1>2, <1>3, <1>4, <1>5, <1>6, <1>7 DEF FltNext

LEMMA FieldsAreNumbers ==
    ASSUME NEW c \in Variants, NEW i \in DOMAIN FieldOrder
    PROVE  c[FieldOrder[i]] \in Nat
  <1>1. FieldOrder[i] \in {"fansub", "quality"}
    BY FiltersAssumption
  <1>2. c \in [id : Nat, fansub : 0 .. Unranked, quality : 0 .. Unranked, version : Nat, season : Nat] /\ Unranked \in Nat
    BY FiltersAssumption
  <1>3. c["fansub"] \in Nat /\ c["quality"] \in Nat
    BY <1>2
  <1> QED
    BY <1>1, <1>3

\* What is behind something known in the order of the fields is skipped: the
\* first field in which it is not at the best level is one where it is worse.
LEMMA BehindIsSkipped ==
    ASSUME NEW there, there \subseteq Variants, NEW k \in there, NEW c \in Variants, Before(k, c)
    PROVE  Skipped(c, there)
  <1> DEFINE best(i) == BestLevel(FieldOrder[i], there)
             off == {i \in DOMAIN FieldOrder : c[FieldOrder[i]] # best(i)}
  <1>1. DOMAIN FieldOrder \subseteq Nat /\ \A i \in DOMAIN FieldOrder : \A j \in 1 .. i - 1 : j \in DOMAIN FieldOrder
    BY FiltersAssumption
  <1>2. ASSUME NEW i \in DOMAIN FieldOrder PROVE best(i) \in Nat /\ best(i) <= k[FieldOrder[i]]
    <2> DEFINE levels == {d[FieldOrder[i]] : d \in there}
    <2>1. levels \subseteq Nat /\ k[FieldOrder[i]] \in levels
      BY FieldsAreNumbers
    <2> HIDE DEF levels
    <2>2. Min(levels) \in levels /\ \A n \in levels : Min(levels) <= n
      BY <2>1, LeastNumber
    <2>3. best(i) = Min(levels)
      BY DEF BestLevel, levels
    <2> HIDE DEF best
    <2> QED
      BY <2>1, <2>2, <2>3
  <1> HIDE DEF best
  <1>3. PICK i \in DOMAIN FieldOrder :
          k[FieldOrder[i]] < c[FieldOrder[i]] /\ \A j \in 1 .. i - 1 : k[FieldOrder[j]] = c[FieldOrder[j]]
    BY DEF Before
  <1>4. i \in off
    BY <1>2, <1>3, FieldsAreNumbers
  <1>5. /\ Min(off) \in off /\ \A j \in off : Min(off) <= j
    BY <1>1, <1>4, LeastNumber
  <1> DEFINE m == Min(off)
  <1>6. m \in DOMAIN FieldOrder /\ m \in Nat /\ i \in Nat /\ m <= i
    BY <1>1, <1>4, <1>5
  <1>7. c[FieldOrder[m]] # best(m)
    BY <1>5
  <1>8. \A j \in 1 .. m - 1 : j \in DOMAIN FieldOrder /\ j \notin off
    <2> HIDE DEF off
    <2>1. m \in Nat /\ \A j \in off : m <= j
      BY <1>5, <1>6
    <2> HIDE DEF m
    <2> TAKE j \in 1 .. m - 1
    <2>2. j \in DOMAIN FieldOrder
      BY <1>1, <1>6
    <2> QED
      BY <2>1, <2>2
  <1>9. \A j \in 1 .. m - 1 : c[FieldOrder[j]] = best(j)
    BY <1>8
  <1> HIDE DEF m
  <1>10. k[FieldOrder[m]] <= c[FieldOrder[m]]
    <2>1. CASE m = i
      BY <1>3, <2>1, FieldsAreNumbers
    <2>2. CASE m \in 1 .. i - 1
      BY <1>3, <1>6, <2>2, FieldsAreNumbers
    <2>3. 1 <= m
      BY <1>6, FiltersAssumption
    <2> QED
      BY <1>6, <2>1, <2>2, <2>3
  <1>11. c[FieldOrder[m]] > best(m)
    BY <1>2, <1>6, <1>7, <1>10, FieldsAreNumbers
  <1> QED
    BY <1>6, <1>9, <1>11 DEF Skipped, best

\* A release that is worse than one the library has or a task downloads is
\* only taken as a newer version of its group's.
LEMMA RankedWell ==
    ASSUME FltInv, Rank, NEW c \in pass'.batch, NEW k \in Range(pass.rows) \union active, Before(k, c)
    PROVE  \E o \in Range(pass.rows) \union active : o.fansub = c.fansub /\ o.version < c.version
  <1> DEFINE there == Range(pass.rows) \union active
  <1>1. there \subseteq Variants
    BY RangeOfSeq DEF FltInv
  <1>2. c \in Prioritized(pass.batch, there)
    BY DEF Rank, FltInv
  <1>3. c \in pass.batch /\ c \in Variants
    BY <1>2 DEF Prioritized, BestOf, FltInv
  <1> HIDE DEF there
  <1>4. k \in there
    BY DEF there
  <1>5. Skipped(c, there)
    BY <1>1, <1>3, <1>4, BehindIsSkipped
  <1>6. Upgrade(c, there)
    BY <1>2, <1>4, <1>5 DEF Prioritized, BestOf
  <1>7. PICK o \in there : o.fansub = c.fansub /\ c.version > o.version
    BY <1>6 DEF Upgrade
  <1>8. c.version \in Nat /\ o.version \in Nat
    BY <1>1, <1>3, <1>7, FiltersAssumption
  <1> QED
    BY <1>7, <1>8 DEF there

\* What is accepted has the name and version of nothing that is downloaded,
\* and the first row of its name, if there is one, is an older version.
LEMMA ComparedWell ==
    ASSUME FltInv, Compare, NEW c \in pass'.batch, c.season = NoSeason,
           NEW k \in Range(pass.rows) \union active, Stem(k) = Stem(c), k.version >= c.version
    PROVE  \E row \in Range(pass.rows) : RowStem(row) = Stem(c) /\ row.version < c.version
  <1>1. c \in DistinctStems(pass.batch, pass.rows)
    BY DEF Compare, FltInv
  <1>2. c \in Variants /\ ~BlockedByRows(c, pass.rows) /\ ~BlockedByActive(c)
    BY <1>1 DEF DistinctStems, FltInv
  <1>3. k \in Variants /\ Range(pass.rows) \subseteq Variants
    BY RangeOfSeq DEF FltInv
  <1>4. c.version \in Nat /\ \A v \in Variants : v.version \in Nat
    BY <1>2, FiltersAssumption
  <1>5. k \notin active
    BY <1>2, <1>3, <1>4 DEF BlockedByActive
  <1> DEFINE same == {i \in DOMAIN pass.rows : RowStem(pass.rows[i]) = Stem(c)}
  <1>6. same # {}
    <2>1. PICK i \in DOMAIN pass.rows : pass.rows[i] = k
      BY <1>5 DEF Range
    <2>2. RowStem(k) = Stem(c)
      BY DEF RowStem, Stem
    <2> QED
      BY <2>1, <2>2
  <1>7. same \subseteq Nat
    BY DEF FltInv
  <1>8. Min(same) \in same
    BY <1>6, <1>7, LeastNumber
  <1>9. ~(c.version <= pass.rows[Min(same)].version)
    BY <1>2, <1>6 DEF BlockedByRows
  <1> DEFINE row == pass.rows[Min(same)]
  <1>10. row \in Range(pass.rows) /\ RowStem(row) = Stem(c)
    BY <1>8 DEF Range
  <1>11. row.version < c.version
    BY <1>3, <1>4, <1>9, <1>10
  <1> QED
    BY <1>10, <1>11

\* A scan takes nothing that is worse than what there is already, and no file
\* name and version twice.
THEOREM AlwaysWellChosen == FltSpec => WellChosen
  <1> DEFINE Ranked == Rank =>
                 \A c \in pass'.batch, k \in Range(pass.rows) \union active :
                     Before(k, c) => \E o \in Range(pass.rows) \union active : o.fansub = c.fansub /\ o.version < c.version
             Compared == \A c \in pass'.batch : Compare /\ c.season = NoSeason =>
                 \A k \in Known \ {c} : Stem(k) = Stem(c) /\ k.version >= c.version =>
                     \/ k \notin Range(pass.rows) \union active
                     \/ \E row \in Range(pass.rows) : RowStem(row) = Stem(c) /\ row.version < c.version
  <1>1. FltInit => FltInv
    BY DEF FltInit, NoPass, FltInv
  <1>2. FltInv => [Ranked]_fltVars
    BY RankedWell
  <1>3. FltInv => [Compared]_fltVars
    BY ComparedWell
  <1> QED
    BY <1>1, <1>2, <1>3, FltStep, PTL DEF FltSpec, WellChosen, NeverWorse, OneFilePerVersion

------------------------------------------------------------------------------
(* The settings of the Python backend (Settings).                          *)

\* Values for all settings, with nothing left for a start to choose or remove.
Whole(s) == s = [n \in Names |-> s[n]]
Chosen(s) == s["parser"] # "unset" /\ s["feeds"] # "placeholder"
\* What a request will write without having been asked to is what memory
\* still has, or somebody asked for something else in the meantime.
StillRead(c) ==
    /\ backend = "serving" /\ request[c].ask \in Dialogs
    /\ \A n \in Written(request[c].ask) \ DOMAIN request[c].ask :
          request[c].read[n] = memory[n] \/ n \in doubtful
SetInv ==
    /\ Whole(memory) /\ Chosen(memory) /\ Whole(askedFor)
    /\ file = Torn \/ Whole(file)
    /\ live = [n \in Hot |-> live[n]]
    /\ request = [c \in Clients |-> request[c]]
    /\ \A c \in Clients : OnItsWay(c) => StillRead(c)
    /\ SettingsKept

\* A file the user writes has a value for every setting.
LEMMA WrittenByHandIsWhole ==
    ASSUME NEW s \in HandWritten
    PROVE  Whole(s)
  <1>1. s \in AllSettings
    BY SettingsAssumption
  <1> QED
    BY <1>1 DEF AllSettings, Whole, Names

\* A start chooses what was left open; nothing is left to choose after it.
LEMMA LoadedIsChosen ==
    ASSUME NEW s, Whole(s)
    PROVE  /\ Whole(Loaded(s)) /\ Chosen(Loaded(s))
           /\ Chosen(s) => Loaded(s) = s
  <1>1. /\ Loaded(s)["parser"] = IF s.parser = "unset" THEN (IF s.key THEN "llm" ELSE "regex") ELSE s.parser
        /\ Loaded(s)["feeds"] = IF s.feeds = "placeholder" THEN "none" ELSE s.feeds
    BY DEF Whole, Loaded, Names
  <1>2. DOMAIN Loaded(s) = Names /\ \A n \in Names \ {"parser", "feeds"} : Loaded(s)[n] = s[n]
    BY DEF Whole, Loaded, Names
  <1>3. Whole(Loaded(s))
    BY <1>2 DEF Whole, Loaded, Names
  <1>4. Chosen(Loaded(s))
    BY <1>1 DEF Chosen
  <1>5. ASSUME Chosen(s) PROVE Loaded(s) = s
    BY <1>1, <1>2, <1>3, <1>5 DEF Whole, Chosen
  <1> QED
    BY <1>3, <1>4, <1>5

\* A request writes what it asks for and, of the groups it touches, the rest;
\* never the subscriptions, and the parser only if it asks for one.
LEMMA WrittenNames ==
    ASSUME NEW ask \in Dialogs
    PROVE  /\ DOMAIN ask \subseteq Written(ask) /\ Written(ask) \subseteq Names \ {"feeds"}
           /\ "parser" \in Written(ask) => "parser" \in DOMAIN ask /\ ask["parser"] # "unset"
  <1>1. DOMAIN ask \subseteq UNION {SavedGroups[i] : i \in 1 .. 5} /\ ("parser" \in DOMAIN ask => ask["parser"] # "unset")
    BY SettingsAssumption
  <1>2. \A i \in 1 .. 5 : SavedGroups[i] \subseteq Names \ {"feeds"}
    <2>1. /\ SavedGroups[1] \subseteq Names \ {"feeds"} /\ SavedGroups[2] \subseteq Names \ {"feeds"}
          /\ SavedGroups[3] \subseteq Names \ {"feeds"} /\ SavedGroups[4] \subseteq Names \ {"feeds"}
          /\ SavedGroups[5] \subseteq Names \ {"feeds"}
      BY DEF SavedGroups, Names
    <2> QED
      BY <2>1
  <1>3. "parser" \notin SavedGroups[1] /\ "parser" \notin SavedGroups[2]
    BY DEF SavedGroups
  <1> QED
    BY <1>1, <1>2, <1>3 DEF Written

\* What a request writes: what it asks for, and the rest as memory has it
\* unless somebody asked for something else meanwhile.
LEMMA OutcomeOfRequest ==
    ASSUME SetInv, NEW ask \in Dialogs, NEW read,
           \A n \in Written(ask) \ DOMAIN ask : read[n] = memory[n] \/ n \in doubtful
    PROVE  /\ Whole(Outcome(ask, read)) /\ Chosen(Outcome(ask, read))
           /\ \A n \in DOMAIN ask : Outcome(ask, read)[n] = ask[n]
           /\ \A n \in Names \ Written(ask) : Outcome(ask, read)[n] = memory[n]
           /\ \A n \in Names \ DOMAIN ask : Outcome(ask, read)[n] = memory[n] \/ n \in doubtful
  <1>1. /\ \A n \in DOMAIN ask : Outcome(ask, read)[n] = ask[n]
        /\ \A n \in Names \ DOMAIN ask : Outcome(ask, read)[n] = IF n \in Written(ask) THEN read[n] ELSE memory[n]
    BY WrittenNames DEF Outcome, Put
  <1>2. Whole(Outcome(ask, read))
    BY DEF Outcome, Put, Whole
  <1>3. Chosen(Outcome(ask, read))
    <2>1. "parser" \in Names /\ "feeds" \in Names
      BY DEF Names
    <2> QED
      BY <1>1, <2>1, WrittenNames DEF Chosen, SetInv
  <1> QED
    BY <1>1, <1>2, <1>3, WrittenNames

\* So does what a request has saved when it is interrupted.
LEMMA HalfOfRequest ==
    ASSUME SetInv, NEW ask \in Dialogs, NEW read, NEW half \in HalfSaved(ask, read),
           \A n \in Written(ask) \ DOMAIN ask : read[n] = memory[n] \/ n \in doubtful
    PROVE  /\ Whole(half) /\ Chosen(half)
           /\ \A n \in Names \ DOMAIN ask : half[n] = memory[n] \/ n \in doubtful
  <1>1. PICK k \in Saves(ask) : half = SavedUpTo(ask, read, k)
    BY DEF HalfSaved
  <1> DEFINE saved == UNION {SavedGroups[i] : i \in 1 .. k}
  <1>2. half = [n \in Names |-> IF n \in saved THEN Outcome(ask, read)[n] ELSE memory[n]]
    BY <1>1 DEF SavedUpTo, Put
  <1> HIDE DEF saved
  <1>3. \A n \in Names : half[n] = Outcome(ask, read)[n] \/ half[n] = memory[n]
    BY <1>2
  <1>4. Whole(half)
    BY <1>2 DEF Whole
  <1>5. "parser" \in Names /\ "feeds" \in Names
    BY DEF Names
  <1> QED
    BY <1>3, <1>4, <1>5, OutcomeOfRequest DEF Chosen, SetInv

\* The one place where a request changes memory, the file and what is at work.
LEMMA WriteThroughKeeps ==
    ASSUME SetInv, backend = "serving", NEW c \in Clients, NEW ask \in Dialogs, NEW read, WriteThrough(c, ask, read),
           \A n \in Written(ask) \ DOMAIN ask : read[n] = memory[n] \/ n \in doubtful
    PROVE  SetInv'
  <1>1. /\ Whole(memory') /\ Chosen(memory')
        /\ \A n \in DOMAIN ask : memory'[n] = ask[n]
        /\ \A n \in Names \ Written(ask) : memory'[n] = memory[n]
        /\ \A n \in Names \ DOMAIN ask : memory'[n] = memory[n] \/ n \in doubtful
    BY OutcomeOfRequest DEF WriteThrough
  <1>2. backend' = backend /\ DOMAIN ask \subseteq Names
    BY WrittenNames DEF WriteThrough
  <1>3. /\ Whole(askedFor')
        /\ \A n \in DOMAIN ask : askedFor'[n] = ask[n]
        /\ \A n \in Names \ DOMAIN ask : askedFor'[n] = askedFor[n]
    BY <1>2 DEF WriteThrough, Put, Whole
  <1>4. file' = Torn \/ Whole(file')
    <2>1. file' \in {memory', file, Torn} \union HalfSaved(ask, read)
      BY DEF WriteThrough, SaveAll
    <2> QED
      BY <1>1, <2>1, HalfOfRequest DEF SetInv
  <1>5. /\ live' = [n \in Hot |-> live'[n]]
        /\ \A n \in Hot : live'[n] = memory'[n]
    <2>1. /\ live' = [n \in Hot |-> live'[n]]
          /\ \A n \in Hot : live'[n] = IF n \in Written(ask) THEN memory'[n] ELSE live[n]
      BY DEF WriteThrough
    <2>2. Hot \subseteq Names
      BY DEF Hot, Names
    <2> QED
      BY <1>1, <2>1, <2>2 DEF SetInv, SettingsKept
  <1>6. /\ request' = [d \in Clients |-> request'[d]]
        /\ \A d \in Clients : OnItsWay(d)' => d # c /\ OnItsWay(d) /\ request'[d] = request[d]
    BY DEF WriteThrough, OnItsWay, NoRequest, SetInv
  <1>7. \A n \in Names \ doubtful' : n \in DOMAIN ask \/ n \notin doubtful
    BY DEF WriteThrough
  <1>8. ASSUME NEW d \in Clients, OnItsWay(d)' PROVE StillRead(d)'
    <2>1. d # c /\ OnItsWay(d) /\ request'[d] = request[d] /\ StillRead(d)
      BY <1>6, <1>8 DEF SetInv
    <2>2. ASSUME NEW n \in Written(request[d].ask) \ DOMAIN request[d].ask
          PROVE  request[d].read[n] = memory'[n] \/ n \in doubtful'
      <3>1. n \in Names
        BY <2>1, WrittenNames DEF StillRead
      <3>2. CASE n \in DOMAIN ask
        BY <2>1, <3>2 DEF WriteThrough, OverwritesBeside
      <3>3. CASE n \notin DOMAIN ask
        BY <1>1, <2>1, <3>1, <3>3 DEF WriteThrough, StillRead
      <3> QED
        BY <3>2, <3>3
    <2> QED
      BY <1>2, <2>1, <2>2 DEF StillRead, Written
  <1>9. SettingsKept'
    <2>1. \A n \in Names \ doubtful' : memory'[n] = askedFor'[n]
      BY <1>1, <1>3, <1>7 DEF SetInv, SettingsKept
    <2>2. ~unsaved' => file' = memory'
      BY DEF WriteThrough, SaveAll
    <2>3. ~unsaved' => Loaded(file') = memory'
      BY <1>1, <2>2, LoadedIsChosen
    <2> QED
      BY <1>5, <2>1, <2>3 DEF SettingsKept, Loaded
  <1> QED
    BY <1>1, <1>3, <1>4, <1>5, <1>6, <1>8, <1>9 DEF SetInv, Whole, Chosen

\* A start takes over what the file has; with a torn file it is refused.
LEMMA StartKeeps ==
    ASSUME SetInv, StartBackend
    PROVE  SetInv'
  <1>1. \A c \in Clients : ~OnItsWay(c)
    BY DEF SetInv, StillRead, StartBackend
  <1>2. request' = request /\ doubtful' = doubtful
    BY DEF StartBackend
  <1>3. \A c \in Clients : ~OnItsWay(c)'
    BY <1>1, <1>2 DEF OnItsWay
  <1>4. CASE file = Torn
    <2>1. backend' = "refused" /\ UNCHANGED <<file, memory, live, askedFor, unsaved>>
      BY <1>4 DEF StartBackend
    <2> QED
      BY <1>2, <1>3, <2>1 DEF SetInv, Whole, Chosen, SettingsKept, Loaded
  <1>5. CASE file # Torn
    <2>1. /\ memory' = Loaded(file) /\ unsaved' = FALSE
          /\ file' = IF file.feeds = "placeholder" THEN memory' ELSE file
          /\ askedFor' = IF unsaved THEN memory' ELSE askedFor
          /\ live' = IF Fit(memory') THEN [n \in Hot |-> memory'[n]] ELSE live
          /\ backend' = IF Fit(memory') THEN "serving" ELSE "refused"
      BY <1>5 DEF StartBackend
    <2>2. Whole(memory') /\ Chosen(memory')
      BY <1>5, <2>1, LoadedIsChosen DEF SetInv
    <2>3. Loaded(file') = memory' /\ Whole(file')
      BY <1>5, <2>1, <2>2, LoadedIsChosen DEF SetInv
    <2>4. \A n \in Names \ doubtful' : memory'[n] = askedFor'[n]
      BY <1>2, <2>1 DEF SetInv, SettingsKept
    <2>5. Whole(askedFor')
      BY <2>1, <2>2 DEF SetInv
    <2>6. /\ live' = [n \in Hot |-> live'[n]]
          /\ backend' = "serving" => \A n \in Hot : live'[n] = memory'[n]
      BY <2>1 DEF SetInv
    <2>7. SettingsKept'
      BY <2>3, <2>4, <2>6 DEF SettingsKept
    <2> QED
      BY <1>2, <1>3, <2>2, <2>3, <2>5, <2>6, <2>7 DEF SetInv, Whole, Chosen
  <1> QED
    BY <1>4, <1>5

\* The user mends the file only while the backend refuses to start.
LEMMA WriteByHandKeeps ==
    ASSUME SetInv, NEW s \in HandWritten, WriteByHand(s)
    PROVE  SetInv'
  <1>1. \A c \in Clients : ~OnItsWay(c)'
    BY DEF SetInv, StillRead, WriteByHand, OnItsWay
  <1>2. Whole(file') /\ askedFor' = Loaded(file') /\ Whole(askedFor')
    BY WrittenByHandIsWhole, LoadedIsChosen DEF WriteByHand
  <1>3. SettingsKept'
    BY <1>2 DEF WriteByHand, SettingsKept
  <1> QED
    BY <1>1, <1>2, <1>3 DEF WriteByHand, SetInv, Whole, Chosen

\* A change of the subscriptions touches no other setting.
LEMMA EditFeedsKeeps ==
    ASSUME SetInv, NEW feeds \in {"none", "some"}, EditFeeds(feeds)
    PROVE  SetInv'
  <1>1. /\ "feeds" \in Names /\ "parser" \in Names /\ "feeds" \notin Hot /\ Hot \subseteq Names
    BY DEF Names, Hot
  <1>2. /\ memory' = [memory EXCEPT !["feeds"] = feeds] /\ askedFor' = [askedFor EXCEPT !["feeds"] = feeds]
        /\ UNCHANGED <<backend, live, request, doubtful>>
        /\ (file' = memory' /\ unsaved' = FALSE) \/ (file' \in {file, Torn} /\ unsaved' = TRUE)
    BY DEF EditFeeds, SaveAll
  <1>3. /\ Whole(memory') /\ Whole(askedFor')
        /\ memory'["feeds"] = feeds /\ askedFor'["feeds"] = feeds
        /\ \A n \in Names \ {"feeds"} : memory'[n] = memory[n] /\ askedFor'[n] = askedFor[n]
    BY <1>1, <1>2 DEF Whole, SetInv
  <1>4. Chosen(memory')
    BY <1>1, <1>3 DEF Chosen, SetInv
  <1>5. ASSUME NEW c \in Clients, OnItsWay(c)' PROVE StillRead(c)'
    <2>1. OnItsWay(c) /\ StillRead(c) /\ request'[c] = request[c]
      BY <1>2, <1>5 DEF OnItsWay, SetInv
    <2> QED
      BY <1>2, <1>3, <2>1, WrittenNames DEF StillRead, Written
  <1>6. SettingsKept'
    <2>1. backend = "serving"
      BY DEF EditFeeds
    <2>2. \A n \in Names \ doubtful' : memory'[n] = askedFor'[n]
      BY <1>2, <1>3, <2>1 DEF SetInv, SettingsKept
    <2>3. \A n \in Hot : live'[n] = memory'[n]
      BY <1>1, <1>2, <1>3, <2>1 DEF SetInv, SettingsKept
    <2>4. ~unsaved' => Loaded(file') = memory'
      BY <1>2, <1>3, <1>4, LoadedIsChosen
    <2> QED
      BY <2>2, <2>3, <2>4 DEF SettingsKept
  <1> QED
    BY <1>2, <1>3, <1>4, <1>5, <1>6 DEF SetInv, Whole, Chosen

\* A request that asks for neither address nor directory is written at once.
LEMMA OpenDialogKeeps ==
    ASSUME SetInv, NEW c \in Clients, NEW ask \in Dialogs, OpenDialog(c, ask)
    PROVE  SetInv'
  <1>1. CASE DOMAIN ask \intersect {"url", "path"} = {}
    <2>1. WriteThrough(c, ask, memory) /\ backend = "serving"
      BY <1>1 DEF OpenDialog
    <2> QED
      BY <2>1, WriteThroughKeeps
  <1>2. CASE DOMAIN ask \intersect {"url", "path"} # {}
    <2>1. /\ request' = [request EXCEPT ![c] = [at |-> IF "url" \in DOMAIN ask THEN "url" ELSE "path",
                                                ask |-> ask, read |-> memory]]
          /\ UNCHANGED <<backend, file, memory, live, askedFor, doubtful, unsaved>> /\ backend = "serving"
      BY <1>2 DEF OpenDialog
    <2>2. ASSUME NEW d \in Clients, OnItsWay(d)' PROVE StillRead(d)'
      <3>1. CASE d = c
        <4>1. request'[c].ask = ask /\ request'[c].read = memory
          BY <2>1 DEF SetInv
        <4> QED
          BY <2>1, <3>1, <4>1 DEF StillRead, Written
      <3>2. CASE d # c
        <4>1. request'[d] = request[d] /\ OnItsWay(d) /\ StillRead(d)
          BY <2>1, <2>2, <3>2 DEF SetInv, OnItsWay
        <4> QED
          BY <2>1, <4>1 DEF StillRead, Written
      <3> QED
        BY <3>1, <3>2
    <2>3. SettingsKept'
      BY <2>1 DEF SetInv, SettingsKept, Loaded
    <2> QED
      BY <2>1, <2>2, <2>3 DEF SetInv, Whole, Chosen
  <1> QED
    BY <1>1, <1>2

\* Requests that go on or end, and nothing else.
LEMMA RequestsKeep ==
    ASSUME SetInv, UNCHANGED <<file, memory, live, askedFor, doubtful, unsaved>>,
           request' = [c \in Clients |-> request'[c]],
           \A c \in Clients : OnItsWay(c)' => /\ OnItsWay(c) /\ backend' = backend
                                              /\ request'[c].ask = request[c].ask
                                              /\ request'[c].read = request[c].read,
           backend' = backend \/ backend' # "serving"
    PROVE  SetInv'
  <1>1. ASSUME NEW c \in Clients, OnItsWay(c)' PROVE StillRead(c)'
    <2>1. /\ StillRead(c) /\ backend' = backend
          /\ request'[c].ask = request[c].ask /\ request'[c].read = request[c].read
      BY <1>1 DEF SetInv
    <2> QED
      BY <2>1 DEF StillRead, Written
  <1>2. SettingsKept'
    BY DEF SetInv, SettingsKept, Loaded
  <1> QED
    BY <1>1, <1>2 DEF SetInv, Whole, Chosen

\* A process killed between two saves leaves a file of whole groups, or a torn one.
LEMMA KillWhileSavingKeeps ==
    ASSUME SetInv, NEW c \in Clients, KillWhileSaving(c)
    PROVE  SetInv'
  <1> DEFINE ask == request[c].ask
             read == request[c].read
  <1>1. /\ request[c].at = "path" /\ backend' = "down" /\ request' = NoRequests
        /\ file' \in {Torn} \union HalfSaved(ask, read)
        /\ unsaved' = (file' = Torn) /\ doubtful' = doubtful \union DOMAIN ask
        /\ UNCHANGED <<memory, live, askedFor>>
    BY DEF KillWhileSaving
  <1>2. /\ ask \in Dialogs /\ backend = "serving"
        /\ \A n \in Written(ask) \ DOMAIN ask : read[n] = memory[n] \/ n \in doubtful
    BY <1>1 DEF SetInv, OnItsWay, StillRead
  <1>3. \A d \in Clients : ~OnItsWay(d)'
    BY <1>1 DEF OnItsWay, NoRequests, NoRequest
  <1> HIDE DEF ask, read
  <1>4. file' # Torn => /\ Whole(file') /\ Chosen(file')
                        /\ \A n \in Names \ DOMAIN ask : file'[n] = memory[n] \/ n \in doubtful
    BY <1>1, <1>2, HalfOfRequest
  <1>5. file' # Torn => Loaded(file') = file'
    BY <1>4, LoadedIsChosen
  <1>6. SettingsKept'
    BY <1>1, <1>2, <1>4, <1>5 DEF SetInv, SettingsKept
  <1>7. request' = [d \in Clients |-> request'[d]]
    BY <1>1 DEF NoRequests
  <1> QED
    BY <1>1, <1>3, <1>4, <1>6, <1>7 DEF SetInv, Whole, Chosen

\* What was asked for last is in memory and at work, and the next start reads
\* it, however requests overlap, saves fail and the process is killed, but for
\* what another request overwrote and for a save the log calls failed.
THEOREM SettingsAlwaysKept == SetSpec => []SettingsKept
  <1>1. SetInit => SetInv
    <2> SUFFICES ASSUME SetInit PROVE SetInv
      OBVIOUS
    <2>1. Whole(file) /\ Whole(memory) /\ Chosen(memory) /\ memory = Loaded(file)
      BY WrittenByHandIsWhole, LoadedIsChosen DEF SetInit
    <2>2. SettingsKept
      BY <2>1 DEF SetInit, SettingsKept
    <2>3. request = [c \in Clients |-> request[c]] /\ \A c \in Clients : ~OnItsWay(c)
      BY DEF SetInit, NoRequests, NoRequest, OnItsWay
    <2> QED
      BY <2>1, <2>2, <2>3 DEF SetInit, SetInv
  <1>2. SetInv /\ [SetNext]_setVars => SetInv'
    <2> SUFFICES ASSUME SetInv, [SetNext]_setVars PROVE SetInv'
      OBVIOUS
    <2>1. CASE StartBackend
      BY <2>1, StartKeeps
    <2>2. CASE Kill
      <3>1. /\ request' = [c \in Clients |-> request'[c]] /\ \A c \in Clients : ~OnItsWay(c)'
        BY <2>2 DEF Kill, OnItsWay, NoRequests, NoRequest
      <3> QED
        BY <2>2, <3>1, RequestsKeep DEF Kill
    <2>3. CASE \E s \in HandWritten : WriteByHand(s)
      BY <2>3, WriteByHandKeeps
    <2>4. CASE \E feeds \in {"none", "some"} : EditFeeds(feeds)
      BY <2>4, EditFeedsKeeps
    <2>5. ASSUME NEW c \in Clients, \E ask \in Dialogs : OpenDialog(c, ask) PROVE SetInv'
      BY <2>5, OpenDialogKeeps
    <2>6. ASSUME NEW c \in Clients, AddressHolds(c) PROVE SetInv'
      <3>1. /\ request' = [d \in Clients |-> request'[d]]
            /\ \A d \in Clients : OnItsWay(d)' => /\ OnItsWay(d) /\ request'[d].ask = request[d].ask
                                                  /\ request'[d].read = request[d].read
        BY <2>6 DEF AddressHolds, OnItsWay, SetInv
      <3> QED
        BY <2>6, <3>1, RequestsKeep DEF AddressHolds
    <2>7. ASSUME NEW c \in Clients, DirectoryHolds(c) PROVE SetInv'
      <3>1. OnItsWay(c) /\ WriteThrough(c, request[c].ask, request[c].read)
        BY <2>7 DEF DirectoryHolds, OnItsWay
      <3>2. StillRead(c)
        BY <3>1 DEF SetInv
      <3> QED
        BY <3>1, <3>2, WriteThroughKeeps DEF StillRead
    <2>8. ASSUME NEW c \in Clients, RefuseDialog(c) PROVE SetInv'
      <3>1. /\ request' = [d \in Clients |-> request'[d]]
            /\ \A d \in Clients : OnItsWay(d)' => /\ OnItsWay(d) /\ request'[d].ask = request[d].ask
                                                  /\ request'[d].read = request[d].read
        BY <2>8 DEF RefuseDialog, OnItsWay, SetInv, NoRequest
      <3> QED
        BY <2>8, <3>1, RequestsKeep DEF RefuseDialog
    <2>9. ASSUME NEW c \in Clients, KillWhileSaving(c) PROVE SetInv'
      BY <2>9, KillWhileSavingKeeps
    <2>10. CASE UNCHANGED setVars
      <3>1. \A c \in Clients : OnItsWay(c)' => OnItsWay(c) /\ request'[c] = request[c]
        BY <2>10 DEF setVars, OnItsWay
      <3> QED
        BY <2>10, <3>1, RequestsKeep DEF setVars, SetInv
    <2> QED
      BY <2>1, <2>2, <2>3, <2>4, <2>5, <2>6, <2>7, <2>8, <2>9, <2>10 DEF SetNext
  <1>3. SetInv => SettingsKept
    BY DEF SetInv
  <1> QED
    BY <1>1, <1>2, <1>3, PTL DEF SetSpec

------------------------------------------------------------------------------
(* The mapping of seasons and episodes (MetadataValidation).               *)

------------------------------------------------------------------------------
\* The recursion of Running has a solution, and so computes it.
LEMMA RunningSums ==
    ASSUME NEW c \in Seq(Nat)
    PROVE  /\ Running(c) \in [0 .. Len(c) -> Nat]
           /\ Running(c)[0] = 0
           /\ \A n \in 1 .. Len(c) : Running(c)[n] = Running(c)[n - 1] + c[n]
  <1> DEFINE Sums(f, top) == f = [n \in 0 .. top |-> IF n = 0 THEN 0 ELSE f[n - 1] + c[n]]
             Solved == {top \in 0 .. Len(c) : \E f \in [0 .. top -> Nat] : Sums(f, top)}
  <1>0. Len(c) \in Nat /\ \A n \in 1 .. Len(c) : c[n] \in Nat
    OBVIOUS
  <1>1. 0 \in Solved
    <2> DEFINE f == [n \in 0 .. 0 |-> 0]
    <2>1. f \in [0 .. 0 -> Nat]
      OBVIOUS
    <2>2. Sums(f, 0)
      OBVIOUS
    <2>3. 0 \in 0 .. Len(c)
      BY <1>0
    <2> HIDE DEF Sums, f
    <2> QED
      BY <2>1, <2>2, <2>3, Zenon
  <1>2. ASSUME NEW top \in 0 .. Len(c), top \in Solved, top < Len(c)
        PROVE  top + 1 \in Solved
    <2>1. PICK f \in [0 .. top -> Nat] : Sums(f, top)
      BY <1>2
    <2> DEFINE g == [n \in 0 .. top + 1 |-> IF n = top + 1 THEN f[top] + c[n] ELSE f[n]]
    <2>2. g \in [0 .. top + 1 -> Nat]
      BY <1>0, <1>2
    <2>3. \A n \in 0 .. top : f[n] = IF n = 0 THEN 0 ELSE f[n - 1] + c[n]
      BY <2>1
    <2>4. \A n \in 0 .. top + 1 : g[n] = IF n = 0 THEN 0 ELSE g[n - 1] + c[n]
      BY <2>3
    <2>5. Sums(g, top + 1)
      BY <2>2, <2>4
    <2>6. top + 1 \in 0 .. Len(c)
      BY <1>0, <1>2
    <2> HIDE DEF Sums, g
    <2> QED
      BY <2>2, <2>5, <2>6, Zenon
  <1>3. Len(c) \in Solved
    <2> HIDE DEF Solved
    <2>1. \A n \in 0 .. Len(c) : n \in Solved /\ n < Len(c) => n + 1 \in Solved
      BY <1>2
    <2>2. 0 .. Len(c) \subseteq Solved
      BY <1>0, <1>1, <2>1, AllNumbers, Zenon
    <2> QED
      BY <1>0, <2>2
  <1>4. PICK f \in [0 .. Len(c) -> Nat] : Sums(f, Len(c))
    BY <1>3
  <1> DEFINE Solution(g) == g = [n \in 0 .. Len(c) |-> IF n = 0 THEN 0 ELSE g[n - 1] + c[n]]
  <1>5. Running(c) = CHOOSE g : Solution(g)
    BY DEF Running
  <1>6. Solution(Running(c))
    <2>1. Solution(f)
      BY <1>4
    <2> HIDE DEF Solution
    <2> QED
      BY <2>1, <1>5, Zenon
  <1>7. \A n \in 0 .. Len(c) : Running(c)[n] = IF n = 0 THEN 0 ELSE Running(c)[n - 1] + c[n]
    BY <1>6
  <1>8. DOMAIN Running(c) = 0 .. Len(c) /\ Running(c) = [n \in DOMAIN Running(c) |-> Running(c)[n]]
    BY <1>6
  <1>9. Running(c)[0] = 0 /\ \A n \in 1 .. Len(c) : Running(c)[n] = Running(c)[n - 1] + c[n]
    BY <1>0, <1>7
  <1>10. \A n \in 0 .. Len(c) : Running(c)[n] \in Nat
    <2> DEFINE T == {n \in 0 .. Len(c) : Running(c)[n] \in Nat}
    <2>1. 0 \in T
      BY <1>0, <1>9
    <2>2. ASSUME NEW n \in 0 .. Len(c), n \in T, n < Len(c) PROVE n + 1 \in T
      <3>1. n + 1 \in 1 .. Len(c) /\ n + 1 - 1 = n
        BY <2>2
      <3>2. Running(c)[n + 1] = Running(c)[n] + c[n + 1]
        BY <3>1, <1>9
      <3> QED
        BY <2>2, <3>1, <3>2, <1>0
    <2>3. 0 .. Len(c) \subseteq T
      <3> HIDE DEF T
      <3> QED
        BY <1>0, <2>1, <2>2, AllNumbers
    <2> QED
      BY <2>3
  <1> QED
    BY <1>8, <1>9, <1>10

LEMMA RunningGrows ==
    ASSUME NEW c \in Seq(Nat), NEW i \in 0 .. Len(c), NEW j \in 0 .. Len(c), i <= j
    PROVE  Running(c)[i] <= Running(c)[j]
  <1>0. Len(c) \in Nat /\ \A n \in 1 .. Len(c) : c[n] \in Nat
    OBVIOUS
  <1> DEFINE T == {k \in 0 .. Len(c) - i : Running(c)[i] <= Running(c)[i + k]}
  <1>1. \A n \in 0 .. Len(c) : Running(c)[n] \in Nat
    BY RunningSums
  <1>2. 0 \in T
    BY <1>0, <1>1
  <1>3. ASSUME NEW k \in 0 .. Len(c) - i, k \in T, k < Len(c) - i PROVE k + 1 \in T
    <2>1. i + k + 1 \in 1 .. Len(c) /\ i + k \in 0 .. Len(c)
      BY <1>0, <1>3
    <2>2. Running(c)[i + k + 1] = Running(c)[i + k + 1 - 1] + c[i + k + 1]
      BY <2>1, RunningSums
    <2>3. i + k + 1 - 1 = i + k /\ i + (k + 1) = i + k + 1
      OBVIOUS
    <2>4. Running(c)[i] <= Running(c)[i + k + 1]
      BY <1>0, <1>1, <1>3, <2>1, <2>2, <2>3
    <2> QED
      BY <1>3, <2>3, <2>4
  <1>4. Len(c) - i \in Nat /\ j - i \in 0 .. Len(c) - i /\ i + (j - i) = j
    BY <1>0
  <1>5. 0 .. Len(c) - i \subseteq T
    <2> HIDE DEF T
    <2> QED
      BY <1>2, <1>3, <1>4, AllNumbers
  <1> QED
    BY <1>4, <1>5

\* A number is in one of the intervals that the sums bound.
LEMMA RunningApart ==
    ASSUME NEW c \in Seq(Nat), NEW i \in 1 .. Len(c), NEW j \in 1 .. Len(c), NEW x \in Nat,
           Running(c)[i - 1] < x, x <= Running(c)[i], Running(c)[j - 1] < x, x <= Running(c)[j]
    PROVE  i = j
  <1>0. Len(c) \in Nat
    OBVIOUS
  <1>1. \A n \in 0 .. Len(c) : Running(c)[n] \in Nat
    BY RunningSums
  <1>2. ASSUME i < j PROVE FALSE
    <2>1. j - 1 \in 0 .. Len(c) /\ i \in 0 .. Len(c) /\ i <= j - 1
      BY <1>0, <1>2
    <2>2. Running(c)[i] <= Running(c)[j - 1]
      BY <2>1, RunningGrows
    <2> QED
      BY <1>1, <2>1, <2>2
  <1>3. ASSUME j < i PROVE FALSE
    <2>1. i - 1 \in 0 .. Len(c) /\ j \in 0 .. Len(c) /\ j <= i - 1
      BY <1>0, <1>3
    <2>2. Running(c)[j] <= Running(c)[i - 1]
      BY <2>1, RunningGrows
    <2>3. Running(c)[i - 1] < x /\ x <= Running(c)[j]
      OBVIOUS
    <2>4. Running(c)[i - 1] \in Nat /\ Running(c)[j] \in Nat
      BY <1>1, <2>1
    <2> QED
      BY <1>1, <2>1, <2>2, <2>3, <2>4
  <1> QED
    BY <1>2, <1>3

------------------------------------------------------------------------------
\* What a show lists: counts of seasons, and cours one after the other.
Counts(w) == [t \in DOMAIN w.cours |-> EpisodeCount(w, t)]
CourCounts(w, unlisted) == [s \in DOMAIN w.cours |-> Len(CoursOf(w, unlisted, s))]

LEMMA ShowIs ==
    ASSUME NEW w \in Shows
    PROVE  /\ Len(w.cours) \in Nat /\ DOMAIN w.cours = 1 .. Len(w.cours) /\ w.specials \in Nat
           /\ \A s \in DOMAIN w.cours : w.cours[s] \in Seq(Nat \ {0}) /\ w.cours[s] \in Seq(Nat)
                                        /\ DOMAIN w.cours[s] = 1 .. Len(w.cours[s]) /\ Len(w.cours[s]) \in Nat
  <1>1. w.cours \in Seq(Seq(Nat \ {0})) /\ w.specials \in Nat
    BY ValidationAssumption
  <1>2. \A s \in DOMAIN w.cours : w.cours[s] \in Seq(Nat \ {0})
    BY <1>1
  <1>3. ASSUME NEW q \in Seq(Nat \ {0})
        PROVE  q \in Seq(Nat) /\ DOMAIN q = 1 .. Len(q) /\ Len(q) \in Nat
    BY <1>3
  <1> QED
    BY <1>1, <1>2, <1>3

LEMMA CountsAre ==
    ASSUME NEW w \in Shows
    PROVE  /\ Counts(w) \in Seq(Nat) /\ Len(Counts(w)) = Len(w.cours)
           /\ \A s \in DOMAIN w.cours : EpisodeCount(w, s) \in Nat /\ Counts(w)[s] = EpisodeCount(w, s)
           /\ \A s \in 0 .. Len(w.cours) : Running(Counts(w))[s] \in Nat
           /\ \A s \in DOMAIN w.cours : EpisodesBefore(w, s) = Running(Counts(w))[s - 1]
                                        /\ EpisodesBefore(w, s + 1) = Running(Counts(w))[s]
                                        /\ EpisodesBefore(w, s) \in Nat
                                        /\ EpisodesBefore(w, s + 1) = EpisodesBefore(w, s) + EpisodeCount(w, s)
           /\ EpisodesBefore(w, 1) = 0
  <1>1. \A s \in DOMAIN w.cours : EpisodeCount(w, s) \in Nat
    <2> TAKE s \in DOMAIN w.cours
    <2>1. w.cours[s] \in Seq(Nat) /\ Len(w.cours[s]) \in 0 .. Len(w.cours[s])
      BY ShowIs
    <2>2. Running(w.cours[s]) \in [0 .. Len(w.cours[s]) -> Nat]
      BY <2>1, RunningSums
    <2> QED
      BY <2>1, <2>2 DEF EpisodeCount
  <1>2. Counts(w) \in Seq(Nat) /\ Len(Counts(w)) = Len(w.cours)
    <2>1. Counts(w) \in [1 .. Len(w.cours) -> Nat] /\ Len(w.cours) \in Nat
      BY <1>1, ShowIs DEF Counts
    <2> QED
      BY <2>1
  <1>3. \A s \in DOMAIN w.cours : Counts(w)[s] = EpisodeCount(w, s)
    BY DEF Counts
  <1>4. \A t : EpisodesBefore(w, t) = Running(Counts(w))[t - 1]
    BY DEF EpisodesBefore, Counts
  <1>5. /\ \A s \in 0 .. Len(w.cours) : Running(Counts(w))[s] \in Nat
        /\ Running(Counts(w))[0] = 0
        /\ \A s \in 1 .. Len(w.cours) : Running(Counts(w))[s] = Running(Counts(w))[s - 1] + Counts(w)[s]
    BY <1>2, RunningSums
  <1>6. EpisodesBefore(w, 1) = 0
    BY <1>4, <1>5
  <1>7. \A s \in DOMAIN w.cours : /\ EpisodesBefore(w, s) = Running(Counts(w))[s - 1]
                                  /\ EpisodesBefore(w, s + 1) = Running(Counts(w))[s]
                                  /\ s \in 1 .. Len(w.cours) /\ s - 1 \in 0 .. Len(w.cours)
    <2> TAKE s \in DOMAIN w.cours
    <2>1. s \in 1 .. Len(w.cours) /\ s - 1 \in 0 .. Len(w.cours) /\ s + 1 - 1 = s
      BY ShowIs
    <2> QED
      BY <1>4, <2>1
  <1>8. \A s \in DOMAIN w.cours : EpisodesBefore(w, s) \in Nat
                                  /\ EpisodesBefore(w, s + 1) = EpisodesBefore(w, s) + EpisodeCount(w, s)
    <2> TAKE s \in DOMAIN w.cours
    <2> QED
      BY <1>3, <1>5, <1>7
  <1> QED
    BY <1>1, <1>2, <1>3, <1>5, <1>6, <1>7, <1>8

\* The episodes of all seasons, counted through, belong to one season each.
LEMMA SeasonsApart ==
    ASSUME NEW w \in Shows, NEW s \in DOMAIN w.cours, NEW t \in DOMAIN w.cours, NEW e \in Nat,
           EpisodesBefore(w, s) < e, e <= EpisodesBefore(w, s + 1),
           EpisodesBefore(w, t) < e, e <= EpisodesBefore(w, t + 1)
    PROVE  s = t
  <1>1. s \in 1 .. Len(Counts(w)) /\ t \in 1 .. Len(Counts(w)) /\ Counts(w) \in Seq(Nat)
    BY CountsAre, ShowIs
  <1>2. /\ Running(Counts(w))[s - 1] < e /\ e <= Running(Counts(w))[s]
        /\ Running(Counts(w))[t - 1] < e /\ e <= Running(Counts(w))[t]
    BY CountsAre
  <1> QED
    BY <1>1, <1>2, RunningApart

\* A cour lies within its season.
LEMMA CourIs ==
    ASSUME NEW w \in Shows, NEW unlisted, NEW s \in DOMAIN w.cours
    PROVE  /\ Len(CoursOf(w, unlisted, s)) \in Nat
           /\ DOMAIN CoursOf(w, unlisted, s) = 1 .. Len(CoursOf(w, unlisted, s))
           /\ \A i \in DOMAIN CoursOf(w, unlisted, s) :
                LET c == CoursOf(w, unlisted, s)[i]
                IN c.season = s /\ c.from \in Nat \ {0} /\ c.to \in Nat /\ c.to <= EpisodeCount(w, s)
  <1> DEFINE lengths == w.cours[s]
  <1>1. lengths \in Seq(Nat) /\ DOMAIN lengths = 1 .. Len(lengths) /\ Len(lengths) \in Nat
    BY ShowIs
  <1>2. EpisodeCount(w, s) \in Nat
    BY CountsAre
  <1>3. CASE s \in unlisted /\ w.cours[s] # <<>>
    <2>1. CoursOf(w, unlisted, s) = <<[season |-> s, from |-> 1, to |-> EpisodeCount(w, s)]>>
      BY <1>3 DEF CoursOf
    <2> QED
      BY <1>2, <2>1
  <1>4. CASE ~(s \in unlisted /\ w.cours[s] # <<>>)
    <2>1. CoursOf(w, unlisted, s) = DetectedCours(w, s)
      BY <1>4, Zenon DEF CoursOf
    <2>2. DetectedCours(w, s) =
            [i \in 1 .. Len(lengths) |-> [season |-> s, from |-> Running(lengths)[i - 1] + 1, to |-> Running(lengths)[i]]]
      BY <1>1 DEF DetectedCours
    <2>3. Len(DetectedCours(w, s)) = Len(lengths) /\ DOMAIN DetectedCours(w, s) = 1 .. Len(lengths)
      BY <1>1, <2>2
    <2>4. ASSUME NEW i \in 1 .. Len(lengths)
          PROVE  /\ Running(lengths)[i - 1] + 1 \in Nat \ {0} /\ Running(lengths)[i] \in Nat
                 /\ Running(lengths)[i] <= EpisodeCount(w, s)
      <3>1. i - 1 \in 0 .. Len(lengths) /\ i \in 0 .. Len(lengths) /\ Len(lengths) \in 0 .. Len(lengths) /\ i <= Len(lengths)
        BY <1>1
      <3>2. Running(lengths)[i] <= Running(lengths)[Len(lengths)]
        BY <1>1, <3>1, RunningGrows
      <3>3. Running(lengths) \in [0 .. Len(lengths) -> Nat]
        BY <1>1, RunningSums
      <3>4. Running(lengths)[i - 1] \in Nat /\ Running(lengths)[i] \in Nat
        BY <3>1, <3>3
      <3> QED
        BY <3>2, <3>4 DEF EpisodeCount
    <2> HIDE DEF lengths
    <2> QED
      BY <1>1, <2>1, <2>2, <2>3, <2>4
  <1> QED
    BY <1>3, <1>4

LEMMA CourCountsAre ==
    ASSUME NEW w \in Shows, NEW unlisted
    PROVE  /\ CourCounts(w, unlisted) \in Seq(Nat) /\ Len(CourCounts(w, unlisted)) = Len(w.cours)
           /\ \A s \in DOMAIN w.cours : CourCounts(w, unlisted)[s] = Len(CoursOf(w, unlisted, s))
  <1>1. CourCounts(w, unlisted) \in [1 .. Len(w.cours) -> Nat] /\ Len(w.cours) \in Nat
    BY CourIs, ShowIs DEF CourCounts
  <1> QED
    BY <1>1 DEF CourCounts

\* Every cour of the list has its season and its place there.
LEMMA CourFound ==
    ASSUME NEW w \in Shows, NEW unlisted, NEW g \in GlobalCours(w, unlisted)
    PROVE  \E s \in DOMAIN w.cours : \E i \in 1 .. Len(CoursOf(w, unlisted, s)) :
              /\ g.cour = CoursOf(w, unlisted, s)[i] /\ g.number = Running(CourCounts(w, unlisted))[s - 1] + i
              /\ g = [number |-> g.number, cour |-> g.cour]
              /\ g.cour.season = s /\ g.cour.from \in Nat \ {0} /\ g.cour.to \in Nat /\ g.cour.to <= EpisodeCount(w, s)
              /\ g.number \in Nat
              /\ Running(CourCounts(w, unlisted))[s - 1] < g.number
              /\ g.number <= Running(CourCounts(w, unlisted))[s]
  <1>0. PICK s \in DOMAIN w.cours : \E i \in DOMAIN CoursOf(w, unlisted, s) :
           g = [number |-> Running(CourCounts(w, unlisted))[s - 1] + i, cour |-> CoursOf(w, unlisted, s)[i]]
    BY DEF GlobalCours, CourCounts
  <1>1. PICK i \in DOMAIN CoursOf(w, unlisted, s) :
           g = [number |-> Running(CourCounts(w, unlisted))[s - 1] + i, cour |-> CoursOf(w, unlisted, s)[i]]
    BY <1>0
  <1>2. /\ i \in 1 .. Len(CoursOf(w, unlisted, s)) /\ Len(CoursOf(w, unlisted, s)) \in Nat
        /\ g.cour.season = s /\ g.cour.from \in Nat \ {0} /\ g.cour.to \in Nat /\ g.cour.to <= EpisodeCount(w, s)
    BY <1>1, CourIs
  <1>3. s \in 1 .. Len(CourCounts(w, unlisted)) /\ CourCounts(w, unlisted) \in Seq(Nat)
        /\ CourCounts(w, unlisted)[s] = Len(CoursOf(w, unlisted, s))
    BY ShowIs, CourCountsAre
  <1>4. s - 1 \in 0 .. Len(CourCounts(w, unlisted))
    BY <1>3
  <1>5. /\ Running(CourCounts(w, unlisted))[s] =
             Running(CourCounts(w, unlisted))[s - 1] + Len(CoursOf(w, unlisted, s))
        /\ Running(CourCounts(w, unlisted))[s - 1] \in Nat
    BY <1>3, <1>4, RunningSums
  <1> QED
    BY <1>1, <1>2, <1>5

LEMMA CourByNumber ==
    ASSUME NEW w \in Shows, NEW unlisted,
           NEW g \in GlobalCours(w, unlisted), NEW h \in GlobalCours(w, unlisted), g.number = h.number
    PROVE  g = h
  <1>10. PICK s \in DOMAIN w.cours : \E i \in 1 .. Len(CoursOf(w, unlisted, s)) :
              /\ g.cour = CoursOf(w, unlisted, s)[i] /\ g.number = Running(CourCounts(w, unlisted))[s - 1] + i
              /\ g = [number |-> g.number, cour |-> g.cour] /\ g.number \in Nat
              /\ Running(CourCounts(w, unlisted))[s - 1] < g.number
              /\ g.number <= Running(CourCounts(w, unlisted))[s]
    BY CourFound, Zenon
  <1>1. PICK i \in 1 .. Len(CoursOf(w, unlisted, s)) :
              /\ g.cour = CoursOf(w, unlisted, s)[i] /\ g.number = Running(CourCounts(w, unlisted))[s - 1] + i
              /\ g = [number |-> g.number, cour |-> g.cour] /\ g.number \in Nat
              /\ Running(CourCounts(w, unlisted))[s - 1] < g.number
              /\ g.number <= Running(CourCounts(w, unlisted))[s]
    BY <1>10
  <1>20. PICK t \in DOMAIN w.cours : \E j \in 1 .. Len(CoursOf(w, unlisted, t)) :
              /\ h.cour = CoursOf(w, unlisted, t)[j] /\ h.number = Running(CourCounts(w, unlisted))[t - 1] + j
              /\ h = [number |-> h.number, cour |-> h.cour]
              /\ Running(CourCounts(w, unlisted))[t - 1] < h.number
              /\ h.number <= Running(CourCounts(w, unlisted))[t]
    BY CourFound, Zenon
  <1>2. PICK j \in 1 .. Len(CoursOf(w, unlisted, t)) :
              /\ h.cour = CoursOf(w, unlisted, t)[j] /\ h.number = Running(CourCounts(w, unlisted))[t - 1] + j
              /\ h = [number |-> h.number, cour |-> h.cour]
              /\ Running(CourCounts(w, unlisted))[t - 1] < h.number
              /\ h.number <= Running(CourCounts(w, unlisted))[t]
    BY <1>20
  <1>3. /\ s \in 1 .. Len(CourCounts(w, unlisted)) /\ t \in 1 .. Len(CourCounts(w, unlisted))
        /\ CourCounts(w, unlisted) \in Seq(Nat)
    BY ShowIs, CourCountsAre
  <1>4. s = t
    BY <1>1, <1>2, <1>3, RunningApart
  <1>5. s - 1 \in 0 .. Len(CourCounts(w, unlisted))
    BY <1>3
  <1>6. Running(CourCounts(w, unlisted))[s - 1] \in Nat /\ Len(CoursOf(w, unlisted, s)) \in Nat
    BY <1>3, <1>5, RunningSums, CourIs
  <1>7. i = j
    BY <1>1, <1>2, <1>4, <1>6
  <1> QED
    BY <1>1, <1>2, <1>4, <1>7

------------------------------------------------------------------------------
\* The mapper looks at nothing but the numbers.
LEMMA SameNumbers ==
    ASSUME NEW w, NEW r, NEW q, NEW unlisted, r.season = q.season, r.episode = q.episode
    PROVE  Mapped(w, r, unlisted) = Mapped(w, q, unlisted)
  <1>1. Direct(w, r) = Direct(w, q) /\ Special(w, r) = Special(w, q) /\ (IsSpecial(r) <=> IsSpecial(q))
    BY DEF Direct, Special, IsSpecial
  <1>2. Absolute(w, r) = Absolute(w, q)
    BY DEF Absolute
  <1>3. CourNumbered(w, r, unlisted) = CourNumbered(w, q, unlisted)
    BY DEF CourNumbered
  <1>4. Cour(w, r, unlisted) = Cour(w, q, unlisted)
    BY <1>3 DEF Cour
  <1> QED
    BY <1>1, <1>2, <1>4, Zenon DEF Mapped

\* How the number of a release that is of a known episode may stand for it.
ByTmdb(w, r) == r.season = r.is[1] /\ r.episode = r.is[2]
ByCount(w, r) == r.season = 1 /\ r.episode = EpisodesBefore(w, r.is[1]) + r.is[2]
ByCours(w, r) ==
    /\ r.scheme = "relative"
    /\ \E g \in GlobalCours(w, {}) :
        /\ g.cour.season = r.is[1]
        /\ r.season = g.number /\ r.episode = r.is[2] - g.cour.from + 1 /\ g.cour.from <= r.is[2]
Regularly == {"tmdb", "absolute", "offset", "relative"}
Stands(w, r) ==
    /\ r.season \in Nat /\ r.episode \in Nat
    /\ r.scheme \in Regularly =>
          /\ r.is = <<r.is[1], r.is[2]>> /\ r.is[1] \in DOMAIN w.cours /\ r.is[2] \in 1 .. EpisodeCount(w, r.is[1])
          /\ ByTmdb(w, r) \/ ByCount(w, r) \/ ByCours(w, r)

LEMMA MappingIs ==
    ASSUME NEW s, NEW e, NEW by
    PROVE  Mapping(s, e, by).season = s /\ Mapping(s, e, by).episode = e /\ Mapping(s, e, by).by = by
  BY DEF Mapping

\* With the lists of its seasons, a show has one episode for such a release.
LEMMA MapsBack ==
    ASSUME NEW w \in Shows, NEW r, Stands(w, r), r.scheme \in Regularly, ~Misread(w, r),
           NEW m \in Mapped(w, r, {}), m # NoMapping
    PROVE  <<m.season, m.episode>> = r.is
  <1> DEFINE s == r.is[1]
             e == r.is[2]
  <1>1. r.is = <<s, e>> /\ s \in DOMAIN w.cours /\ e \in 1 .. EpisodeCount(w, s)
    BY DEF Stands
  <1>2. /\ s \in 1 .. Len(w.cours) /\ Len(w.cours) \in Nat \ {0} /\ DOMAIN w.cours = 1 .. Len(w.cours)
        /\ EpisodeCount(w, s) \in Nat /\ EpisodesBefore(w, s) \in Nat
        /\ EpisodesBefore(w, s + 1) = EpisodesBefore(w, s) + EpisodeCount(w, s)
        /\ 1 \in DOMAIN w.cours /\ EpisodesBefore(w, 1) = 0 /\ EpisodesBefore(w, 1 + 1) = EpisodeCount(w, 1)
        /\ EpisodeCount(w, 1) \in Nat
    <2>1. Len(w.cours) \in Nat \ {0} /\ DOMAIN w.cours = 1 .. Len(w.cours)
      BY <1>1, ShowIs
    <2>2. 1 \in DOMAIN w.cours
      BY <2>1
    <2>3. EpisodesBefore(w, 1 + 1) = EpisodesBefore(w, 1) + EpisodeCount(w, 1) /\ EpisodeCount(w, 1) \in Nat
      BY <2>2, CountsAre
    <2>4. EpisodesBefore(w, 1) = 0
      BY CountsAre
    <2> QED
      BY <1>1, <2>1, <2>2, <2>3, <2>4, CountsAre
  <1>3. r.season \in Nat /\ r.episode \in Nat
    BY DEF Stands
  <1> HIDE DEF s, e
  <1> SUFFICES m.season = s /\ m.episode = e
    BY <1>1
  <1>4. ASSUME Direct(w, r) # {}
        PROVE  m.season = r.season /\ m.episode = r.episode /\ r.season \in DOMAIN w.cours
               /\ r.episode \in 1 .. EpisodeCount(w, r.season)
    <2>1. m \in Direct(w, r)
      BY <1>4, Zenon DEF Mapped
    <2> QED
      BY <2>1, MappingIs DEF Direct
  <1>5. CASE ByTmdb(w, r)
    <2>1. r.season = s /\ r.episode = e
      BY <1>5 DEF ByTmdb, s, e
    <2>2. Direct(w, r) # {}
      BY <1>1, <2>1 DEF Direct
    <2> QED
      BY <1>4, <2>1, <2>2
  <1>6. CASE ByCount(w, r)
    <2>1. r.season = 1 /\ r.episode = EpisodesBefore(w, s) + e
      BY <1>6 DEF ByCount, s, e
    <2>2. EpisodesBefore(w, s) < r.episode /\ r.episode <= EpisodesBefore(w, s + 1) /\ r.episode \in Nat
      BY <1>1, <1>2, <2>1
    <2>3. CASE Direct(w, r) # {}
      <3>1. m.season = 1 /\ m.episode = r.episode /\ r.episode \in 1 .. EpisodeCount(w, 1)
        BY <1>4, <2>1, <2>3
      <3>2. EpisodesBefore(w, 1) < r.episode /\ r.episode <= EpisodesBefore(w, 1 + 1)
        BY <1>2, <3>1
      <3>3. s = 1
        BY <1>1, <1>2, <2>2, <3>2, SeasonsApart
      <3> QED
        BY <1>1, <1>2, <2>1, <3>1, <3>3
    <2>4. CASE Direct(w, r) = {}
      <3>1. ~IsSpecial(r)
        BY <1>1, <1>2, <2>1 DEF IsSpecial
      <3>2. CourNumbered(w, r, {}) = {}
        BY <1>2, <2>1 DEF CourNumbered
      <3>3. Cour(w, r, {}) = {}
        BY <3>2 DEF Cour
      <3>4. m \in Absolute(w, r)
        BY <2>4, <3>1, <3>3, Zenon DEF Mapped
      <3>5. PICK t \in DOMAIN w.cours : /\ r.episode > EpisodesBefore(w, t) /\ r.episode <= EpisodesBefore(w, t + 1)
                                        /\ m = Mapping(t, r.episode - EpisodesBefore(w, t), "absolute")
        BY <3>4, <2>1, <1>2 DEF Absolute
      <3>6. EpisodesBefore(w, t) < r.episode
        BY <2>2, <3>5, CountsAre
      <3>7. t = s
        BY <1>1, <2>2, <3>5, <3>6, SeasonsApart
      <3> QED
        BY <1>1, <1>2, <2>1, <3>5, <3>7, MappingIs
    <2> QED
      BY <2>3, <2>4
  <1>7. CASE ByCours(w, r) /\ r.season <= Len(w.cours)
    <2>1. <<r.season, r.episode>> = r.is
      BY <1>7 DEF ByCours, Misread
    <2>2. ByTmdb(w, r)
      BY <2>1 DEF ByTmdb
    <2> QED
      BY <1>5, <2>2
  <1>8. CASE ByCours(w, r) /\ ~(r.season <= Len(w.cours))
    <2>1. PICK g \in GlobalCours(w, {}) :
              /\ g.number > Len(w.cours) /\ g.cour.season = s
              /\ r.season = g.number /\ r.episode = e - g.cour.from + 1 /\ g.cour.from <= e
      BY <1>2, <1>8, CourFound DEF ByCours, s, e
    <2>2. g.cour.from \in Nat \ {0} /\ g.number \in Nat
      BY CourFound
    <2>3. r.season # 0 /\ r.season \notin DOMAIN w.cours /\ ~(r.season <= Len(w.cours)) /\ r.episode # 0
      <3>1. r.season = g.number /\ g.number > Len(w.cours) /\ r.episode = e - g.cour.from + 1 /\ g.cour.from <= e
        BY <2>1
      <3>2. Len(w.cours) \in Nat /\ DOMAIN w.cours = 1 .. Len(w.cours) /\ e \in Nat
        BY <1>1, <1>2
      <3>3. r.season # 0 /\ r.season \notin DOMAIN w.cours /\ ~(r.season <= Len(w.cours))
        BY <2>2, <3>1, <3>2
      <3>4. r.episode # 0
        BY <2>2, <3>1, <3>2
      <3> QED
        BY <3>3, <3>4
    <2>4. Direct(w, r) = {} /\ ~IsSpecial(r)
      BY <2>3 DEF Direct, IsSpecial
    <2>5. CourNumbered(w, r, {}) = {g.cour}
      <3>1. \A h \in GlobalCours(w, {}) : h.number = r.season => h = g
        BY <2>1, CourByNumber
      <3> QED
        BY <2>1, <2>3, <3>1, Zenon DEF CourNumbered
    <2>6. Cour(w, r, {}) = ByCour(w, g.cour, r.episode, g.cour.from + r.episode - 1)
      BY <2>5 DEF Cour
    <2>7. g.cour.from + r.episode - 1 = e
      BY <1>1, <2>1, <2>2
    <2>8. Cour(w, r, {}) = {Mapping(s, e, "cour_relative")}
      BY <1>1, <2>1, <2>6, <2>7 DEF ByCour
    <2>9. m = Mapping(s, e, "cour_relative")
      BY <2>4, <2>8, Zenon DEF Mapped
    <2> QED
      BY <2>9, MappingIs
  <1> QED
    BY <1>5, <1>6, <1>7, <1>8 DEF Stands

\* What a show is said to have, it has.
Exists(w, m) ==
    m.by \notin {"none", "special_llm", "special_passthrough"} =>
        IF m.season = 0 THEN m.episode \in 1 .. w.specials
        ELSE m.season \in DOMAIN w.cours /\ m.episode \in 1 .. EpisodeCount(w, m.season)

LEMMA MapsToExisting ==
    ASSUME NEW w \in Shows, NEW r, r.season \in Nat, r.episode \in Nat, NEW unlisted, NEW m \in Mapped(w, r, unlisted)
    PROVE  Exists(w, m)
  <1>0. Len(w.cours) \in Nat /\ DOMAIN w.cours = 1 .. Len(w.cours) /\ w.specials \in Nat
    BY ShowIs
  <1>1. CASE m \in Direct(w, r)
    <2>1. m.season = r.season /\ m.episode = r.episode /\ r.season \in DOMAIN w.cours
          /\ r.episode \in 1 .. EpisodeCount(w, r.season)
      BY <1>1, MappingIs DEF Direct
    <2>2. r.season # 0
      BY <1>0, <2>1
    <2> QED
      BY <2>1, <2>2 DEF Exists
  <1>2. CASE m \in Special(w, r)
    <2>1. CASE w.specials = 0
      BY <1>2, <2>1, MappingIs DEF Special, Exists
    <2>2. CASE w.specials # 0 /\ r.season = 0 /\ r.episode \in 1 .. w.specials
      BY <1>2, <2>2, MappingIs DEF Special, Exists
    <2>3. CASE w.specials # 0 /\ ~(r.season = 0 /\ r.episode \in 1 .. w.specials)
      <3>1. m = Mapping(0, 1, "special_fallback") \/ \E n \in 0 .. w.specials + 1 : m = Mapping(0, n, "special_llm")
        BY <1>2, <2>3 DEF Special
      <3>2. 1 \in 1 .. w.specials
        BY <1>0, <2>3
      <3> QED
        BY <3>1, <3>2, MappingIs DEF Exists
    <2> QED
      BY <2>1, <2>2, <2>3
  <1>3. CASE m \in Cour(w, r, unlisted)
    <2>1. PICK g \in GlobalCours(w, unlisted) : m \in ByCour(w, g.cour, r.episode, g.cour.from + r.episode - 1)
      BY <1>3 DEF Cour, CourNumbered
    <2>2. g.cour.season \in DOMAIN w.cours
      BY CourFound
    <2>3. g.cour.season # 0
      BY <1>0, <2>2
    <2>4. m.season = g.cour.season /\ m.episode \in 1 .. EpisodeCount(w, g.cour.season)
      BY <2>1, MappingIs DEF ByCour
    <2> QED
      BY <2>2, <2>3, <2>4 DEF Exists
  <1>4. CASE m \in Absolute(w, r)
    <2>1. PICK t \in DOMAIN w.cours : /\ r.episode > EpisodesBefore(w, t) /\ r.episode <= EpisodesBefore(w, t + 1)
                                      /\ m = Mapping(t, r.episode - EpisodesBefore(w, t), "absolute")
      BY <1>4 DEF Absolute
    <2>2. t # 0 /\ EpisodesBefore(w, t) \in Nat /\ EpisodeCount(w, t) \in Nat
          /\ EpisodesBefore(w, t + 1) = EpisodesBefore(w, t) + EpisodeCount(w, t)
      BY <1>0, CountsAre
    <2>3. r.episode - EpisodesBefore(w, t) \in 1 .. EpisodeCount(w, t)
      BY <2>1, <2>2
    <2> QED
      BY <2>1, <2>2, <2>3, MappingIs DEF Exists
  <1>5. CASE m = NoMapping
    BY <1>5 DEF NoMapping, Exists
  <1> QED
    BY <1>1, <1>2, <1>3, <1>4, <1>5, Zenon DEF Mapped

------------------------------------------------------------------------------
\* A release of the show, after what the subscription knows is applied to it.
AdjustedOf(w) == {Adjusted(r) : r \in {q \in ReleasesOf(w) : q.episode > 0 => q.episode > q.offset}}

LEMMA ReleaseIs ==
    ASSUME NEW n, NEW t, NEW scheme, NEW is, NEW offset
    PROVE  LET r == Release(n, t, scheme, is, offset)
           IN /\ r.season = n.season /\ r.episode = n.episode /\ r.scheme = scheme /\ r.is = is /\ r.offset = offset
              /\ r.override = IF offset = 0 THEN 0 ELSE is[1]
  BY DEF Release

LEMMA RegularStands ==
    ASSUME NEW w \in Shows, NEW s \in DOMAIN w.cours, NEW e \in 1 .. EpisodeCount(w, s), NEW scheme \in Schemes,
           NEW n \in Numbered(w, s, e, scheme), NEW t,
           NEW r, r = Release(n, t, scheme, <<s, e>>, IF scheme = "offset" THEN EpisodesBefore(w, s) ELSE 0)
    PROVE  Stands(w, Adjusted(r))
  <1>0. s \in Nat \ {0} /\ e \in Nat \ {0} /\ EpisodesBefore(w, s) \in Nat /\ EpisodeCount(w, s) \in Nat
    <2>1. s \in Nat \ {0}
      BY ShowIs
    <2>2. EpisodesBefore(w, s) \in Nat /\ EpisodeCount(w, s) \in Nat
      BY CountsAre
    <2> QED
      BY <2>1, <2>2
  <1>1. /\ r.season = n.season /\ r.episode = n.episode /\ r.scheme = scheme /\ r.is = <<s, e>>
        /\ r.offset = (IF scheme = "offset" THEN EpisodesBefore(w, s) ELSE 0)
        /\ r.override = (IF r.offset = 0 THEN 0 ELSE s)
    BY ReleaseIs
  <1>2. /\ DOMAIN r = {"season", "episode", "title", "scheme", "is", "offset", "override"}
    BY DEF Release
  <1>3. <<s, e>>[1] = s /\ <<s, e>>[2] = e
    OBVIOUS
  <1>4. CASE r.offset = 0 \/ r.episode = 0
    <2>1. Adjusted(r) = r
      BY <1>4 DEF Adjusted
    <2>2. CASE scheme = "tmdb"
      <3>1. n.season = s /\ n.episode = e
        BY <2>2 DEF Numbered
      <3> QED
        BY <1>0, <1>1, <1>3, <2>1, <3>1 DEF Stands, ByTmdb
    <2>3. CASE scheme \in {"absolute", "offset"}
      <3>1. n.season = 1 /\ n.episode = EpisodesBefore(w, s) + e
        BY <2>3 DEF Numbered
      <3> QED
        BY <1>0, <1>1, <1>3, <2>1, <3>1 DEF Stands, ByCount
    <2>4. CASE scheme \notin {"tmdb", "absolute", "offset"}
      <3>1. PICK g \in GlobalCours(w, {}) :
               /\ g.cour.season = s /\ e \in g.cour.from .. g.cour.to
               /\ n = [season |-> g.number, episode |-> IF scheme = "relative" THEN e - g.cour.from + 1 ELSE e]
        BY <2>4 DEF Numbered
      <3>2. g.number \in Nat /\ g.cour.from \in Nat \ {0} /\ g.cour.to \in Nat
        BY CourFound
      <3>3. g.cour.from <= e /\ e - g.cour.from + 1 \in Nat
        BY <1>0, <3>1, <3>2
      <3>4. r.season \in Nat /\ r.episode \in Nat
        BY <1>0, <1>1, <3>1, <3>2, <3>3
      <3>5. scheme = "relative" => ByCours(w, r)
        BY <1>1, <1>3, <3>1, <3>3 DEF ByCours
      <3>6. scheme \in Regularly => scheme = "relative"
        BY <2>4 DEF Regularly
      <3> QED
        BY <1>1, <1>3, <2>1, <3>4, <3>5, <3>6 DEF Stands
    <2> QED
      BY <2>2, <2>3, <2>4
  <1>5. CASE ~(r.offset = 0 \/ r.episode = 0)
    <2>1. scheme = "offset" /\ r.offset = EpisodesBefore(w, s) /\ r.override = s
      BY <1>1, <1>5
    <2>2. n.season = 1 /\ n.episode = EpisodesBefore(w, s) + e
      BY <2>1 DEF Numbered
    <2>3. r.episode - r.offset = e
      BY <1>0, <1>1, <2>1, <2>2
    <2>4. Adjusted(r) = [r EXCEPT !.episode = e, !.season = s]
      BY <1>0, <1>5, <2>1, <2>3 DEF Adjusted
    <2>5. Adjusted(r).season = s /\ Adjusted(r).episode = e /\ Adjusted(r).is = <<s, e>>
      BY <1>1, <1>2, <2>4
    <2> QED
      BY <1>0, <1>3, <2>5 DEF Stands, ByTmdb
  <1> QED
    BY <1>4, <1>5

LEMMA AdjustedStands ==
    ASSUME NEW w \in Shows, NEW a \in AdjustedOf(w)
    PROVE  Stands(w, a)
  <1>1. PICK r \in ReleasesOf(w) : a = Adjusted(r)
    BY DEF AdjustedOf
  <1>2. CASE r \in RegularOf(w)
    <2> DEFINE As(s, e, scheme) ==
                 {Release(n, CHOOSE t \in ReleaseTitles : TRUE, scheme, <<s, e>>,
                          IF scheme = "offset" THEN EpisodesBefore(w, s) ELSE 0) : n \in Numbered(w, s, e, scheme)}
               OfSeason(s) == UNION {As(s, e, scheme) : e \in 1 .. EpisodeCount(w, s), scheme \in Schemes}
    <2>0. RegularOf(w) = UNION {OfSeason(s) : s \in DOMAIN w.cours}
      BY DEF RegularOf
    <2>1. PICK s \in DOMAIN w.cours : r \in OfSeason(s)
      <3> HIDE DEF OfSeason
      <3> QED
        BY <1>2, <2>0
    <2>2. PICK e \in 1 .. EpisodeCount(w, s), scheme \in Schemes : r \in As(s, e, scheme)
      <3> HIDE DEF As
      <3> QED
        BY <2>1
    <2>3. PICK n \in Numbered(w, s, e, scheme) :
             r = Release(n, CHOOSE t \in ReleaseTitles : TRUE, scheme, <<s, e>>,
                         IF scheme = "offset" THEN EpisodesBefore(w, s) ELSE 0)
      BY <2>2
    <2> QED
      BY <1>1, <2>3, RegularStands
  <1>3. CASE r \in SpecialsOf(w)
    <2>1. PICK s \in {0, 1}, e \in {0, 1}, t \in ReleaseTitles :
             r = Release([season |-> s, episode |-> e], t, "special", <<0, 0>>, 0)
      BY <1>3 DEF SpecialsOf
    <2>2. r.season = s /\ r.episode = e /\ r.scheme = "special" /\ r.offset = 0
      BY <2>1, ReleaseIs
    <2>3. a = r
      BY <1>1, <2>2 DEF Adjusted
    <2> QED
      BY <2>2, <2>3 DEF Stands, Regularly
  <1> QED
    BY <1>2, <1>3 DEF ReleasesOf

------------------------------------------------------------------------------
\* What is still to be validated is of the show; what the cache and the results
\* say is what the mapper says of the same numbers.
ByMapper(r, m, unlisted) == m = NoMapping \/ m \in Mapped(identity.show, r, unlisted)
TmdbInv ==
    /\ wanted \in Shows
    /\ items \in Seq(IF identity = Unparsed THEN ReleasesOf(wanted) ELSE AdjustedOf(wanted))
    /\ identity \in {Unparsed, NoShow} => known = <<>> /\ corrected = <<>>
    /\ identity \notin {Unparsed, NoShow} => identity.show \in Shows /\ (identity.show.animated \/ identity.chosen = "llm")
    /\ IsSequence(known) /\ IsSequence(corrected)
    /\ \A k \in DOMAIN known :
         ByMapper([season |-> known[k].key[1], episode |-> known[k].key[2]], known[k].as, known[k].unlisted)
    /\ \A k \in DOMAIN corrected :
         /\ Stands(wanted, corrected[k].release)
         /\ ByMapper(corrected[k].release, corrected[k].as, corrected[k].unlisted)

LEMMA TmdbStart == TmdbInit => TmdbInv
  <1> SUFFICES ASSUME TmdbInit PROVE TmdbInv
    OBVIOUS
  <1>1. wanted \in Shows /\ identity = Unparsed /\ known = <<>> /\ corrected = <<>>
    BY DEF TmdbInit
  <1>2. PICK n \in 0 .. MaxItems : items \in [1 .. n -> ReleasesOf(wanted)]
    BY SMT DEF TmdbInit, BoundedSeq, SeqOf
  <1>3. items \in Seq(ReleasesOf(wanted))
    <2>1. n \in Nat
      BY <1>2, ValidationAssumption
    <2> QED
      BY <1>2, <2>1
  <1> QED
    BY <1>1, <1>3, EmptyIsSequence DEF TmdbInv

LEMMA ParseKeeps == TmdbInv /\ Parse => TmdbInv'
  <1> SUFFICES ASSUME TmdbInv, Parse PROVE TmdbInv'
    OBVIOUS
  <1>1. /\ identity = Unparsed /\ identity' = NoShow /\ wanted' = wanted /\ known' = known /\ corrected' = corrected
        /\ known = <<>> /\ corrected = <<>> /\ wanted \in Shows /\ items \in Seq(ReleasesOf(wanted))
    BY DEF TmdbInv, Parse
  <1>2. PICK n \in 0 .. Len(items) : \E parsed \in [1 .. n -> DOMAIN items] :
          /\ \A k \in 1 .. n : items[parsed[k]].episode > 0 => items[parsed[k]].episode > items[parsed[k]].offset
          /\ items' = [k \in 1 .. n |-> Adjusted(items[parsed[k]])]
    BY DEF Parse
  <1>3. PICK parsed \in [1 .. n -> DOMAIN items] :
          /\ \A k \in 1 .. n : items[parsed[k]].episode > 0 => items[parsed[k]].episode > items[parsed[k]].offset
          /\ items' = [k \in 1 .. n |-> Adjusted(items[parsed[k]])]
    BY <1>2
  <1>4. \A k \in 1 .. n : items[parsed[k]] \in ReleasesOf(wanted)
    BY <1>1, <1>3
  <1>5. \A k \in 1 .. n : Adjusted(items[parsed[k]]) \in AdjustedOf(wanted)
    BY <1>3, <1>4 DEF AdjustedOf
  <1>6. items' \in Seq(AdjustedOf(wanted))
    <2>1. n \in Nat
      BY <1>1, <1>2
    <2> QED
      BY <1>3, <1>5, <2>1
  <1>7. NoShow # Unparsed
    BY DEF NoShow, Unparsed
  <1> QED
    BY <1>1, <1>6, <1>7, EmptyIsSequence DEF TmdbInv

LEMMA IdentifyKeeps == TmdbInv /\ Identify => TmdbInv'
  <1> SUFFICES ASSUME TmdbInv, Identify PROVE TmdbInv'
    OBVIOUS
  <1>0. NoShow # Unparsed
    BY DEF NoShow, Unparsed
  <1>1. /\ identity = NoShow /\ wanted' = wanted /\ known' = <<>> /\ corrected' = <<>>
        /\ wanted \in Shows /\ items \in Seq(AdjustedOf(wanted))
    BY <1>0 DEF TmdbInv, Identify
  <1>2. PICK found \in SUBSET Shows :
         \/ \E w \in found : identity' = [id |-> w.id, show |-> w, chosen |-> "llm"] /\ UNCHANGED items
         \/ \E w \in Heuristic(found) : identity' = [id |-> w.id, show |-> w, chosen |-> "heuristic"] /\ UNCHANGED items
         \/ Heuristic(found) = {} /\ items' = <<>> /\ UNCHANGED identity
    BY DEF Identify
  <1>3. ASSUME NEW w \in Shows, NEW by, identity' = [id |-> w.id, show |-> w, chosen |-> by], UNCHANGED items,
               w.animated \/ by = "llm"
        PROVE  TmdbInv'
    <2>1. identity'.show = w /\ identity'.chosen = by
      BY <1>3
    <2>2. identity' # Unparsed
      BY <1>3 DEF Unparsed
    <2> QED
      BY <1>1, <1>3, <2>1, <2>2, EmptyIsSequence DEF TmdbInv
  <1>4. CASE \E w \in found : identity' = [id |-> w.id, show |-> w, chosen |-> "llm"] /\ UNCHANGED items
    BY <1>2, <1>3, <1>4
  <1>5. CASE \E w \in Heuristic(found) : identity' = [id |-> w.id, show |-> w, chosen |-> "heuristic"] /\ UNCHANGED items
    BY <1>2, <1>3, <1>5 DEF Heuristic
  <1>6. CASE items' = <<>> /\ UNCHANGED identity
    BY <1>0, <1>1, <1>6, EmptyIsSequence DEF TmdbInv
  <1> QED
    BY <1>2, <1>4, <1>5, <1>6

LEMMA ValidatedKeeps ==
    ASSUME TmdbInv, identity \notin {Unparsed, NoShow}, items # <<>>, UNCHANGED <<wanted, identity>>,
           NEW m, NEW unlisted, Validated(Head(items), m, unlisted), ByMapper(Head(items), m, unlisted),
           IsSequence(known'),
           \A k \in DOMAIN known' : ByMapper([season |-> known'[k].key[1], episode |-> known'[k].key[2]],
                                              known'[k].as, known'[k].unlisted)
    PROVE  TmdbInv'
  <1>1. /\ wanted \in Shows /\ wanted' = wanted /\ identity' = identity /\ items \in Seq(AdjustedOf(wanted))
        /\ identity.show \in Shows /\ (identity.show.animated \/ identity.chosen = "llm") /\ IsSequence(corrected)
        /\ \A k \in DOMAIN corrected : /\ Stands(wanted, corrected[k].release)
                                       /\ ByMapper(corrected[k].release, corrected[k].as, corrected[k].unlisted)
    BY DEF TmdbInv
  <1>2. Head(items) \in AdjustedOf(wanted) /\ Tail(items) \in Seq(AdjustedOf(wanted))
    BY <1>1
  <1>3. Stands(wanted, Head(items))
    BY <1>1, <1>2, AdjustedStands
  <1> DEFINE c == [release |-> Head(items), as |-> m, unlisted |-> unlisted]
  <1>4. corrected' = Append(corrected, c) /\ items' = Tail(items)
    BY DEF Validated
  <1>5. c.release = Head(items) /\ c.as = m /\ c.unlisted = unlisted
    OBVIOUS
  <1> HIDE DEF c
  <1>6. /\ IsSequence(corrected')
        /\ \A k \in DOMAIN corrected' : (k \in DOMAIN corrected /\ corrected'[k] = corrected[k]) \/ corrected'[k] = c
    BY <1>1, <1>4, AppendedTo
  <1>7. \A k \in DOMAIN corrected' : /\ Stands(wanted, corrected'[k].release)
                                     /\ ByMapper(corrected'[k].release, corrected'[k].as, corrected'[k].unlisted)
    BY <1>1, <1>3, <1>5, <1>6
  <1>8. \A r, x, u : ByMapper(r, x, u)' <=> ByMapper(r, x, u)
    BY <1>1 DEF ByMapper
  <1> QED
    BY <1>1, <1>2, <1>4, <1>6, <1>7 DEF TmdbInv, ByMapper

LEMMA ValidateKeeps == TmdbInv /\ Validate => TmdbInv'
  <1> SUFFICES ASSUME TmdbInv, Validate PROVE TmdbInv'
    OBVIOUS
  <1> DEFINE r == Head(items)
             numbers == <<r.season, r.episode>>
             q == [season |-> numbers[1], episode |-> numbers[2]]
             hit == {k \in Range(known) : k.key = numbers}
  <1>1. identity \notin {Unparsed, NoShow} /\ items # <<>> /\ UNCHANGED <<wanted, identity>>
    BY DEF Validate
  <1>2. /\ IsSequence(known)
        /\ \A k \in DOMAIN known :
             ByMapper([season |-> known[k].key[1], episode |-> known[k].key[2]], known[k].as, known[k].unlisted)
    BY DEF TmdbInv
  <1>3. q.season = r.season /\ q.episode = r.episode
    OBVIOUS
  <1>4. \A m, u : ByMapper(q, m, u) <=> ByMapper(r, m, u)
    <2> HIDE DEF q, r
    <2>1. \A u : Mapped(identity.show, q, u) = Mapped(identity.show, r, u)
      BY <1>3, SameNumbers
    <2> QED
      BY <2>1 DEF ByMapper
  <1>5. CASE hit # {}
    <2>1. PICK k \in hit : Validated(r, k.as, k.unlisted) /\ UNCHANGED known
      BY <1>5 DEF Validate
    <2>2. PICK i \in DOMAIN known : known[i] = k /\ k.key = numbers
      BY <2>1 DEF Range
    <2>3. ByMapper(q, k.as, k.unlisted)
      BY <1>2, <2>2
    <2>4. ByMapper(r, k.as, k.unlisted)
      BY <1>4, <2>3
    <2> HIDE DEF r
    <2>5. known' = known
      BY <2>1
    <2> QED
      BY <1>1, <1>2, <2>1, <2>4, <2>5, ValidatedKeeps DEF r
  <1>6. CASE hit = {}
    <2>1. PICK unlisted \in SUBSET DOMAIN identity.show.cours :
             \E m \in Mapped(identity.show, r, unlisted) \union {NoMapping} :
                   /\ Validated(r, m, unlisted)
                   /\ known' = Append(known, [key |-> numbers, as |-> m, unlisted |-> unlisted])
      BY <1>6 DEF Validate
    <2>2. PICK m \in Mapped(identity.show, r, unlisted) \union {NoMapping} :
                   /\ Validated(r, m, unlisted)
                   /\ known' = Append(known, [key |-> numbers, as |-> m, unlisted |-> unlisted])
      BY <2>1
    <2>3. ByMapper(r, m, unlisted)
      BY <2>2 DEF ByMapper
    <2>4. ByMapper(q, m, unlisted)
      BY <1>4, <2>3
    <2> DEFINE x == [key |-> numbers, as |-> m, unlisted |-> unlisted]
    <2>5. x.key = numbers /\ x.as = m /\ x.unlisted = unlisted
      OBVIOUS
    <2> HIDE DEF x
    <2>6. /\ IsSequence(known')
          /\ \A k \in DOMAIN known' : (k \in DOMAIN known /\ known'[k] = known[k]) \/ known'[k] = x
      BY <1>2, <2>2, AppendedTo DEF x
    <2>7. \A k \in DOMAIN known' : ByMapper([season |-> known'[k].key[1], episode |-> known'[k].key[2]],
                                             known'[k].as, known'[k].unlisted)
      BY <1>2, <2>4, <2>5, <2>6
    <2> QED
      BY <1>1, <2>2, <2>3, <2>6, <2>7, ValidatedKeeps
  <1> QED
    BY <1>5, <1>6

LEMMA TmdbStep == TmdbInv /\ [TmdbNext]_tmdbVars => TmdbInv'
  <1>1. TmdbInv /\ UNCHANGED tmdbVars => TmdbInv'
    BY DEF TmdbInv, tmdbVars, ByMapper
  <1> QED
    BY <1>1, ParseKeeps, IdentifyKeeps, ValidateKeeps DEF TmdbNext

LEMMA TmdbSafe == TmdbInv => MappedRight
  <1> SUFFICES ASSUME TmdbInv PROVE MappedRight
    OBVIOUS
  <1>1. ASSUME NEW k \in DOMAIN corrected
        PROVE  /\ identity.show \in Shows
               /\ Stands(wanted, corrected[k].release)
               /\ ByMapper(corrected[k].release, corrected[k].as, corrected[k].unlisted)
    <2>1. corrected # <<>>
      BY <1>1, EmptyIsSequence
    <2> QED
      BY <1>1, <2>1 DEF TmdbInv
  <1>2. MappedBack
    <2> SUFFICES ASSUME NEW k \in Right,
                        corrected[k].release.scheme \in Regularly, corrected[k].unlisted = {},
                        ~Misread(wanted, corrected[k].release)
                 PROVE  <<corrected[k].as.season, corrected[k].as.episode>> = corrected[k].release.is
      BY DEF MappedBack, Regularly
    <2>1. k \in DOMAIN corrected /\ identity.show = wanted /\ corrected[k].as # NoMapping
      BY DEF Right
    <2>2. corrected[k].as \in Mapped(wanted, corrected[k].release, {})
      BY <1>1, <2>1 DEF ByMapper
    <2> QED
      BY <1>1, <2>1, <2>2, MapsBack
  <1>3. MappedExists
    <2> SUFFICES ASSUME NEW k \in DOMAIN corrected PROVE Exists(identity.show, corrected[k].as)
      BY DEF MappedExists, Exists
    <2>1. corrected[k].release.season \in Nat /\ corrected[k].release.episode \in Nat
      BY <1>1 DEF Stands
    <2>2. CASE corrected[k].as = NoMapping
      BY <2>2 DEF NoMapping, Exists
    <2>3. CASE corrected[k].as \in Mapped(identity.show, corrected[k].release, corrected[k].unlisted)
      BY <1>1, <2>1, <2>3, MapsToExisting
    <2> QED
      BY <1>1, <2>2, <2>3 DEF ByMapper
  <1>4. LiveActionOnlyNamed
    BY DEF TmdbInv, LiveActionOnlyNamed, Unparsed, NoShow
  <1> QED
    BY <1>2, <1>3, <1>4 DEF MappedRight

\* Whatever shows TMDB lists and in whatever order the releases of a batch come, each
\* is mapped to the episode it is, to one that exists, and of an animated show unless
\* the model named it (tmdb/episode_mapper.py, pipeline.py, resolver.py).
THEOREM AlwaysMappedRight == TmdbSpec => []MappedRight
  <1>1. TmdbInit => TmdbInv
    BY TmdbStart
  <1>2. TmdbInv /\ [TmdbNext]_tmdbVars => TmdbInv'
    BY TmdbStep
  <1>3. TmdbInv => MappedRight
    BY TmdbSafe
  <1> QED
    BY <1>1, <1>2, <1>3, PTL DEF TmdbSpec

=================================================================================
