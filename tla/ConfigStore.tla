------------------------------ MODULE ConfigStore ------------------------------
(***************************************************************************)
(* The TOML file of the Rust program (config_store.rs) and the handlers of *)
(* http.rs that edit it: they read the file and its revision, work for a   *)
(* while, then lock, compare revisions, edit, and replace the file, which  *)
(* is one step here: nobody writes in between, and who reads sees the file *)
(* as it was or as it became.  RSS scans read it without the lock.         *)
(*                                                                         *)
(* The revision is a hash of the text, so the text stands for it.          *)
(***************************************************************************)
EXTENDS Naturals, Sequences, SequencesExt, FiniteSets

CONSTANTS
    Editors,       \* requests that may edit the file at the same time
    FeedUrls,       \* addresses of subscriptions
    LegacyUrls,     \* those an older program left in rss.urls
    MaxVersion,     \* bound: edits of the settings
    MaxWaiting      \* bound: scheduled scans that wait when an edit begins

ASSUME ConfigAssumption ==
    /\ MaxVersion \in Nat /\ MaxWaiting \in Nat \ {0}
    /\ IsFiniteSet(FeedUrls) /\ LegacyUrls \subseteq FeedUrls

(* A row is active while it is enabled and not completed.                  *)
Feeds == [url : FeedUrls, active : BOOLEAN]
Feed(u) == [url |-> u, active |-> TRUE]

(* listed: rss.subscriptions is there.  legacy: rss.urls.                  *)
Documents == [settings : 0 .. MaxVersion, listed : BOOLEAN, feeds : BoundedSeq(Feeds, Cardinality(FeedUrls)),
              legacy : SUBSET FeedUrls]

(* resume: enable, reopen.  suspend: disable, complete.  settings: what    *)
(* does not touch the list.                                                *)
Edits == [kind : {"add", "remove", "resume", "suspend"}, url : FeedUrls]
         \cup [kind : {"correct"}, url : FeedUrls, new : FeedUrls]
         \cup [kind : {"settings"}]

VARIABLES
    config,        \* the document on disk
    editor,     \* for each handler, {the file it read}, or {} when it has no request
    scanWaiting, \* scheduled scans that wait for rss_scan_lock
    rssScan,        \* "idle", or what the running scan reads next
    ackedFeeds,       \* history variable: URLs whose addition was acknowledged
    removedFeeds,     \* history variable: URLs whose removal was acknowledged
    scannedFeeds      \* history variable: those of them that a scan has read since
cfgVars == <<config, editor, scanWaiting, rssScan, ackedFeeds, removedFeeds, scannedFeeds>>

(* The edits that schedule a scan.                                         *)
Scheduling == {"add", "resume", "correct"}

Urls(doc) == {doc.feeds[i].url : i \in DOMAIN doc.feeds}

(* ui_subscriptions: rss.urls counts only while there is no list.          *)
Tracked(doc) == IF doc.listed THEN Urls(doc) ELSE doc.legacy
Active(doc) == IF doc.listed THEN {f.url : f \in {g \in Range(doc.feeds) : g.active}}
               ELSE doc.legacy

-----------------------------------------------------------------------------
(* ensure_subscription_array: every edit of the list takes the addresses   *)
(* of rss.urls over that it does not contain.                              *)
EnsureSubscriptionArray(doc) ==
    [doc EXCEPT !.listed = TRUE,
                !.feeds = @ \o SetToSeq({Feed(u) : u \in doc.legacy \ Urls(doc)})]

(* DuplicateSubscription and SubscriptionNotFound.                         *)
Accepted(doc, e) ==
    CASE e.kind = "add" -> e.url \notin Urls(doc)
      [] e.kind = "correct" -> e.url \in Urls(doc) /\ e.new \notin Urls(doc) \ {e.url}
      [] OTHER -> e.url \in Urls(doc)

(* The row an edit makes of the row of its address.                        *)
NewRow(row, e) ==
    IF row.url # e.url THEN row
    ELSE CASE e.kind = "resume" -> Feed(e.url)
           [] e.kind = "suspend" -> [row EXCEPT !.active = FALSE]
           [] e.kind = "correct" -> [row EXCEPT !.url = e.new]

(* The edit of a list that accepts it.                                     *)
Apply(doc, e) ==
    CASE e.kind = "add" -> [doc EXCEPT !.feeds = Append(@, Feed(e.url))]
      [] e.kind = "remove" ->
            [doc EXCEPT !.feeds = RemoveAt(@, CHOOSE i \in DOMAIN @ : @[i].url = e.url)]
      [] OTHER -> [doc EXCEPT !.feeds = [i \in DOMAIN @ |-> NewRow(@[i], e)]]

(* The documents the edit may lead to: one, or none if it is refused.      *)
Outcomes(doc, e) ==
    IF e.kind = "settings" THEN {[doc EXCEPT !.settings = @ + 1]}
    ELSE LET list == EnsureSubscriptionArray(doc)
         IN  IF Accepted(list, e) THEN {Apply(list, e)} ELSE {}

-----------------------------------------------------------------------------
(* A handler has validated its request and reads the revision.  What it    *)
(* goes on to edit is chosen when it writes: nothing depends on it before. *)
ReadRevision(h) ==
    /\ editor[h] = {}
    /\ editor' = [editor EXCEPT ![h] = {config}]
    /\ UNCHANGED <<config, scanWaiting, rssScan, ackedFeeds, removedFeeds, scannedFeeds>>

(* It answers an error: what it checks outside failed (OpenList, the feed, *)
(* the metadata), the file changed, or the edit is refused.                *)
RefuseEdit(h) ==
    /\ editor[h] # {}
    /\ editor' = [editor EXCEPT ![h] = {}]
    /\ UNCHANGED <<config, scanWaiting, rssScan, ackedFeeds, removedFeeds, scannedFeeds>>

Added(e) == IF e.kind \in {"add", "resume"} THEN {e.url} ELSE IF e.kind = "correct" THEN {e.new} ELSE {}
(* The addresses an edit takes away.                                       *)
Dropped(e) == IF e.kind = "remove" THEN {e.url}
              ELSE IF e.kind = "correct" THEN {e.url} \ {e.new} ELSE {}

(* Mutant: the edit is made to the document that was read first.           *)
WriteSeen(h, e) ==
    /\ \E seen \in editor[h] : config' \in Outcomes(seen, e)
    /\ editor' = [editor EXCEPT ![h] = {}]

(* update_checked: lock, compare the revision, edit, replace.              *)
Write(h, e) ==
    /\ config \in editor[h]
    /\ config' \in Outcomes(config, e)
    /\ editor' = [editor EXCEPT ![h] = {}]

Bounded(e) ==
    /\ e.kind = "settings" => config.settings < MaxVersion
    /\ e.kind \in Scheduling => scanWaiting < MaxWaiting

(* Mutant: no scan is scheduled while one is running.                      *)
ScheduleUnlessScanning(e) ==
    scanWaiting' = IF e.kind \in Scheduling /\ rssScan = "idle" THEN scanWaiting + 1
                   ELSE scanWaiting

(* schedule_rss_scan.                                                      *)
Schedule(e) == scanWaiting' = IF e.kind \in Scheduling THEN scanWaiting + 1 ELSE scanWaiting

(* The edit is made and acknowledged.                                      *)
Edit(h, e) ==
    /\ Bounded(e)
    /\ Write(h, e)
    /\ ackedFeeds' = (ackedFeeds \ Dropped(e)) \cup Added(e)
    /\ removedFeeds' = (removedFeeds \cup Dropped(e)) \ Added(e)
    /\ scannedFeeds' = (scannedFeeds \cap ackedFeeds') \ Added(e)
    /\ Schedule(e)
    /\ UNCHANGED rssScan

(* The file is replaced, but its directory cannot be synced or the list    *)
(* not be read again: the edit is there, and an error is answered.         *)
EditUnacknowledged(h, e) ==
    /\ Bounded(e)
    /\ Write(h, e)
    /\ ackedFeeds' = ackedFeeds \ (Dropped(e) \cup Added(e))
    /\ removedFeeds' = (removedFeeds \cup Dropped(e)) \ Added(e)
    /\ scannedFeeds' = scannedFeeds \cap ackedFeeds'
    /\ UNCHANGED <<scanWaiting, rssScan>>

-----------------------------------------------------------------------------
(* run_rss_scan gets rss_scan_lock, scheduled or after the poll interval,  *)
(* and reads the subscriptions.                                            *)
StartScan ==
    /\ rssScan = "idle"
    /\ scanWaiting > 0
    /\ scanWaiting' = scanWaiting - 1
    /\ rssScan' = "subscriptions"
    /\ UNCHANGED <<config, editor, ackedFeeds, removedFeeds, scannedFeeds>>

StartPeriodicScan ==
    /\ rssScan = "idle"
    /\ rssScan' = "subscriptions"
    /\ UNCHANGED <<config, editor, scanWaiting, ackedFeeds, removedFeeds, scannedFeeds>>

ReadSubscriptions ==
    /\ rssScan = "subscriptions"
    /\ scannedFeeds' = scannedFeeds \cup (Active(config) \cap ackedFeeds)
    /\ rssScan' = "submit"
    /\ UNCHANGED <<config, editor, scanWaiting, ackedFeeds, removedFeeds>>

EndScan ==
    /\ rssScan = "submit"
    /\ rssScan' = "idle"
    /\ UNCHANGED <<config, editor, scanWaiting, ackedFeeds, removedFeeds, scannedFeeds>>

-----------------------------------------------------------------------------
CfgInit ==
    /\ config = [settings |-> 0, listed |-> FALSE, feeds |-> << >>, legacy |-> LegacyUrls]
    /\ editor = [h \in Editors |-> {}]
    /\ scanWaiting = 0 /\ rssScan = "idle" /\ ackedFeeds = {} /\ removedFeeds = {} /\ scannedFeeds = {}

ScanStep == StartScan \/ ReadSubscriptions \/ EndScan

CfgNext ==
    \/ \E h \in Editors : \/ ReadRevision(h) \/ RefuseEdit(h)
                           \/ \E e \in Edits : Edit(h, e) \/ EditUnacknowledged(h, e)
    \/ ScanStep \/ StartPeriodicScan

(* The tasks of the runtime go on; nothing makes a poll interval end.      *)
CfgSpec == CfgInit /\ [][CfgNext]_cfgVars /\ WF_cfgVars(ScanStep)

-----------------------------------------------------------------------------
(* Whatever is edited at once: an address has one row; an addition that    *)
(* was acknowledged is there until it is removed or corrected; and the     *)
(* first edit of the list takes along every address of rss.urls.           *)
SubscriptionsKept ==
    /\ config \in Documents
    /\ IsInjective([i \in DOMAIN config.feeds |-> config.feeds[i].url])
    /\ ackedFeeds \subseteq Tracked(config)
    /\ config.legacy \subseteq Tracked(config) \cup removedFeeds

(* Every subscription that was added or resumed, and is not suspended, is  *)
(* read by a scan without waiting for the poll interval, also when it      *)
(* comes while a scan is running that has read the list.                   *)
AddedIsScanned ==
    \A u \in FeedUrls : (u \in ackedFeeds) ~> (u \in scannedFeeds \/ u \notin ackedFeeds \/ u \notin Active(config))

=============================================================================
