------------------------------- MODULE ServicesProofs -------------------------------
(* What the small components of the backend promise, for every value of    *)
(* their constants.  Each section has the invariant of one component, what *)
(* its steps do to the invariant, and the theorem that follows.            *)
EXTENDS ConfigStore, Notifications, EventManager, TtlCache, DreamLock, Lifecycle,
        SequenceTheorems, FiniteSetTheorems, TLAPS

------------------------------------------------------------------------------
(* The configuration file of the Rust service (ConfigStore).               *)

\* The addresses of a list of rows, and whether each has one row.
UrlsOf(rows) == {rows[i].url : i \in DOMAIN rows}
OneRowEach(rows) == \A i, j \in DOMAIN rows : rows[i].url = rows[j].url => i = j
Lists == {doc \in [settings : Nat, listed : BOOLEAN, feeds : Seq(Feeds), legacy : {LegacyUrls}] :
            OneRowEach(doc.feeds)}
CfgInv ==
    /\ config \in Lists /\ config.settings <= MaxVersion
    /\ ackedFeeds \subseteq Tracked(config)
    /\ config.legacy \subseteq Tracked(config) \union removedFeeds

LEMMA RowsConcat ==
    ASSUME NEW rows \in Seq(Feeds), NEW more \in Seq(Feeds), OneRowEach(rows), OneRowEach(more),
           UrlsOf(rows) \cap UrlsOf(more) = {}
    PROVE  /\ rows \o more \in Seq(Feeds) /\ OneRowEach(rows \o more)
           /\ UrlsOf(rows \o more) = UrlsOf(rows) \union UrlsOf(more)
  <1>1. /\ rows \o more \in Seq(Feeds) /\ Len(rows \o more) = Len(rows) + Len(more)
        /\ \A i \in 1 .. Len(rows) + Len(more) :
              (rows \o more)[i] = IF i <= Len(rows) THEN rows[i] ELSE more[i - Len(rows)]
      BY ConcatProperties
  <1>2. /\ Len(rows) \in Nat /\ Len(more) \in Nat /\ DOMAIN rows = 1 .. Len(rows)
        /\ DOMAIN more = 1 .. Len(more) /\ DOMAIN (rows \o more) = 1 .. Len(rows) + Len(more)
      BY <1>1
  <1> DEFINE both == rows \o more
  <1>3. /\ \A i \in DOMAIN rows : i \in DOMAIN both /\ both[i] = rows[i]
        /\ \A i \in DOMAIN more : i + Len(rows) \in DOMAIN both /\ both[i + Len(rows)] = more[i]
        /\ \A i \in DOMAIN both : i \in DOMAIN rows \/ i - Len(rows) \in DOMAIN more
        /\ \A i \in DOMAIN both : i \notin DOMAIN rows => both[i] = more[i - Len(rows)]
      BY <1>1, <1>2
  <1>4. both \in Seq(Feeds)
      BY <1>1
  <1> HIDE DEF both
  <1>5. UrlsOf(both) = UrlsOf(rows) \union UrlsOf(more)
    <2>1. UrlsOf(both) \subseteq UrlsOf(rows) \union UrlsOf(more)
        BY <1>3 DEF UrlsOf
    <2>2. UrlsOf(rows) \subseteq UrlsOf(both)
        BY <1>3 DEF UrlsOf
    <2>3. UrlsOf(more) \subseteq UrlsOf(both)
        BY <1>3 DEF UrlsOf
    <2> QED
        BY <2>1, <2>2, <2>3
  <1>6. OneRowEach(both)
    <2> SUFFICES ASSUME NEW i \in DOMAIN both, NEW j \in DOMAIN both, both[i].url = both[j].url PROVE i = j
        BY DEF OneRowEach
    <2>1. CASE i \in DOMAIN rows /\ j \in DOMAIN rows
        BY <1>3, <2>1 DEF OneRowEach
    <2>2. CASE i \notin DOMAIN rows /\ j \notin DOMAIN rows
      <3>1. i - Len(rows) = j - Len(rows)
          BY <1>3, <2>2 DEF OneRowEach
      <3>2. i \in Int /\ j \in Int /\ Len(rows) \in Int
          BY <1>2, <1>4
      <3> QED
          BY <3>1, <3>2
    <2>3. \A k \in DOMAIN both : k \in DOMAIN rows => both[k].url \in UrlsOf(rows)
        BY <1>3 DEF UrlsOf
    <2>4. \A k \in DOMAIN both : k \notin DOMAIN rows => both[k].url \in UrlsOf(more)
        BY <1>3 DEF UrlsOf
    <2> QED
        BY <2>1, <2>2, <2>3, <2>4
  <1> QED
      BY <1>4, <1>5, <1>6 DEF both

LEMMA RowAppended ==
    ASSUME NEW rows \in Seq(Feeds), OneRowEach(rows), NEW u \in FeedUrls \ UrlsOf(rows)
    PROVE  /\ Append(rows, Feed(u)) \in Seq(Feeds) /\ OneRowEach(Append(rows, Feed(u)))
           /\ UrlsOf(Append(rows, Feed(u))) = UrlsOf(rows) \union {u}
  <1>1. Feed(u) \in Feeds /\ Feed(u).url = u
      BY DEF Feed, Feeds
  <1>2. <<Feed(u)>> \in Seq(Feeds) /\ OneRowEach(<<Feed(u)>>) /\ UrlsOf(<<Feed(u)>>) = {u}
      BY <1>1 DEF OneRowEach, UrlsOf
  <1>3. UrlsOf(rows) \cap UrlsOf(<<Feed(u)>>) = {}
      BY <1>2
  <1>4. Append(rows, Feed(u)) = rows \o <<Feed(u)>>
      BY <1>1, AppendIsConcat
  <1> QED
      BY <1>2, <1>3, <1>4, RowsConcat

LEMMA RowRemoved ==
    ASSUME NEW rows \in Seq(Feeds), OneRowEach(rows), NEW k \in DOMAIN rows
    PROVE  /\ RemoveAt(rows, k) \in Seq(Feeds) /\ OneRowEach(RemoveAt(rows, k))
           /\ UrlsOf(RemoveAt(rows, k)) = UrlsOf(rows) \ {rows[k].url}
  <1> DEFINE before == SubSeq(rows, 1, k - 1)
             after == SubSeq(rows, k + 1, Len(rows))
  <1>1. Len(rows) \in Nat /\ DOMAIN rows = 1 .. Len(rows) /\ k \in 1 .. Len(rows)
      OBVIOUS
  <1>2. /\ before \in Seq(Feeds) /\ DOMAIN before = 1 .. k - 1
        /\ \A i \in 1 .. k - 1 : before[i] = rows[i]
    <2>1. \A i \in 1 .. k - 1 : rows[i] \in Feeds
        BY <1>1
    <2>2. 1 \in Int /\ k - 1 \in Int
        BY <1>1
    <2>3. /\ SubSeq(rows, 1, k - 1) \in Seq(Feeds)
          /\ Len(SubSeq(rows, 1, k - 1)) = IF 1 <= k - 1 THEN (k - 1) - 1 + 1 ELSE 0
          /\ \A i \in 1 .. (k - 1) - 1 + 1 : SubSeq(rows, 1, k - 1)[i] = rows[1 + i - 1]
        BY <2>1, <2>2, SubSeqProperties
    <2>4. (k - 1) - 1 + 1 = k - 1 /\ (IF 1 <= k - 1 THEN k - 1 ELSE 0) = k - 1
          /\ \A i \in Int : 1 + i - 1 = i
        BY <1>1
    <2> QED
      <3>1. Len(before) = k - 1 /\ DOMAIN before = 1 .. Len(before)
          BY <2>3, <2>4
      <3>2. ASSUME NEW i \in 1 .. k - 1 PROVE before[i] = rows[i]
        <4>1. i \in 1 .. (k - 1) - 1 + 1 /\ 1 + i - 1 = i
            BY <2>4
        <4>2. before[i] = rows[1 + i - 1]
            BY <2>3, <4>1
        <4> QED
            BY <4>1, <4>2
      <3> QED
          BY <2>3, <3>1, <3>2
  <1>3. /\ after \in Seq(Feeds) /\ DOMAIN after = 1 .. Len(rows) - k
        /\ \A i \in 1 .. Len(rows) - k : after[i] = rows[k + i]
    <2>1. \A i \in k + 1 .. Len(rows) : rows[i] \in Feeds
        BY <1>1
    <2>2. k + 1 \in Int /\ Len(rows) \in Int
        BY <1>1
    <2>3. /\ SubSeq(rows, k + 1, Len(rows)) \in Seq(Feeds)
          /\ Len(SubSeq(rows, k + 1, Len(rows))) = IF k + 1 <= Len(rows) THEN Len(rows) - (k + 1) + 1 ELSE 0
          /\ \A i \in 1 .. Len(rows) - (k + 1) + 1 :
                SubSeq(rows, k + 1, Len(rows))[i] = rows[(k + 1) + i - 1]
        BY <2>1, <2>2, SubSeqProperties
    <2>4. Len(rows) - (k + 1) + 1 = Len(rows) - k
          /\ (IF k + 1 <= Len(rows) THEN Len(rows) - k ELSE 0) = Len(rows) - k
          /\ \A i \in Int : (k + 1) + i - 1 = k + i
        BY <1>1
    <2> QED
      <3>1. Len(after) = Len(rows) - k /\ DOMAIN after = 1 .. Len(after)
          BY <2>3, <2>4
      <3>2. ASSUME NEW i \in 1 .. Len(rows) - k PROVE after[i] = rows[k + i]
        <4>1. i \in 1 .. Len(rows) - (k + 1) + 1 /\ (k + 1) + i - 1 = k + i
            BY <2>4
        <4>2. after[i] = rows[(k + 1) + i - 1]
            BY <2>3, <4>1
        <4> QED
            BY <4>1, <4>2
      <3> QED
          BY <2>3, <3>1, <3>2
  <1> HIDE DEF before, after
  <1>4. OneRowEach(before) /\ OneRowEach(after)
    <2>1. \A i \in 1 .. k - 1 : i \in DOMAIN rows
        BY <1>1
    <2>2. \A i \in 1 .. Len(rows) - k : k + i \in DOMAIN rows
        BY <1>1
    <2>3. \A i, j \in 1 .. Len(rows) - k : k + i = k + j => i = j
        BY <1>1
    <2>4. OneRowEach(before)
        BY <1>2, <2>1 DEF OneRowEach
    <2>5. OneRowEach(after)
      <3> SUFFICES ASSUME NEW i \in 1 .. Len(rows) - k, NEW j \in 1 .. Len(rows) - k,
                          after[i].url = after[j].url
                   PROVE  i = j
          BY <1>3 DEF OneRowEach
      <3>1. rows[k + i].url = rows[k + j].url
          BY <1>3
      <3>2. k + i = k + j
          BY <2>2, <3>1 DEF OneRowEach
      <3> QED
          BY <2>3, <3>2
    <2> QED
        BY <2>4, <2>5
  <1>5. UrlsOf(before) \cap UrlsOf(after) = {}
    <2> SUFFICES ASSUME NEW i \in 1 .. k - 1, NEW j \in 1 .. Len(rows) - k, before[i].url = after[j].url
                 PROVE  FALSE
        BY <1>2, <1>3 DEF UrlsOf
    <2>1. i \in DOMAIN rows /\ k + j \in DOMAIN rows /\ i # k + j
        BY <1>1
    <2> QED
        BY <1>2, <1>3, <2>1 DEF OneRowEach
  <1>6. UrlsOf(before) \union UrlsOf(after) = UrlsOf(rows) \ {rows[k].url}
    <2>1. ASSUME NEW i \in DOMAIN rows, rows[i].url # rows[k].url
          PROVE  rows[i].url \in UrlsOf(before) \union UrlsOf(after)
      <3>1. CASE i < k
          BY <1>1, <1>2, <3>1 DEF UrlsOf
      <3>2. CASE i > k
        <4> i - k \in DOMAIN after /\ after[i - k] = rows[i]
            BY <1>1, <1>3, <3>2
        <4> QED
            BY DEF UrlsOf
      <3> QED
          BY <1>1, <2>1, <3>1, <3>2
    <2>2. UrlsOf(before) \subseteq UrlsOf(rows) \ {rows[k].url}
        BY <1>1, <1>2 DEF UrlsOf, OneRowEach
    <2>3. UrlsOf(after) \subseteq UrlsOf(rows) \ {rows[k].url}
        BY <1>1, <1>3 DEF UrlsOf, OneRowEach
    <2>4. UrlsOf(rows) \ {rows[k].url} \subseteq UrlsOf(before) \union UrlsOf(after)
        BY <2>1 DEF UrlsOf
    <2> QED
        BY <2>2, <2>3, <2>4
  <1>7. RemoveAt(rows, k) = before \o after
      BY DEF RemoveAt, before, after
  <1> QED
      BY <1>2, <1>3, <1>4, <1>5, <1>6, <1>7, RowsConcat

\* The rows taken over from rss.urls, in some order.
LEMMA RowsOfSet ==
    ASSUME NEW S \in SUBSET FeedUrls
    PROVE  LET rows == SetToSeq({Feed(u) : u \in S})
           IN rows \in Seq(Feeds) /\ OneRowEach(rows) /\ UrlsOf(rows) = S
  <1> DEFINE F == {Feed(u) : u \in S}
             rows == SetToSeq(F)
             n == Cardinality(F)
  <1>1. IsFiniteSet(F)
    <2>1. IsFiniteSet(S)
        BY ConfigAssumption, FS_Subset
    <2>2. [u \in S |-> Feed(u)] \in Surjection(S, F)
        BY DEF Surjection
    <2> QED
        BY <2>1, <2>2, FS_Surjection
  <1>2. n \in Nat /\ ExistsBijection(1 .. n, F)
      BY <1>1, FS_CardinalityType
  <1>3. \E f \in [1 .. n -> F] : IsInjective(f)
      BY <1>2 DEF ExistsBijection, Bijection, Injection
  <1>4. rows \in [1 .. n -> F] /\ IsInjective(rows)
      BY <1>3 DEF SetToSeq
  <1>5. rows \in Surjection(1 .. n, F)
    <2>1. rows \in Injection(1 .. n, F)
        BY <1>4 DEF Injection
    <2>2. Cardinality(1 .. n) = n
        BY <1>2, FS_Interval
    <2> QED
        BY <1>1, <2>1, <2>2, FS_Injection
  <1>6. F \subseteq Feeds /\ \A f \in F : f = Feed(f.url) /\ f.url \in S
    <2> SUFFICES ASSUME NEW u \in S
                 PROVE  Feed(u) \in Feeds /\ Feed(u) = Feed(Feed(u).url) /\ Feed(u).url \in S
        OBVIOUS
    <2>1. Feed(u).url = u
        BY DEF Feed
    <2> QED
        BY <2>1 DEF Feed, Feeds
  <1>7. \A f \in F : \E i \in 1 .. n : rows[i] = f
      BY <1>5 DEF Surjection
  <1>8. \A i, j \in 1 .. n : rows[i] = rows[j] => i = j
      BY <1>4 DEF IsInjective
  <1> HIDE DEF F, rows, n
  <1>9. rows \in Seq(Feeds) /\ DOMAIN rows = 1 .. n
    <2> rows \in [1 .. n -> Feeds]
        BY <1>4, <1>6
    <2> QED
        BY <1>2
  <1>10. OneRowEach(rows)
    <2> SUFFICES ASSUME NEW i \in 1 .. n, NEW j \in 1 .. n, rows[i].url = rows[j].url PROVE i = j
        BY <1>9 DEF OneRowEach
    <2> rows[i] \in F /\ rows[j] \in F
        BY <1>4
    <2> QED
        BY <1>6, <1>8
  <1>11. UrlsOf(rows) = S
    <2>1. UrlsOf(rows) \subseteq S
        BY <1>4, <1>6, <1>9 DEF UrlsOf
    <2>2. ASSUME NEW u \in S PROVE u \in UrlsOf(rows)
      <3> Feed(u) \in F /\ Feed(u).url = u
          BY DEF F, Feed
      <3> PICK i \in 1 .. n : rows[i] = Feed(u)
          BY <1>7
      <3> QED
          BY <1>9 DEF UrlsOf
    <2> QED
        BY <2>1, <2>2
  <1> QED
      BY <1>9, <1>10, <1>11 DEF F, rows

LEMMA EnsureSound ==
    ASSUME NEW doc \in Lists
    PROVE  /\ EnsureSubscriptionArray(doc) \in Lists /\ EnsureSubscriptionArray(doc).listed
           /\ EnsureSubscriptionArray(doc).settings = doc.settings
           /\ Urls(EnsureSubscriptionArray(doc)) = Urls(doc) \union LegacyUrls
  <1> DEFINE old == doc.legacy \ Urls(doc)
             more == SetToSeq({Feed(u) : u \in old})
  <1>1. doc.feeds \in Seq(Feeds) /\ OneRowEach(doc.feeds) /\ doc.legacy = LegacyUrls /\ Urls(doc) = UrlsOf(doc.feeds)
      BY DEF Lists, Urls, UrlsOf
  <1>2. old \in SUBSET FeedUrls
      BY <1>1, ConfigAssumption
  <1>3. more \in Seq(Feeds) /\ OneRowEach(more) /\ UrlsOf(more) = old
      BY <1>2, RowsOfSet
  <1> HIDE DEF more
  <1>4. /\ doc.feeds \o more \in Seq(Feeds) /\ OneRowEach(doc.feeds \o more)
        /\ UrlsOf(doc.feeds \o more) = UrlsOf(doc.feeds) \union old
      BY <1>1, <1>3, RowsConcat
  <1>5. EnsureSubscriptionArray(doc) = [doc EXCEPT !.listed = TRUE, !.feeds = doc.feeds \o more]
      BY DEF EnsureSubscriptionArray, more
  <1>6. EnsureSubscriptionArray(doc) \in Lists /\ EnsureSubscriptionArray(doc).listed
        /\ EnsureSubscriptionArray(doc).settings = doc.settings
        /\ EnsureSubscriptionArray(doc).feeds = doc.feeds \o more
      BY <1>4, <1>5 DEF Lists
  <1> QED
      BY <1>1, <1>4, <1>6 DEF Urls, UrlsOf

\* What an edit that a list accepts leaves in it.
LEMMA ApplySound ==
    ASSUME NEW list \in Lists, list.listed, NEW e \in Edits, e.kind # "settings", Accepted(list, e)
    PROVE  /\ Apply(list, e) \in Lists /\ Apply(list, e).listed /\ Apply(list, e).settings = list.settings
           /\ Urls(Apply(list, e)) = (Urls(list) \ Dropped(e)) \union Added(e)
  <1>1. /\ list.feeds \in Seq(Feeds) /\ OneRowEach(list.feeds) /\ Urls(list) = UrlsOf(list.feeds)
        /\ DOMAIN list.feeds = 1 .. Len(list.feeds) /\ Len(list.feeds) \in Nat
      BY DEF Lists, Urls, UrlsOf
  <1>2. ASSUME NEW rows \in Seq(Feeds), OneRowEach(rows), Apply(list, e) = [list EXCEPT !.feeds = rows],
               UrlsOf(rows) = (Urls(list) \ Dropped(e)) \union Added(e)
        PROVE  /\ Apply(list, e) \in Lists /\ Apply(list, e).listed /\ Apply(list, e).settings = list.settings
               /\ Urls(Apply(list, e)) = (Urls(list) \ Dropped(e)) \union Added(e)
    <2>1. /\ [list EXCEPT !.feeds = rows] \in Lists /\ [list EXCEPT !.feeds = rows].feeds = rows
          /\ [list EXCEPT !.feeds = rows].listed /\ [list EXCEPT !.feeds = rows].settings = list.settings
        BY <1>2 DEF Lists
    <2> QED
        BY <1>2, <2>1 DEF Urls, UrlsOf
  <1>3. CASE e.kind = "add"
    <2>1. e.url \in FeedUrls \ UrlsOf(list.feeds)
        BY <1>1, <1>3 DEF Accepted, Edits
    <2>2. Apply(list, e) = [list EXCEPT !.feeds = Append(list.feeds, Feed(e.url))]
        BY <1>3 DEF Apply
    <2>3. /\ Append(list.feeds, Feed(e.url)) \in Seq(Feeds) /\ OneRowEach(Append(list.feeds, Feed(e.url)))
          /\ UrlsOf(Append(list.feeds, Feed(e.url))) = UrlsOf(list.feeds) \union {e.url}
        BY <1>1, <2>1, RowAppended
    <2>4. Dropped(e) = {} /\ Added(e) = {e.url}
        BY <1>3 DEF Dropped, Added
    <2> QED
        BY <1>1, <1>2, <2>2, <2>3, <2>4
  <1>4. CASE e.kind = "remove"
    <2> DEFINE k == CHOOSE i \in DOMAIN list.feeds : list.feeds[i].url = e.url
    <2>1. e.url \in UrlsOf(list.feeds)
        BY <1>1, <1>4 DEF Accepted
    <2>2. k \in DOMAIN list.feeds /\ list.feeds[k].url = e.url
        BY <2>1 DEF UrlsOf
    <2>3. Apply(list, e) = [list EXCEPT !.feeds = RemoveAt(list.feeds, k)]
        BY <1>4 DEF Apply
    <2> HIDE DEF k
    <2>4. /\ RemoveAt(list.feeds, k) \in Seq(Feeds) /\ OneRowEach(RemoveAt(list.feeds, k))
          /\ UrlsOf(RemoveAt(list.feeds, k)) = UrlsOf(list.feeds) \ {e.url}
        BY <1>1, <2>2, RowRemoved
    <2>5. Dropped(e) = {e.url} /\ Added(e) = {}
        BY <1>4 DEF Dropped, Added
    <2> QED
        BY <1>1, <1>2, <2>3, <2>4, <2>5
  <1>5. CASE e.kind \notin {"add", "remove"}
    <2> DEFINE rows == [i \in DOMAIN list.feeds |-> NewRow(list.feeds[i], e)]
    <2>1. Apply(list, e) = [list EXCEPT !.feeds = rows]
        BY <1>5 DEF Apply
    <2>2. e.kind \in {"resume", "suspend", "correct"} /\ e.url \in FeedUrls /\ e.url \in UrlsOf(list.feeds)
          /\ (e.kind = "correct" => e.new \in FeedUrls /\ e.new \notin UrlsOf(list.feeds) \ {e.url})
        BY <1>1, <1>5 DEF Accepted, Edits
    <2> DEFINE url == IF e.kind = "correct" THEN e.new ELSE e.url
    <2>3. \A i \in DOMAIN list.feeds :
            /\ rows[i] \in Feeds
            /\ rows[i].url = IF list.feeds[i].url = e.url THEN url ELSE list.feeds[i].url
      <3> SUFFICES ASSUME NEW i \in DOMAIN list.feeds
                   PROVE  /\ NewRow(list.feeds[i], e) \in Feeds
                          /\ NewRow(list.feeds[i], e).url =
                               IF list.feeds[i].url = e.url THEN url ELSE list.feeds[i].url
          OBVIOUS
      <3>1. list.feeds[i] \in [url : FeedUrls, active : BOOLEAN]
        <4> list.feeds[i] \in Feeds
            BY <1>1
        <4> QED
            BY DEF Feeds
      <3>2. CASE e.kind = "resume"
          BY <2>2, <3>1, <3>2 DEF NewRow, Feed, Feeds
      <3>3. CASE e.kind = "suspend"
          BY <2>2, <3>1, <3>3 DEF NewRow, Feed, Feeds
      <3>4. CASE e.kind = "correct"
          BY <2>2, <3>1, <3>4 DEF NewRow, Feed, Feeds
      <3> QED
          BY <2>2, <3>2, <3>3, <3>4
    <2>4. rows \in Seq(Feeds) /\ DOMAIN rows = DOMAIN list.feeds
      <3> rows \in [1 .. Len(list.feeds) -> Feeds]
          BY <1>1, <2>3
      <3> QED
          BY <1>1
    <2>5. url \notin UrlsOf(list.feeds) \ {e.url}
        BY <2>2
    <2>6. Dropped(e) = {e.url} \ {url} /\ (Added(e) = {url} \/ (Added(e) = {} /\ url = e.url))
      <3>1. CASE e.kind = "correct"
          BY <2>2, <3>1 DEF Dropped, Added
      <3>2. CASE e.kind \in {"resume", "suspend"}
          BY <2>2, <3>2 DEF Dropped, Added
      <3> QED
          BY <2>2, <3>1, <3>2
    <2> HIDE DEF rows, url
    <2>7. OneRowEach(rows)
        BY <1>1, <2>3, <2>4, <2>5 DEF OneRowEach, UrlsOf
    <2>8. UrlsOf(rows) = (UrlsOf(list.feeds) \ {e.url}) \union {url}
      <3>1. UrlsOf(rows) \subseteq (UrlsOf(list.feeds) \ {e.url}) \union {url}
          BY <2>3, <2>4 DEF UrlsOf
      <3>2. UrlsOf(list.feeds) \ {e.url} \subseteq UrlsOf(rows)
          BY <2>3, <2>4 DEF UrlsOf
      <3>3. url \in UrlsOf(rows)
          BY <2>2, <2>3, <2>4 DEF UrlsOf
      <3> QED
          BY <3>1, <3>2, <3>3
    <2>9. UrlsOf(rows) = (Urls(list) \ Dropped(e)) \union Added(e)
        BY <1>1, <2>2, <2>6, <2>8
    <2> QED
        BY <1>2, <2>1, <2>4, <2>7, <2>9
  <1> QED
      BY <1>3, <1>4, <1>5

\* Where an edit of the file leads: what is tracked then.
LEMMA OutcomeSound ==
    ASSUME CfgInv, NEW e \in Edits, Bounded(e), config' \in Outcomes(config, e)
    PROVE  /\ config' \in Lists /\ config'.settings <= MaxVersion
           /\ (Tracked(config) \ Dropped(e)) \union Added(e) \subseteq Tracked(config')
           /\ config'.legacy = config.legacy
           /\ config'.legacy \subseteq Tracked(config') \union removedFeeds \union Dropped(e)
  <1>1. config \in Lists /\ config.settings <= MaxVersion /\ config.legacy = LegacyUrls
      BY DEF CfgInv, Lists
  <1>2. CASE e.kind = "settings"
    <2>1. config' = [config EXCEPT !.settings = @ + 1] /\ config.settings < MaxVersion
        BY <1>2 DEF Outcomes, Bounded
    <2>2. config' \in Lists /\ config'.settings <= MaxVersion /\ Tracked(config') = Tracked(config)
          /\ config'.legacy = config.legacy
        BY <1>1, <2>1, ConfigAssumption DEF Lists, Tracked, Urls
    <2>3. Added(e) = {}
        BY <1>2 DEF Added
    <2> QED
        BY <2>2, <2>3 DEF CfgInv
  <1>3. CASE e.kind # "settings"
    <2> DEFINE list == EnsureSubscriptionArray(config)
    <2>1. Accepted(list, e) /\ config' = Apply(list, e)
        BY <1>3 DEF Outcomes
    <2>2. list \in Lists /\ list.listed /\ list.settings = config.settings
          /\ Urls(list) = Urls(config) \union LegacyUrls
        BY <1>1, EnsureSound
    <2> HIDE DEF list
    <2>3. /\ config' \in Lists /\ config'.listed /\ config'.settings = config.settings
          /\ Urls(config') = (Urls(list) \ Dropped(e)) \union Added(e)
        BY <1>3, <2>1, <2>2, ApplySound
    <2>4. Tracked(config') = Urls(config') /\ Tracked(config) \subseteq Urls(list) /\ config'.legacy = LegacyUrls
        BY <1>1, <2>2, <2>3 DEF Tracked, Lists
    <2> QED
        BY <1>1, <2>2, <2>3, <2>4
  <1> QED
      BY <1>2, <1>3

LEMMA EditKeeps ==
    ASSUME CfgInv, NEW h \in Editors, NEW e \in Edits, Edit(h, e) \/ EditUnacknowledged(h, e)
    PROVE  CfgInv'
  <1>1. Bounded(e) /\ config' \in Outcomes(config, e)
      BY DEF Edit, EditUnacknowledged, Write
  <1>2. /\ ackedFeeds' \subseteq (ackedFeeds \ Dropped(e)) \union Added(e)
        /\ removedFeeds' = (removedFeeds \union Dropped(e)) \ Added(e)
      BY DEF Edit, EditUnacknowledged
  <1>3. /\ config' \in Lists /\ config'.settings <= MaxVersion
        /\ (Tracked(config) \ Dropped(e)) \union Added(e) \subseteq Tracked(config')
        /\ config'.legacy \subseteq Tracked(config') \union removedFeeds \union Dropped(e)
      BY <1>1, OutcomeSound
  <1>4. Tracked(config)' = Tracked(config')
      BY DEF Tracked, Urls
  <1> QED
      BY <1>2, <1>3, <1>4 DEF CfgInv

\* Whatever is edited at once, an address has one row, an acknowledged addition is
\* there until it is removed or corrected, and no address of rss.urls gets lost
\* (config_store.rs, update_checked and ensure_subscription_array).
THEOREM NoSubscriptionLost == CfgSpec => []SubscriptionsKept
  <1>1. CfgInit => CfgInv
    <2> SUFFICES ASSUME CfgInit PROVE CfgInv
        OBVIOUS
    <2>1. OneRowEach(<<>>) /\ <<>> \in Seq(Feeds)
        BY DEF OneRowEach
    <2> QED
        BY <2>1, ConfigAssumption DEF CfgInit, CfgInv, Lists, Tracked
  <1>2. CfgInv /\ [CfgNext]_cfgVars => CfgInv'
    <2> SUFFICES ASSUME CfgInv, [CfgNext]_cfgVars PROVE CfgInv'
        OBVIOUS
    <2>1. ASSUME NEW h \in Editors, NEW e \in Edits, Edit(h, e) \/ EditUnacknowledged(h, e) PROVE CfgInv'
        BY <2>1, EditKeeps
    <2>2. CASE UNCHANGED <<config, ackedFeeds, removedFeeds>>
        BY <2>2 DEF CfgInv, Tracked, Urls
    <2>3. CASE ScanStep \/ StartPeriodicScan
        BY <2>2, <2>3 DEF ScanStep, StartScan, ReadSubscriptions, EndScan,
           StartPeriodicScan
    <2>4. ASSUME NEW h \in Editors, ReadRevision(h) \/ RefuseEdit(h) PROVE CfgInv'
        BY <2>2, <2>4 DEF ReadRevision, RefuseEdit
    <2> QED
        BY <2>1, <2>2, <2>3, <2>4 DEF CfgNext, cfgVars
  <1>3. CfgInv => SubscriptionsKept
    <2> SUFFICES ASSUME CfgInv PROVE SubscriptionsKept
        OBVIOUS
    <2> DEFINE rows == config.feeds
               urls == [i \in DOMAIN rows |-> rows[i].url]
    <2>1. rows \in Seq(Feeds) /\ OneRowEach(rows) /\ config.settings \in 0 .. MaxVersion
        BY ConfigAssumption DEF CfgInv, Lists
    <2>2. IsInjective(urls)
        BY <2>1 DEF OneRowEach, IsInjective
    <2>3. Len(rows) <= Cardinality(FeedUrls) /\ Cardinality(FeedUrls) \in Nat
      <3>1. DOMAIN rows = 1 .. Len(rows) /\ Len(rows) \in Nat /\ \A i \in 1 .. Len(rows) : rows[i].url \in FeedUrls
        <4> \A i \in 1 .. Len(rows) : rows[i] \in Feeds
            BY <2>1
        <4> QED
            BY <2>1 DEF Feeds
      <3>2. urls \in Injection(1 .. Len(rows), FeedUrls)
          BY <2>2, <3>1 DEF Injection
      <3>3. Cardinality(1 .. Len(rows)) = Len(rows)
          BY <3>1, FS_Interval
      <3> HIDE DEF urls
      <3> QED
          BY <3>2, <3>3, ConfigAssumption, FS_Injection, FS_CardinalityType
    <2>4. rows \in BoundedSeq(Feeds, Cardinality(FeedUrls))
      <3>1. rows \in [1 .. Len(rows) -> Feeds] /\ Len(rows) \in 0 .. Cardinality(FeedUrls)
          BY <2>1, <2>3
      <3> QED
          BY <3>1 DEF BoundedSeq, SeqOf
    <2>5. config \in Documents
        BY <2>1, <2>4, ConfigAssumption DEF CfgInv, Lists, Documents
    <2> QED
        BY <2>2, <2>5 DEF CfgInv, SubscriptionsKept
  <1> QED
      BY <1>1, <1>2, <1>3, PTL DEF CfgSpec

------------------------------------------------------------------------------
(* Notifications.                                                          *)

NtfTypes ==
    /\ sending \in [bots : Seq(BotSet), message : SUBSET Titles, attempt : Nat]
    /\ announcing \subseteq Titles /\ queued \subseteq Titles
    /\ batch \in [BotSet -> SUBSET Titles] /\ arrived \in [BotSet -> SUBSET Titles]
    /\ repeated \in [BotSet -> SUBSET Titles] /\ doubted \in [BotSet -> SUBSET Titles]

(* A pass serves each bot once, and what it sends is what is queued.       *)
PassIn(queues, pass) ==
    pass # NoPass => /\ pass.bots # << >> /\ IsInjective(pass.bots)
                     /\ pass.message = queues[Head(pass.bots)]

(* What a bot has heard of and still has queued was sent to it in a        *)
(* message whose answer was lost.                                          *)
Booked ==
    /\ announcing \cap queued = {}
    /\ \A b \in BotSet : /\ batch[b] \cup arrived[b] \subseteq queued
                         /\ batch[b] \cap arrived[b] \subseteq doubted[b]

NtfInv == NtfTypes /\ PassIn(batch, sending) /\ Booked /\ TitlesKept

LEMMA InitNtf == NtfInit => NtfInv
  BY DEF NtfInit, NtfInv, NtfTypes, PassIn, Booked, TitlesKept, NoPass

(* The pass goes on with a bot that is still to be served.                 *)
LEMMA NextBotServes ==
    ASSUME NtfTypes, NEW bots \in Seq(BotSet), IsInjective(bots)
    PROVE  /\ NextBot(bots) \in [bots : Seq(BotSet), message : SUBSET Titles, attempt : Nat]
           /\ PassIn(batch, NextBot(bots))
PROOF
  <1>1. CASE bots = << >>
    BY <1>1 DEF NextBot, PassIn, NoPass
  <1>2. CASE bots # << >>
    <2>1. Head(bots) \in BotSet
      BY <1>2
    <2> QED
      BY <1>2, <2>1 DEF NextBot, PassIn, NtfTypes
  <1> QED
    BY <1>1, <1>2

LEMMA TailServes ==
    ASSUME NtfInv, sending # NoPass
    PROVE  /\ Head(sending.bots) \in BotSet
           /\ Tail(sending.bots) \in Seq(BotSet) /\ IsInjective(Tail(sending.bots))
           /\ \A i \in DOMAIN Tail(sending.bots) : Tail(sending.bots)[i] # Head(sending.bots)
PROOF
  <1> DEFINE bots == sending.bots
  <1>1. bots \in Seq(BotSet) /\ bots # << >> /\ IsInjective(bots)
    BY DEF NtfInv, NtfTypes, PassIn
  <1>2. \A i \in DOMAIN Tail(bots) : i \in Nat /\ i + 1 \in DOMAIN bots /\ Tail(bots)[i] = bots[i + 1] /\ i # 0
    BY <1>1
  <1>3. Head(bots) = bots[1] /\ 1 \in DOMAIN bots
    BY <1>1
  <1>4. \A i, j \in DOMAIN Tail(bots) : Tail(bots)[i] = Tail(bots)[j] => i = j
    BY <1>1, <1>2 DEF IsInjective
  <1>5. \A i \in DOMAIN Tail(bots) : Tail(bots)[i] # Head(bots)
    BY <1>1, <1>2, <1>3 DEF IsInjective
  <1>6. Head(bots) \in BotSet /\ Tail(bots) \in Seq(BotSet)
    BY <1>1
  <1> HIDE DEF bots
  <1> QED
    BY <1>4, <1>5, <1>6 DEF IsInjective, bots

(* The bots after the one that is served are served from queues that only  *)
(* that one's answer changes.                                              *)
LEMMA NextAfterServes ==
    ASSUME NtfInv, sending # NoPass, NEW queues \in [BotSet -> SUBSET Titles],
           \A b \in BotSet \ {Head(sending.bots)} : queues[b] = batch[b]
    PROVE  /\ NextBot(Tail(sending.bots)) \in [bots : Seq(BotSet), message : SUBSET Titles, attempt : Nat]
           /\ PassIn(queues, NextBot(Tail(sending.bots)))
PROOF
  <1> DEFINE rest == Tail(sending.bots)
  <1>1. rest \in Seq(BotSet) /\ IsInjective(rest) /\ \A i \in DOMAIN rest : rest[i] # Head(sending.bots)
    BY TailServes
  <1>2. /\ NextBot(rest) \in [bots : Seq(BotSet), message : SUBSET Titles, attempt : Nat]
        /\ PassIn(batch, NextBot(rest))
    BY <1>1, NextBotServes DEF NtfInv
  <1>3. CASE rest = << >>
    BY <1>2, <1>3 DEF NextBot, PassIn
  <1>4. CASE rest # << >>
    <2>1. Head(rest) \in BotSet /\ Head(rest) # Head(sending.bots)
      <3>1. 1 \in DOMAIN rest /\ Head(rest) = rest[1] /\ Head(rest) \in BotSet
        BY <1>1, <1>4
      <3> HIDE DEF rest
      <3> QED
        BY <1>1, <3>1
    <2>2. NextBot(rest).bots = rest /\ NextBot(rest).message = batch[Head(rest)]
      BY <1>4 DEF NextBot
    <2> QED
      BY <1>1, <1>2, <1>4, <2>1, <2>2 DEF PassIn
  <1> QED
    BY <1>2, <1>3, <1>4

(* A message arrives, without its answer or with it.                       *)
LEMMA ArriveKeeps ==
    ASSUME NtfInv, NEW b \in BotSet, Sending(b), Arrive(b)
    PROVE  /\ arrived' \in [BotSet -> SUBSET Titles] /\ repeated' \in [BotSet -> SUBSET Titles]
           /\ sending.message = batch[b]
           /\ arrived'[b] = arrived[b] \cup batch[b]
           /\ repeated'[b] = repeated[b] \cup (arrived[b] \cap batch[b])
           /\ \A o \in BotSet \ {b} : arrived'[o] = arrived[o] /\ repeated'[o] = repeated[o]
  BY DEF NtfInv, NtfTypes, PassIn, Sending, LockFree, Arrive

LEMMA DeliverKeeps ==
    ASSUME NtfInv, NEW b \in BotSet, Deliver(b)
    PROVE  NtfInv'
PROOF
  <1>1. Sending(b) /\ Arrive(b) /\ sending # NoPass /\ b = Head(sending.bots)
    BY DEF Deliver, Sending, LockFree
  <1>2. /\ batch' \in [BotSet -> SUBSET Titles] /\ batch'[b] = {}
        /\ \A o \in BotSet \ {b} : batch'[o] = batch[o]
    BY DEF Deliver, NtfInv, NtfTypes
  <1>3. UNCHANGED <<manager, announcing, queued, doubted>> /\ sending' = NextBot(Tail(sending.bots))
    BY DEF Deliver
  <1>4. NtfTypes' /\ PassIn(batch, sending)'
    BY <1>1, <1>2, <1>3, NextAfterServes, ArriveKeeps DEF NtfInv, NtfTypes, PassIn
  <1>5. Booked' /\ TitlesKept'
    BY <1>1, <1>2, <1>3, ArriveKeeps DEF NtfInv, Booked, TitlesKept
  <1> QED
    BY <1>4, <1>5 DEF NtfInv

(* A message whose answer is lost, of an attempt or when the worker is     *)
(* cancelled.                                                              *)
LEMMA LostKeeps ==
    ASSUME NtfInv, UNCHANGED <<announcing, queued, batch>>,
           \/ UNCHANGED <<arrived, repeated, doubted>>
           \/ \E b \in BotSet : Sending(b) /\ Arrive(b) /\ Doubt(b),
           sending' \in [bots : Seq(BotSet), message : SUBSET Titles, attempt : Nat],
           PassIn(batch, sending')
    PROVE  NtfInv'
PROOF
  <1>1. PassIn(batch, sending)'
    BY DEF PassIn
  <1>2. CASE UNCHANGED <<arrived, repeated, doubted>>
    BY <1>1, <1>2 DEF NtfInv, NtfTypes, Booked, TitlesKept
  <1>3. ASSUME NEW b \in BotSet, Sending(b), Arrive(b), Doubt(b)
        PROVE  NtfInv'
    <2>1. /\ doubted' \in [BotSet -> SUBSET Titles] /\ doubted'[b] = doubted[b] \cup sending.message
          /\ \A o \in BotSet \ {b} : doubted'[o] = doubted[o]
      BY <1>3 DEF Doubt, NtfInv, NtfTypes
    <2>2. NtfTypes'
      BY <1>3, <2>1, ArriveKeeps DEF NtfInv, NtfTypes
    <2>3. Booked' /\ TitlesKept'
      BY <1>3, <2>1, ArriveKeeps DEF NtfInv, Booked, TitlesKept
    <2> QED
      BY <1>1, <2>2, <2>3 DEF NtfInv
  <1> QED
    BY <1>2, <1>3

LEMMA AttemptKeeps ==
    ASSUME NtfInv, NEW b \in BotSet, Attempt(b)
    PROVE  NtfInv'
PROOF
  <1>1. sending # NoPass /\ RetryOrNext /\ UNCHANGED <<announcing, queued, batch>>
    BY DEF Attempt, Sending, LockFree
  <1>2. CASE sending.attempt < MaxAttempts
    <2>1. sending' = [sending EXCEPT !.attempt = @ + 1]
      BY <1>1, <1>2 DEF RetryOrNext
    <2>2. /\ sending' \in [bots : Seq(BotSet), message : SUBSET Titles, attempt : Nat]
          /\ sending'.bots = sending.bots /\ sending'.message = sending.message
      <3>1. /\ sending.bots \in Seq(BotSet) /\ sending.message \in SUBSET Titles
            /\ sending.attempt + 1 \in Nat
        BY DEF NtfInv, NtfTypes
      <3>2. sending' = [bots |-> sending.bots, message |-> sending.message, attempt |-> sending.attempt + 1]
        BY <2>1 DEF NtfInv, NtfTypes
      <3> QED
        BY <3>1, <3>2
    <2>3. PassIn(batch, sending')
      BY <1>1, <2>2 DEF NtfInv, PassIn
    <2> QED
      BY <1>1, <2>2, <2>3, LostKeeps DEF Attempt
  <1>3. CASE ~(sending.attempt < MaxAttempts)
    <2>1. sending' = NextBot(Tail(sending.bots))
      BY <1>1, <1>3 DEF RetryOrNext
    <2>2. batch \in [BotSet -> SUBSET Titles]
      BY DEF NtfInv, NtfTypes
    <2> QED
      BY <1>1, <2>1, <2>2, NextAfterServes, LostKeeps DEF Attempt
  <1> QED
    BY <1>2, <1>3

LEMMA EnqueueKeeps ==
    ASSUME NtfInv, NEW t \in Titles, Enqueue(t)
    PROVE  NtfInv'
PROOF
  <1>1. /\ batch' \in [BotSet -> SUBSET Titles] /\ \A b \in BotSet : batch'[b] = batch[b] \cup {t}
        /\ queued' = queued \cup {t} /\ announcing' = announcing \ {t} /\ t \in announcing
        /\ sending = NoPass /\ UNCHANGED <<sending, arrived, repeated, doubted>>
    BY DEF Enqueue, LockFree, NtfInv, NtfTypes
  <1>2. NtfTypes' /\ PassIn(batch, sending)'
    BY <1>1 DEF NtfInv, NtfTypes, PassIn
  <1>3. Booked' /\ TitlesKept'
    BY <1>1 DEF NtfInv, Booked, TitlesKept
  <1> QED
    BY <1>2, <1>3 DEF NtfInv

LEMMA NtfStep == NtfInv /\ [NtfNext]_ntfVars => NtfInv'
PROOF
  <1> SUFFICES ASSUME NtfInv, [NtfNext]_ntfVars
               PROVE  NtfInv'
    OBVIOUS
  <1>1. ASSUME NEW t \in Titles, Announce(t)
        PROVE  NtfInv'
    BY <1>1 DEF Announce, NtfInv, NtfTypes, PassIn, Booked, TitlesKept
  <1>2. CASE StartPass
    BY <1>2, NextBotServes, LostKeeps, NotificationAssumption DEF StartPass, NtfInv,
       BotSet
  <1>3. CASE SkipBot
    <2>1. sending # NoPass /\ batch \in [BotSet -> SUBSET Titles]
      BY <1>3 DEF SkipBot, LockFree, NtfInv, NtfTypes
    <2> QED
      BY <1>3, <2>1, NextAfterServes, LostKeeps DEF SkipBot
  <1>4. CASE StopPipeline
    BY <1>4 DEF StopPipeline, NtfInv, NtfTypes, PassIn, Booked, TitlesKept
  <1>5. CASE StopManager
    BY <1>5, NextBotServes, LostKeeps, NotificationAssumption DEF StopManager,
       NtfInv, BotSet
  <1>6. CASE Down \/ UNCHANGED ntfVars
    BY <1>6 DEF Down, ntfVars, NtfInv, NtfTypes, PassIn, Booked, TitlesKept
  <1> QED
    BY <1>1, <1>2, <1>3, <1>4, <1>5, <1>6, EnqueueKeeps, DeliverKeeps, AttemptKeeps
       DEF NtfNext

(* No message swallows a title and none is repeated without a reason, for  *)
(* any number of bots and titles.                                          *)
THEOREM NoTitleLost == NtfSpec => []TitlesKept
PROOF
  <1>1. NtfInv => TitlesKept
    BY DEF NtfInv
  <1> QED
    BY <1>1, InitNtf, NtfStep, PTL DEF NtfSpec

------------------------------------------------------------------------------
(* The event manager.                                                      *)

(* Nothing is dispatched while stop waits: what runs is what it cancelled. *)
Draining ==
    /\ events \in {"running", "stopping", "stopped"}
    /\ events = "stopping" => handling \subseteq cancelled
    /\ StoppedIsQuiet

LEMMA DrainingStep == Draining /\ [EvtNext]_evtVars => Draining'
PROOF
  <1> SUFFICES ASSUME Draining, [EvtNext]_evtVars
               PROVE  Draining'
    OBVIOUS
  <1>1. CASE Publish
    BY <1>1 DEF Publish, Dispatches, Draining, StoppedIsQuiet
  <1>2. ASSUME NEW task \in handling, HandlerEnds(task)
        PROVE  Draining'
    BY <1>2 DEF HandlerEnds, Draining, StoppedIsQuiet
  <1>3. CASE StopEvents
    BY <1>3 DEF StopEvents, Draining, StoppedIsQuiet
  <1>4. CASE EventsStopped
    BY <1>4 DEF EventsStopped, Draining, StoppedIsQuiet
  <1>5. ASSUME NEW h \in EventHandlers, Subscribe(h) \/ Unsubscribe(h)
        PROVE  Draining'
    BY <1>5 DEF Subscribe, Unsubscribe, Draining, StoppedIsQuiet
  <1>6. CASE UNCHANGED evtVars
    BY <1>6 DEF evtVars, Draining, StoppedIsQuiet
  <1> QED
    BY <1>1, <1>2, <1>3, <1>4, <1>5, <1>6 DEF EvtNext

(* No handler runs once stop has returned: what is published while it      *)
(* waits reaches nobody.                                                   *)
THEOREM StoppedStaysQuiet == EvtInit /\ [][EvtNext]_evtVars => []StoppedIsQuiet
PROOF
  <1>1. EvtInit => Draining
    BY DEF EvtInit, Draining, StoppedIsQuiet
  <1>2. Draining => StoppedIsQuiet
    BY DEF Draining
  <1> QED
    BY <1>1, <1>2, DrainingStep, PTL

------------------------------------------------------------------------------
(* The caches with a lifetime (TtlCache).                                  *)

TtlTypes ==
    /\ remote \in Nat
    /\ cached \subseteq Nat
    /\ fetch \in [Readers -> [phase : {"none", "asked", "answered"}, got : Nat]]
    /\ update \in [Updaters -> {"none", "one", "two", "more", "clear"}]
    /\ overtaken \subseteq Readers
    /\ excused \in BOOLEAN

(* What a fetch that no change overtook has read is the value of now.      *)
Fresh ==
    \A r \in Readers : fetch[r].phase = "answered" /\ r \notin overtaken => fetch[r].got = remote

TtlInv == TtlTypes /\ Fresh /\ StaleOnlyWhenOverlapped

LEMMA InitTtl == TtlInit => TtlInv
PROOF
  <1> SUFFICES ASSUME TtlInit
               PROVE  TtlInv
    OBVIOUS
  <1>1. excused = FALSE
    BY DEF TtlInit
  <1>2. excused \in BOOLEAN
    BY <1>1
  <1>3. TtlTypes
    BY <1>2 DEF TtlInit, TtlTypes, NoFetch
  <1>4. Fresh /\ StaleOnlyWhenOverlapped
    BY DEF TtlInit, Fresh, StaleOnlyWhenOverlapped, NoFetch
  <1> QED
    BY <1>3, <1>4 DEF TtlInv

(* A reader's step.  A fetch that fills the cache brings the value of now, *)
(* or was overtaken and is an excuse.                                      *)
LEMMA ReaderKeeps ==
    ASSUME TtlInv, NEW r \in Readers,
           CacheMiss(r) \/ RemoteReads(r) \/ Cache(r) \/ FetchFails(r)
    PROVE  TtlInv'
PROOF
  <1> USE DEF TtlInv, TtlTypes, Fresh, StaleOnlyWhenOverlapped
  <1>1. CASE CacheMiss(r)
    BY <1>1 DEF CacheMiss
  <1>2. CASE RemoteReads(r)
    BY <1>2 DEF RemoteReads
  <1>3. CASE Cache(r)
    <2>1. excused' = (r \in overtaken)
      BY <1>3 DEF Cache
    <2>2. excused' \in BOOLEAN /\ (r \in overtaken => excused')
      <3>1. CASE r \in overtaken
        BY <2>1, <3>1
      <3>2. CASE r \notin overtaken
        BY <2>1, <3>2
      <3> QED
        BY <3>1, <3>2
    <2>3. TtlTypes'
      BY <1>3, <2>2 DEF Cache, NoFetch
    <2>4. Fresh'
      BY <1>3 DEF Cache, NoFetch
    <2>5. r \in overtaken \/ \A v \in cached' : ~(v < remote')
      BY <1>3 DEF Cache
    <2> QED
      BY <2>2, <2>3, <2>4, <2>5
  <1>4. CASE FetchFails(r)
    BY <1>4 DEF FetchFails, NoFetch
  <1> QED
    BY <1>1, <1>2, <1>3, <1>4

(* An updater's step.  A change overtakes every fetch there is, and the    *)
(* updater that made it stays at work until the cache is cleared.          *)
LEMMA UpdaterKeeps ==
    ASSUME TtlInv, NEW u \in Updaters,
           BeginUpdate(u) \/ Change(u) \/ ChangeFails(u) \/ ClearCache(u)
    PROVE  TtlInv'
PROOF
  <1> USE DEF TtlInv, TtlTypes
  <1>1. CASE BeginUpdate(u)
    <2>1. \A w \in Updaters : update[w] \in {"more", "clear"} => update'[w] \in {"more", "clear"}
      BY <1>1 DEF BeginUpdate
    <2> QED
      BY <1>1, <2>1 DEF BeginUpdate, Fresh, StaleOnlyWhenOverlapped
  <1>2. CASE Change(u)
    <2>1. update'[u] \in {"more", "clear"}
      BY <1>2 DEF Change
    <2>2. Fresh'
      BY <1>2 DEF Change, Overtake, Fresh, NoFetch
    <2> QED
      BY <1>2, <2>1, <2>2 DEF Change, Overtake, StaleOnlyWhenOverlapped
  <1>3. CASE ChangeFails(u)
    <2>1. Fresh'
      BY <1>3 DEF ChangeFails, Overtake, Fresh, NoFetch
    <2>2. excused' = (excused \/ cached # {})
      BY <1>3 DEF ChangeFails
    <2>3. excused' \in BOOLEAN
      BY <2>2
    <2>4. TtlTypes'
      BY <1>3, <2>3 DEF ChangeFails, Overtake
    <2>5. cached' # {} => excused'
      BY <1>3, <2>2 DEF ChangeFails
    <2> QED
      BY <2>1, <2>4, <2>5 DEF StaleOnlyWhenOverlapped
  <1>4. CASE ClearCache(u)
    BY <1>4 DEF ClearCache, Fresh, StaleOnlyWhenOverlapped
  <1> QED
    BY <1>1, <1>2, <1>3, <1>4

(* An old value is cached only for the reasons StaleOnlyWhenOverlapped     *)
(* names, however many coroutines read and change at once.                 *)
THEOREM StaleAlwaysExplained == TtlInit /\ [][TtlNext]_ttlVars => []StaleOnlyWhenOverlapped
PROOF
  <1>1. TtlInv /\ [TtlNext]_ttlVars => TtlInv'
    <2> SUFFICES ASSUME TtlInv, [TtlNext]_ttlVars
                 PROVE  TtlInv'
      OBVIOUS
    <2>1. CASE Expire
      BY <2>1 DEF Expire, TtlInv, TtlTypes, Fresh, StaleOnlyWhenOverlapped
    <2>2. CASE UNCHANGED ttlVars
      BY <2>2 DEF ttlVars, TtlInv, TtlTypes, Fresh, StaleOnlyWhenOverlapped
    <2> QED
      BY <2>1, <2>2, ReaderKeeps, UpdaterKeeps DEF TtlNext
  <1>2. TtlInv => StaleOnlyWhenOverlapped
    BY DEF TtlInv
  <1> QED
    BY <1>1, <1>2, InitTtl, PTL

------------------------------------------------------------------------------
(* The lock on consolidations of the assistant's memory (DreamLock).       *)

DreamTypes ==
    /\ dreamClock \in Nat
    /\ lockFile \subseteq [mtime : Nat, pid : Processes]
    /\ dream \in [Runs -> [phase : {"idle", "checked", "written", "running"}, prior : Nat, began : Nat]]
    /\ raced \subseteq Runs

Wrote(r) == dream[r].phase \in {"written", "running"}
Stale(r) == Wrote(r) /\ dreamClock - dream[r].began >= StaleAge

(* What excuses a run that is not alone.                                   *)
Excused(r) == r \in raced \/ Stale(r) \/ trampled

(* A dead process has no run.                                              *)
Alive == \A r \in Runs : dream[r].phase # "idle" => ProcessOf[r] \in alive

(* The lock is that of the run that wrote it.                              *)
Holds == \A r \in Runs :
    Wrote(r) => Excused(r) \/ lockFile = {[mtime |-> dream[r].began, pid |-> ProcessOf[r]]}

(* Nobody takes the lock from a run without excuse.                        *)
Alone == \A r, s \in Runs :
    r # s /\ dream[r].phase # "idle" /\ dream[s].phase \in Taking => Excused(r)

DreamInv == DreamTypes /\ Alive /\ Holds /\ Alone /\ OverlapExplained
-----------------------------------------------------------------------------
LEMMA InitDream == DreamInit => DreamInv
PROOF
  <1> SUFFICES ASSUME DreamInit
               PROVE  DreamInv
    OBVIOUS
  <1>1. DreamTypes
    BY DEF DreamInit, DreamTypes, NoDream
  <1>2. \A r \in Runs : dream[r].phase = "idle"
    BY DEF DreamInit, NoDream
  <1> QED
    BY <1>1, <1>2 DEF DreamInv, Alive, Holds, Wrote, Alone, Taking,
       OverlapExplained, Running

(* A run checks the lock.  One without excuse that wrote it would hold it. *)
LEMMA CheckLockKeeps ==
    ASSUME DreamInv, NEW r \in Runs, CheckLock(r)
    PROVE  DreamInv'
PROOF
  <1>1. PICK prior \in Nat :
            dream' = [dream EXCEPT ![r] = [phase |-> "checked", prior |-> prior, began |-> 0]]
    BY DEF CheckLock, DreamInv, DreamTypes
  <1>2. \A s \in Runs \ {r} : dream'[s] = dream[s] /\ (s \in raced => s \in raced')
    BY <1>1 DEF CheckLock, DreamInv, DreamTypes
  <1>3. dream'[r].phase = "checked" /\ dream[r].phase = "idle"
    BY <1>1 DEF CheckLock, DreamInv, DreamTypes
  <1>4. UNCHANGED <<dreamClock, lockFile, alive, trampled>>
    BY DEF CheckLock
  <1>5. DreamTypes'
    BY <1>1, <1>4 DEF CheckLock, DreamInv, DreamTypes
  <1>6. Alive'
    BY <1>2, <1>3, <1>4 DEF CheckLock, DreamInv, Alive
  <1>7. \A s \in Runs \ {r} : Excused(s) => Excused(s)'
    BY <1>2, <1>4 DEF Excused, Stale, Wrote
  <1>8. Holds'
    BY <1>2, <1>3, <1>4, <1>7 DEF DreamInv, Holds, Wrote
  <1>9. \A s \in Runs \ {r} : dream[s].phase \in Taking => s \in raced' /\ r \in raced'
    BY DEF CheckLock
  <1>10. \A s \in Runs \ {r} : dream[s].phase = "running" => Excused(s)
    <2> SUFFICES ASSUME NEW s \in Runs \ {r}, dream[s].phase = "running", ~Excused(s)
                 PROVE  Held
      BY DEF CheckLock
    <2>1. lockFile = {[mtime |-> dream[s].began, pid |-> ProcessOf[s]]} /\ ProcessOf[s] \in alive
      BY DEF DreamInv, Holds, Wrote, Alive
    <2>2. dreamClock - dream[s].began < StaleAge
      BY DreamAssumption DEF Excused, Stale, Wrote, DreamInv, DreamTypes
    <2> QED
      BY <2>1, <2>2 DEF Held
  <1>11. Alone'
    <2> SUFFICES ASSUME NEW a \in Runs, NEW b \in Runs, a # b,
                        dream'[a].phase # "idle", dream'[b].phase \in Taking
                 PROVE  Excused(a)'
      BY DEF Alone, Taking
    <2>1. CASE a = r
      BY <2>1, <1>2, <1>9 DEF Excused
    <2>2. CASE b = r
      <3>1. dream[a].phase \in Taking \cup {"running"}
        BY <2>2, <1>2 DEF DreamInv, DreamTypes, Taking
      <3> QED
        BY <2>2, <3>1, <1>7, <1>9, <1>10 DEF Excused
    <2>3. CASE a # r /\ b # r
      BY <2>3, <1>2, <1>7 DEF DreamInv, Alone
    <2> QED
      BY <2>1, <2>2, <2>3
  <1>12. OverlapExplained'
    BY <1>2, <1>3, <1>4 DEF DreamInv, OverlapExplained, Running
  <1> QED
    BY <1>5, <1>6, <1>8, <1>11, <1>12 DEF DreamInv

(* A run that writes the lock takes it from nobody without excuse.         *)
LEMMA WriteLockKeeps ==
    ASSUME DreamInv, NEW r \in Runs, WriteLock(r)
    PROVE  DreamInv'
PROOF
  <1>1. /\ \A s \in Runs \ {r} : dream'[s] = dream[s]
        /\ dream'[r].phase = "written" /\ dream'[r].began = dreamClock
        /\ dream[r].phase = "checked"
    BY DEF WriteLock, DreamInv, DreamTypes
  <1>2. lockFile' = {Stamp(r)} /\ UNCHANGED <<dreamClock, alive, raced, trampled>>
    BY DEF WriteLock
  <1>3. DreamTypes'
    <2>1. Stamp(r) \in [mtime : Nat, pid : Processes]
      BY DEF DreamInv, DreamTypes, Stamp, Processes
    <2> QED
      BY <1>2, <2>1 DEF WriteLock, DreamInv, DreamTypes
  <1>4. Alive'
    BY <1>1, <1>2 DEF DreamInv, Alive
  <1>5. \A s \in Runs \ {r} : Excused(s) => Excused(s)'
    BY <1>1, <1>2 DEF Excused, Stale, Wrote
  <1>6. Excused(r) => Excused(r)'
    BY <1>1, <1>2 DEF Excused, Stale, Wrote
  <1>7. Holds'
    <2> SUFFICES ASSUME NEW s \in Runs, Wrote(s)'
                 PROVE  Excused(s)' \/ lockFile' = {[mtime |-> dream'[s].began, pid |-> ProcessOf[s]]}
      BY DEF Holds
    <2>1. CASE s = r
      BY <2>1, <1>1, <1>2 DEF Stamp
    <2>2. CASE s # r
      BY <2>2, <1>1, <1>5 DEF DreamInv, Alone, Taking, Wrote
    <2> QED
      BY <2>1, <2>2
  <1>8. Alone'
    BY <1>1, <1>5, <1>6 DEF DreamInv, Alone, Taking
  <1>9. OverlapExplained'
    BY <1>1, <1>2 DEF DreamInv, OverlapExplained, Running
  <1> QED
    BY <1>3, <1>4, <1>7, <1>8, <1>9 DEF DreamInv

(* A run begins, or it gives up.                                           *)
LEMMA VerifyLockKeeps ==
    ASSUME DreamInv, NEW r \in Runs, VerifyLock(r)
    PROVE  DreamInv'
PROOF
  <1>1. /\ \A s \in Runs \ {r} : dream'[s] = dream[s]
        /\ dream[r].phase = "written"
        /\ \/ dream'[r].phase = "running" /\ dream'[r].began = dream[r].began
           \/ dream'[r].phase = "idle"
    BY DEF VerifyLock, DreamInv, DreamTypes, NoDream
  <1>2. UNCHANGED <<dreamClock, lockFile, alive, raced, trampled>>
    BY DEF VerifyLock
  <1>3. DreamTypes'
    BY <1>2 DEF VerifyLock, DreamInv, DreamTypes, NoDream
  <1>4. \A s \in Runs : Wrote(s)' => Wrote(s) /\ dream'[s].began = dream[s].began
    BY <1>1 DEF Wrote
  <1>5. \A s \in Runs : dream'[s].phase # "idle" /\ Excused(s) => Excused(s)'
    BY <1>1, <1>2 DEF Excused, Stale, Wrote
  <1>6. Alive'
    BY <1>1, <1>2 DEF DreamInv, Alive
  <1>7. Holds'
    BY <1>2, <1>4, <1>5 DEF DreamInv, Holds, Wrote
  <1>8. Alone'
    BY <1>1, <1>5 DEF DreamInv, Alone, Taking
  <1>9. OverlapExplained'
    <2> SUFFICES ASSUME NEW a \in Runs, NEW b \in Runs, a # b, Running(a)', Running(b)'
                 PROVE  \/ {a, b} \cap raced' # {}
                        \/ \E o \in {a, b} : dreamClock' - dream'[o].began >= StaleAge
                        \/ trampled'
      BY DEF OverlapExplained
    <2>1. CASE a = r \/ b = r
      <3>1. Excused(a) \/ Excused(b)
        BY <2>1, <1>1 DEF DreamInv, Alone, Taking, Running
      <3> QED
        BY <3>1, <1>2, <1>4 DEF Excused, Stale, Running, Wrote
    <2>2. CASE a # r /\ b # r
      BY <2>2, <1>1, <1>2 DEF DreamInv, OverlapExplained, Running
    <2> QED
      BY <2>1, <2>2
  <1> QED
    BY <1>3, <1>6, <1>7, <1>8, <1>9 DEF DreamInv

(* The end of a run, whatever becomes of the lock.                         *)
LEMMA EndKeeps ==
    ASSUME DreamInv, NEW r \in Runs, dream' = [dream EXCEPT ![r] = NoDream],
           UNCHANGED <<dreamClock, alive, raced>>, lockFile' \subseteq [mtime : Nat, pid : Processes],
           trampled => trampled',
           lockFile' = lockFile \/ trampled' \/ \A s \in Runs \ {r} : dream[s].phase = "idle"
    PROVE  DreamInv'
PROOF
  <1>1. (\A s \in Runs \ {r} : dream'[s] = dream[s]) /\ dream'[r].phase = "idle"
    BY DEF DreamInv, DreamTypes, NoDream
  <1>2. DreamTypes'
    BY DEF DreamInv, DreamTypes, NoDream
  <1>3. \A s \in Runs \ {r} : Excused(s) => Excused(s)'
    BY <1>1 DEF Excused, Stale, Wrote
  <1>4. Alive' /\ Alone'
    BY <1>1, <1>3 DEF DreamInv, Alive, Alone, Taking
  <1>5. Holds'
    BY <1>1, <1>3 DEF DreamInv, Holds, Wrote, Excused
  <1>6. OverlapExplained'
    BY <1>1 DEF DreamInv, OverlapExplained, Running
  <1> QED
    BY <1>2, <1>4, <1>5, <1>6 DEF DreamInv

(* A run that ends when another is under way has trampled.                 *)
LEMMA TrampleTold ==
    ASSUME DreamInv, NEW r \in Runs, Trample(r)
    PROVE  /\ trampled => trampled'
           /\ trampled' \/ \A s \in Runs \ {r} : dream[s].phase = "idle"
  BY DEF Trample, DreamInv, DreamTypes, Taking

LEMMA ProcessDiesKeeps ==
    ASSUME DreamInv, NEW p \in Processes, ProcessDies(p)
    PROVE  DreamInv'
PROOF
  <1>1. \A s \in Runs : IF ProcessOf[s] = p THEN dream'[s] = NoDream ELSE dream'[s] = dream[s]
    BY DEF ProcessDies
  <1>2. \A s \in Runs : dream'[s].phase # "idle" => dream'[s] = dream[s] /\ ProcessOf[s] # p
    BY <1>1 DEF NoDream
  <1>3. alive' = alive \ {p} /\ UNCHANGED <<dreamClock, lockFile, raced, trampled>>
    BY DEF ProcessDies
  <1>4. DreamTypes'
    BY <1>3 DEF ProcessDies, DreamInv, DreamTypes, NoDream
  <1>5. Alive'
    BY <1>2, <1>3 DEF DreamInv, Alive
  <1>6. \A s \in Runs : dream'[s].phase # "idle" /\ Excused(s) => Excused(s)'
    BY <1>2, <1>3 DEF Excused, Stale, Wrote
  <1>7. Holds' /\ Alone' /\ OverlapExplained'
    BY <1>2, <1>3, <1>6 DEF DreamInv, Holds, Alone, OverlapExplained, Wrote, Taking,
       Running
  <1> QED
    BY <1>4, <1>5, <1>7 DEF DreamInv

LEMMA DreamTickKeeps ==
    ASSUME DreamInv, DreamTick
    PROVE  DreamInv'
PROOF
  <1>1. dreamClock' = dreamClock + 1 /\ UNCHANGED <<lockFile, dream, alive, raced, trampled>>
    BY DEF DreamTick
  <1>2. DreamTypes'
    BY <1>1 DEF DreamInv, DreamTypes
  <1>3. \A s \in Runs : dreamClock - dream[s].began >= StaleAge => dreamClock' - dream'[s].began >= StaleAge
    BY <1>1, DreamAssumption DEF DreamInv, DreamTypes
  <1>4. \A s \in Runs : Excused(s) => Excused(s)'
    BY <1>1, <1>3 DEF Excused, Stale, Wrote
  <1>5. Alive' /\ Holds' /\ Alone'
    BY <1>1, <1>4 DEF DreamInv, Alive, Holds, Alone, Wrote, Taking
  <1>6. OverlapExplained'
    BY <1>1, <1>3 DEF DreamInv, OverlapExplained, Running
  <1> QED
    BY <1>2, <1>5, <1>6 DEF DreamInv

LEMMA DreamStep == DreamInv /\ [DreamNext]_dreamVars => DreamInv'
PROOF
  <1> SUFFICES ASSUME DreamInv, [DreamNext]_dreamVars
               PROVE  DreamInv'
    OBVIOUS
  <1>1. ASSUME NEW r \in Runs, CheckLock(r) \/ WriteLock(r) \/ VerifyLock(r)
        PROVE  DreamInv'
    BY <1>1, CheckLockKeeps, WriteLockKeeps, VerifyLockKeeps
  <1>2. ASSUME NEW r \in Runs, Consolidated(r)
        PROVE  DreamInv'
    <2>1. lockFile' \subseteq [mtime : Nat, pid : Processes]
      BY <1>2 DEF Consolidated, Stamp, Processes, DreamInv, DreamTypes
    <2> QED
      BY <1>2, <2>1, EndKeeps, TrampleTold DEF Consolidated
  <1>3. ASSUME NEW r \in Runs, ConsolidationFails(r)
        PROVE  DreamInv'
    <2>1. dream[r].prior \in Nat /\ lockFile \subseteq [mtime : Nat, pid : Processes]
      BY DEF DreamInv, DreamTypes
    <2>2. \A f \in lockFile : [f EXCEPT !.mtime = dream[r].prior] \in [mtime : Nat, pid : Processes]
      BY <2>1
    <2>3. lockFile' \subseteq [mtime : Nat, pid : Processes]
      BY <1>3, <2>2 DEF ConsolidationFails
    <2> QED
      BY <1>3, <2>3, EndKeeps, TrampleTold DEF ConsolidationFails
  <1>4. ASSUME NEW r \in Runs, CancelDream(r)
        PROVE  DreamInv'
    BY <1>4, EndKeeps DEF CancelDream, DreamInv, DreamTypes
  <1>5. CASE UNCHANGED dreamVars
    BY <1>5 DEF dreamVars, DreamInv, DreamTypes, Alive, Holds, Alone,
       OverlapExplained, Excused,
       Stale, Wrote, Running, Taking
  <1> QED
    BY <1>1, <1>2, <1>3, <1>4, <1>5, ProcessDiesKeeps, DreamTickKeeps DEF DreamNext

(* Two consolidations overlap only for one of the reasons the lock cannot  *)
(* rule out, however many runs and processes there are.                    *)
THEOREM OverlapAlwaysExplained == DreamInit /\ [][DreamNext]_dreamVars => []OverlapExplained
PROOF
  <1>1. DreamInv => OverlapExplained
    BY DEF DreamInv
  <1> QED
    BY <1>1, InitDream, DreamStep, PTL

------------------------------------------------------------------------------
(* Opening and closing of the processes (Lifecycle).                       *)

(* The parts of each process.                                              *)
PartsOf(h) ==
    IF h = "backend" THEN {"client", "events", "notifier", "parser", "validator", "pipeline", "server"}
    ELSE {"provider", "loop"} \cup Chats

LifTypes ==
    /\ host \in {"backend", "assistant"}
    /\ phase \in {"opening", "serving", "closing", "over"}
    /\ quit \in {"none", "asked", "failure", "refused"}
    /\ phase \in {"opening", "serving"} => quit = "none"
    /\ todo \in Seq(PartsOf(host))
    /\ opened \subseteq PartsOf(host)
    /\ loops \subseteq Chats /\ turns \subseteq Chats
    /\ host = "backend" => loops = {} /\ turns = {}
    /\ phase = "opening" => turns = {}
    /\ raised \in BOOLEAN

(* The parts are opened in their order.                                    *)
Rising ==
    phase = "opening" =>
        \E k \in 0 .. Len(Opens) - 1 : /\ todo = SubSeq(Opens, k + 1, Len(Opens))
                                       /\ opened = {Opens[i] : i \in 1 .. k}
Up == phase = "serving" => opened = {Opens[i] : i \in 1 .. Len(Opens)}

(* Who has asked for the end finds in what is still to be closed all that  *)
(* is left to close, and no frontend serves any more.                      *)
Falling ==
    phase = "closing" =>
        /\ "server" \notin opened
        /\ "pipeline" \in opened => Uses("pipeline") \subseteq opened /\ todo = Closes("backend")
        /\ quit = "asked" => opened \cap Chats = {} /\ turns \subseteq Detached
Accounted ==
    quit = "asked" /\ ~raised =>
        /\ opened \subseteq Range(todo)
        /\ loops \subseteq Range(todo) \cup {Telegram} \cup Detached
Closed ==
    /\ phase = "over" /\ quit = "asked" /\ ~raised => todo = << >>
    /\ phase = "closing" => quit \in {"asked", "failure"} /\ (quit = "failure" => host = "assistant")

LifInv == LifTypes /\ Rising /\ Up /\ Falling /\ Accounted /\ Closed

LEMMA EmptyHasNoLength ==
    ASSUME NEW S, NEW s \in Seq(S)
    PROVE  s = << >> <=> Len(s) = 0
  OBVIOUS

LEMMA OpensTyped ==
    ASSUME host \in {"backend", "assistant"}
    PROVE  Opens \in Seq(PartsOf(host)) /\ Opens # << >>
PROOF
  <1>1. CASE host = "backend"
    <2> DEFINE S == PartsOf(host)
    <2>1. {"client", "events", "notifier", "parser", "validator", "pipeline", "server"} = S
      BY <1>1 DEF PartsOf
    <2> HIDE DEF S
    <2>2. CASE Notifying
      <3>1. Opens = <<"client", "events", "notifier", "parser", "validator", "pipeline", "server">>
        BY <1>1, <2>2 DEF Opens
      <3> QED
        BY <2>1, <3>1 DEF S
    <2>3. CASE ~Notifying
      <3>1. Opens = <<"client", "events", "parser", "validator", "pipeline", "server">>
        BY <1>1, <2>3 DEF Opens
      <3> QED
        BY <2>1, <3>1 DEF S
    <2> QED
      BY <2>2, <2>3
  <1>2. CASE host = "assistant"
    <2>1. <<"provider", "loop">> \in Seq(PartsOf(host)) /\ Frontends \in Seq(PartsOf(host))
      BY <1>2, LifecycleAssumption DEF PartsOf, Chats
    <2>2. Opens = <<"provider", "loop">> \o Frontends
      BY <1>2 DEF Opens
    <2>3. Len(Opens) >= 2
      BY <2>1, <2>2
    <2> QED
      BY <2>1, <2>2, <2>3
  <1> QED
    BY <1>1, <1>2

(* What a part works with is opened before it.                             *)
LEMMA OpensInOrder ==
    ASSUME host \in {"backend", "assistant"}, NEW k \in 1 .. Len(Opens), Opens[k] \notin Chats
    PROVE  Uses(Opens[k]) \subseteq {Opens[i] : i \in 1 .. k - 1}
PROOF
  <1>1. CASE host = "backend" /\ Notifying
    <2>1. Opens = <<"client", "events", "notifier", "parser", "validator", "pipeline", "server">>
      BY <1>1 DEF Opens
    <2>2. k \in {1, 2, 3, 4, 5, 6, 7}
      BY <2>1
    <2> QED
      BY <1>1, <2>1, <2>2 DEF Uses
  <1>2. CASE host = "backend" /\ ~Notifying
    <2>1. Opens = <<"client", "events", "parser", "validator", "pipeline", "server">>
      BY <1>2 DEF Opens
    <2>2. k \in {1, 2, 3, 4, 5, 6}
      BY <2>1
    <2> QED
      BY <1>2, <2>1, <2>2 DEF Uses
  <1>3. CASE host = "assistant"
    <2>1. Opens = <<"provider", "loop">> \o Frontends /\ Frontends \in Seq(Chats)
      BY <1>3, LifecycleAssumption DEF Opens, Chats
    <2>2. Opens[k] \in {"provider", "loop"} \cup Chats
      BY <2>1
    <2> QED
      BY <2>2 DEF Uses
  <1> QED
    BY <1>1, <1>2, <1>3

LEMMA InitLif == LifInit => LifInv
PROOF
  <1> SUFFICES ASSUME LifInit
               PROVE  LifInv
    OBVIOUS
  <1>1. host \in {"backend", "assistant"} /\ todo = Opens /\ phase = "opening"
    BY DEF LifInit
  <1>2. LifTypes
    BY <1>1, OpensTyped DEF LifInit, LifTypes
  <1>3. Rising
    <2>1. 0 \in 0 .. Len(Opens) - 1 /\ todo = SubSeq(Opens, 0 + 1, Len(Opens))
      BY <1>1, OpensTyped
    <2>2. opened = {Opens[i] : i \in 1 .. 0}
      BY DEF LifInit
    <2> QED
      BY <2>1, <2>2 DEF Rising
  <1> QED
    BY <1>1, <1>2, <1>3 DEF LifInv, LifInit, Up, Falling, Accounted, Closed

LEMMA OpenKeeps ==
    ASSUME LifInv, Open
    PROVE  LifInv'
PROOF
  <1> DEFINE n == Len(Opens)
  <1>1. PICK k \in 0 .. n - 1 : todo = SubSeq(Opens, k + 1, n) /\ opened = {Opens[i] : i \in 1 .. k}
    BY DEF LifInv, Rising, Open
  <1>2. Opens \in Seq(PartsOf(host)) /\ n \in Nat /\ n > 0 /\ k \in Nat /\ Opens' = Opens
    BY OpensTyped DEF LifInv, LifTypes, Open, Opens
  <1>3. Head(todo) = Opens[k + 1] /\ Opens[k + 1] \in PartsOf(host)
    BY <1>1, <1>2
  <1>4. todo' = Tail(todo) /\ Tail(todo) = SubSeq(Opens, k + 2, n) /\ Tail(todo) \in Seq(PartsOf(host))
    <2>1. todo' = Tail(todo)
      BY DEF Open
    <2>2. Tail(todo) = SubSeq(Opens, k + 2, n)
      BY <1>1, <1>2
    <2>3. Tail(todo) \in Seq(PartsOf(host))
      <3>1. k + 2 \in Int /\ n \in Int /\ \A i \in k + 2 .. n : Opens[i] \in PartsOf(host)
        BY <1>2
      <3> HIDE DEF n
      <3>2. SubSeq(Opens, k + 2, n) \in Seq(PartsOf(host))
        BY <3>1, SubSeqProperties
      <3> QED
        BY <2>2, <3>2
    <2> QED
      BY <2>1, <2>2, <2>3
  <1>5. opened' = {Opens[i] : i \in 1 .. k + 1}
    <2>1. opened' = opened \cup {Opens[k + 1]}
      BY <1>3 DEF Open
    <2>2. 1 .. k + 1 = (1 .. k) \cup {k + 1}
      BY <1>2
    <2> QED
      BY <1>1, <2>1, <2>2
  <1>6. todo' = << >> <=> k + 1 = n
    <2>1. Len(SubSeq(Opens, k + 2, n)) = n - (k + 1)
      BY <1>2
    <2>2. Tail(todo) = << >> <=> Len(Tail(todo)) = 0
      BY <1>4, EmptyHasNoLength
    <2> HIDE DEF n
    <2> QED
      BY <1>2, <1>4, <2>1, <2>2
  <1>7. LifTypes'
    BY <1>3, <1>4 DEF LifInv, LifTypes, Open, PartsOf
  <1>8. Rising'
    <2> SUFFICES ASSUME phase' = "opening"
                 PROVE  \E j \in 0 .. n - 1 : /\ todo' = SubSeq(Opens, j + 1, n)
                                             /\ opened' = {Opens[i] : i \in 1 .. j}
      BY <1>2 DEF Rising
    <2>1. k + 1 \in 0 .. n - 1 /\ (k + 1) + 1 = k + 2
      BY <1>2, <1>6 DEF Open
    <2> QED
      BY <1>4, <1>5, <2>1
  <1>9. Up'
    <2>1. phase' = "serving" => k + 1 = n
      BY <1>6 DEF Open
    <2> QED
      BY <1>2, <1>5, <2>1 DEF Up
  <1> QED
    BY <1>7, <1>8, <1>9 DEF LifInv, LifTypes, Falling, Accounted, Closed, Open

(* Everything is open while the process serves.                            *)
LEMMA ServingOpen ==
    ASSUME LifInv, phase = "serving"
    PROVE  /\ \A p \in opened \ Chats : Uses(p) \subseteq opened
           /\ host = "assistant" => "provider" \in opened
PROOF
  <1>1. host \in {"backend", "assistant"} /\ opened = {Opens[i] : i \in 1 .. Len(Opens)}
    BY DEF LifInv, LifTypes, Up
  <1>2. Opens \in Seq(PartsOf(host)) /\ Len(Opens) \in Nat
    BY <1>1, OpensTyped
  <1>3. ASSUME NEW p \in opened \ Chats
        PROVE  Uses(p) \subseteq opened
    <2>1. PICK k \in 1 .. Len(Opens) : p = Opens[k]
      BY <1>1
    <2>2. {Opens[i] : i \in 1 .. k - 1} \subseteq opened
      BY <1>1, <1>2
    <2> QED
      BY <1>1, <2>1, <2>2, <1>3, OpensInOrder
  <1>4. ASSUME host = "assistant"
        PROVE  "provider" \in opened
    <2>1. Opens = <<"provider", "loop">> \o Frontends /\ Frontends \in Seq(Chats)
      BY <1>4, LifecycleAssumption DEF Opens, Chats
    <2>2. Opens[1] = "provider" /\ 1 \in 1 .. Len(Opens)
      BY <2>1
    <2> QED
      BY <1>1, <2>2
  <1> QED
    BY <1>3, <1>4

LEMMA ClosesAll ==
    /\ Closes("backend") \in Seq(PartsOf("backend"))
    /\ Closes("assistant") \in Seq({"provider", "loop"} \cup Chats)
    /\ PartsOf("backend") \ {"server"} \subseteq Range(Closes("backend"))
    /\ {"provider", "loop"} \cup Chats \subseteq Range(Closes("assistant"))
PROOF
  <1>1. Closes("backend") = <<"pipeline", "events", "client", "parser", "validator", "notifier">>
    BY DEF Closes
  <1>2. PartsOf("backend") \ {"server"} \subseteq Range(Closes("backend"))
    <2> DEFINE c == Closes("backend")
    <2>1. DOMAIN c = 1 .. 6 /\ c[1] = "pipeline" /\ c[2] = "events" /\ c[3] = "client"
          /\ c[4] = "parser" /\ c[5] = "validator" /\ c[6] = "notifier"
      BY <1>1
    <2> HIDE DEF c
    <2>2. \A i \in 1 .. 6 : c[i] \in Range(c)
      BY <2>1 DEF Range
    <2>3. {"pipeline", "events", "client", "parser", "validator", "notifier"} \subseteq Range(c)
      BY <2>1, <2>2
    <2> QED
      BY <2>3 DEF PartsOf, c
  <1>3. Closes("backend") \in Seq(PartsOf("backend"))
    <2> DEFINE S == PartsOf("backend")
    <2>1. {"client", "events", "notifier", "parser", "validator", "pipeline"} \subseteq S
      BY DEF PartsOf
    <2> HIDE DEF S
    <2>2. <<"pipeline", "events", "client", "parser", "validator", "notifier">> \in Seq(S)
      BY <2>1
    <2> QED
      BY <1>1, <2>2 DEF S
  <1>4. Closes("assistant") = Frontends \o <<"loop", "provider">> /\ Frontends \in Seq(Chats)
    BY LifecycleAssumption DEF Closes, Chats
  <1>5. Closes("assistant") \in Seq({"provider", "loop"} \cup Chats)
    <2>1. Frontends \in Seq({"provider", "loop"} \cup Chats) /\ <<"loop", "provider">> \in Seq({"provider", "loop"} \cup Chats)
      BY <1>4
    <2> QED
      BY <1>4, <2>1
  <1>6. {"provider", "loop"} \cup Chats \subseteq Range(Closes("assistant"))
    <2> DEFINE c == Closes("assistant")
               n == Len(Frontends)
    <2>1. n \in Nat /\ DOMAIN c = 1 .. n + 2 /\ c[n + 1] = "loop" /\ c[n + 2] = "provider"
      BY <1>4
    <2>2. \A i \in 1 .. n : c[i] = Frontends[i]
      BY <1>4
    <2>3. \A f \in Chats : \E i \in 1 .. n : f = Frontends[i]
      BY <1>4 DEF Chats, Range
    <2> HIDE DEF c
    <2>4. \A f \in Chats : \E i \in DOMAIN c : f = c[i]
      BY <2>1, <2>2, <2>3
    <2>5. {"provider", "loop"} \subseteq Range(c)
      BY <2>1 DEF Range
    <2> QED
      BY <2>4, <2>5 DEF Range, c
  <1> QED
    BY <1>2, <1>3, <1>5, <1>6

LEMMA AskedKeeps ==
    ASSUME LifInv, Asked
    PROVE  LifInv'
PROOF
  <1>1. /\ phase = "serving" /\ phase' = "closing" /\ quit' = "asked" /\ todo' = Closes(host)
        /\ opened' = opened \ ({"server"} \cup Chats) /\ turns' = turns \cap Detached
        /\ UNCHANGED <<host, loops, raised>>
    BY DEF Asked
  <1>2. /\ todo' \in Seq(PartsOf(host)) /\ opened' \subseteq Range(todo')
        /\ host = "assistant" => Chats \subseteq Range(todo')
    BY <1>1, ClosesAll DEF LifInv, LifTypes, PartsOf
  <1>3. LifTypes'
    BY <1>1, <1>2 DEF LifInv, LifTypes
  <1>4. Falling'
    <2>1. "pipeline" \in opened' => host = "backend"
      BY <1>1, LifecycleAssumption DEF LifInv, LifTypes, PartsOf, Chats, Shared
    <2>2. "pipeline" \in opened' => Uses("pipeline") \subseteq opened'
      BY <1>1, ServingOpen, LifecycleAssumption DEF Uses, Chats, Shared
    <2> QED
      BY <1>1, <2>1, <2>2 DEF Falling
  <1>5. Accounted'
    BY <1>1, <1>2 DEF LifInv, LifTypes, Accounted
  <1> QED
    BY <1>1, <1>3, <1>4, <1>5 DEF LifInv, Rising, Up, Closed

LEMMA FrontendFailsKeeps ==
    ASSUME LifInv, NEW f \in Chats, FrontendFails(f)
    PROVE  LifInv'
PROOF
  <1>1. /\ phase = "serving" /\ f \in opened /\ phase' = "closing" /\ quit' = "failure"
        /\ todo' = Closes(host) /\ opened' = opened \ {f} /\ turns' \subseteq turns
        /\ UNCHANGED <<host, loops, raised>>
    BY DEF FrontendFails
  <1>2. host = "assistant"
    BY <1>1, LifecycleAssumption DEF LifInv, LifTypes, PartsOf, Chats, Shared
  <1>3. LifTypes'
    BY <1>1, <1>2, ClosesAll DEF LifInv, LifTypes, PartsOf
  <1>4. "server" \notin opened' /\ "pipeline" \notin opened'
    BY <1>1, <1>2, LifecycleAssumption DEF LifInv, LifTypes, PartsOf, Chats, Shared
  <1> QED
    BY <1>1, <1>2, <1>3, <1>4 DEF LifInv, Rising, Up, Falling, Accounted, Closed

LEMMA CloseKeeps ==
    ASSUME LifInv, Close \/ CloseRaises
    PROVE  LifInv'
PROOF
  <1>1. phase = "closing" /\ todo # << >> /\ UNCHANGED <<host, turns, quit>> /\ phase' \in {"closing", "over"}
    BY DEF Close, CloseRaises
  <1>2. /\ todo \in Seq(PartsOf(host)) /\ Tail(todo) \in Seq(PartsOf(host))
        /\ Range(todo) \subseteq {Head(todo)} \cup Range(Tail(todo)) /\ Head(todo) \in PartsOf(host)
    <2>1. todo \in Seq(PartsOf(host))
      BY DEF LifInv, LifTypes
    <2>2. Tail(todo) \in Seq(PartsOf(host)) /\ Head(todo) = todo[1] /\ Head(todo) \in PartsOf(host)
      BY <1>1, <2>1
    <2>3. \A i \in DOMAIN todo : i # 1 => i - 1 \in DOMAIN Tail(todo) /\ todo[i] = Tail(todo)[i - 1]
      BY <1>1, <2>1
    <2> QED
      BY <2>1, <2>2, <2>3 DEF Range
  <1>3. CASE Close
    <2>1. todo' = Tail(todo) /\ UNCHANGED raised /\ (phase' = "over" => todo' = << >>)
      BY <1>3 DEF Close
    <2>2. opened' \subseteq opened /\ opened \subseteq opened' \cup {Head(todo)}
      BY <1>3 DEF Close, Shutdown
    <2>3. loops' \subseteq loops /\ loops \subseteq loops' \cup {Head(todo)}
      BY <1>3 DEF Close, Shutdown
    <2>4. LifTypes'
      BY <1>1, <1>2, <2>1, <2>2, <2>3 DEF LifInv, LifTypes
    <2>5. "pipeline" \notin opened'
      <3>1. CASE "pipeline" \in opened
        <4>1. todo = <<"pipeline", "events", "client", "parser", "validator", "notifier">>
          BY <1>1, <3>1 DEF LifInv, Falling, Closes
        <4>2. Head(todo) = "pipeline" /\ "pipeline" \notin Chats
          BY <4>1, LifecycleAssumption DEF Chats, Shared
        <4> QED
          BY <1>3, <4>2 DEF Close, Shutdown
      <3>2. CASE "pipeline" \notin opened
        BY <2>2, <3>2
      <3> QED
        BY <3>1, <3>2
    <2>6. Falling'
      BY <1>1, <2>2, <2>5 DEF LifInv, Falling
    <2>7. Accounted'
      <3> SUFFICES ASSUME quit = "asked", ~raised
                   PROVE  /\ opened' \subseteq Range(todo')
                          /\ loops' \subseteq Range(todo') \cup {Telegram} \cup Detached
        BY <1>1, <2>1 DEF Accounted
      <3>1. opened \cap Chats = {} /\ opened \subseteq Range(todo)
            /\ loops \subseteq Range(todo) \cup {Telegram} \cup Detached /\ loops \subseteq Chats
        BY <1>1 DEF LifInv, LifTypes, Falling, Accounted
      <3>2. CASE Head(todo) \in Chats
        BY <1>2, <1>3, <2>1, <3>1, <3>2 DEF Close, Shutdown
      <3>3. CASE Head(todo) \notin Chats
        BY <1>2, <1>3, <2>1, <3>1, <3>3 DEF Close, Shutdown
      <3> QED
        BY <3>2, <3>3
    <2> QED
      BY <1>1, <2>1, <2>4, <2>6, <2>7 DEF LifInv, Rising, Up, Closed
  <1>4. CASE CloseRaises
    <2>1. raised' /\ raised' \in BOOLEAN /\ UNCHANGED <<opened, loops>> /\ todo' \in Seq(PartsOf(host))
      <3>1. raised' = TRUE /\ UNCHANGED <<opened, loops>> /\ (todo' = Tail(todo) \/ todo' = << >>)
        BY <1>4 DEF CloseRaises
      <3>2. << >> \in Seq(PartsOf(host))
        OBVIOUS
      <3>3. raised' /\ raised' \in BOOLEAN
        BY <3>1
      <3> QED
        BY <1>2, <3>1, <3>2, <3>3
    <2>2. LifTypes'
      BY <1>1, <2>1 DEF LifInv, LifTypes
    <2>3. phase' = "closing" => "pipeline" \notin opened
      <3>1. CASE "pipeline" \in opened
        <4>1. todo = <<"pipeline", "events", "client", "parser", "validator", "notifier">>
          BY <1>1, <3>1 DEF LifInv, Falling, Closes
        <4>2. Head(todo) \notin Guarded
          BY <4>1 DEF Guarded
        <4> QED
          BY <1>4, <4>2 DEF CloseRaises
      <3> QED
        BY <3>1
    <2>4. Falling'
      BY <1>1, <2>1, <2>3 DEF LifInv, Falling
    <2> QED
      BY <1>1, <2>1, <2>2, <2>4 DEF LifInv, Rising, Up, Accounted, Closed
  <1> QED
    BY <1>3, <1>4

LEMMA TurnKeeps ==
    ASSUME LifInv, NEW f \in Chats, TurnBegins(f) \/ TurnOver(f)
    PROVE  LifInv'
PROOF
  <1>1. UNCHANGED <<host, phase, todo, opened, quit, raised>>
    BY DEF TurnBegins, TurnOver
  <1>2. CASE TurnBegins(f)
    <2>1. f \in opened /\ phase \in {"serving", "closing"} /\ turns' = turns \cup {f} /\ loops' = loops \cup {f}
      BY <1>2 DEF TurnBegins
    <2>2. host = "assistant" /\ quit # "asked"
      BY <2>1, LifecycleAssumption DEF LifInv, LifTypes, Falling, PartsOf, Chats,
         Shared
    <2> QED
      BY <1>1, <2>1, <2>2 DEF LifInv, LifTypes, Rising, Up, Falling, Accounted,
         Closed, Opens
  <1>3. CASE TurnOver(f)
    BY <1>1, <1>3 DEF TurnOver, LifInv, LifTypes, Rising, Up, Falling, Accounted,
       Closed, Opens
  <1> QED
    BY <1>2, <1>3

LEMMA LifStep == LifInv /\ [LifNext]_lifVars => LifInv'
PROOF
  <1> SUFFICES ASSUME LifInv, [LifNext]_lifVars
               PROVE  LifInv'
    OBVIOUS
  <1>1. CASE OpenFails
    <2>1. << >> \in Seq(PartsOf(host)) /\ opened' \subseteq opened
      BY <1>1 DEF OpenFails
    <2> QED
      BY <1>1, <2>1 DEF OpenFails, LifInv, LifTypes, Rising, Up, Falling, Accounted,
         Closed
  <1>2. CASE UNCHANGED lifVars
    <2>1. UNCHANGED <<host, phase, todo, opened, loops, turns, quit, raised>>
      BY <1>2 DEF lifVars
    <2>2. LifTypes' /\ Falling' /\ Accounted' /\ Closed'
      BY <2>1 DEF LifInv, LifTypes, Falling, Accounted, Closed
    <2>3. Rising' /\ Up'
      <3>1. Opens' = Opens
        BY <2>1 DEF Opens
      <3>2. Rising /\ Up
        BY DEF LifInv
      <3> QED
        BY <2>1, <3>1, <3>2 DEF Rising, Up
    <2> QED
      BY <2>2, <2>3 DEF LifInv
  <1> QED
    BY <1>1, <1>2, OpenKeeps, AskedKeeps, CloseKeeps, TurnKeeps, FrontendFailsKeeps
       DEF LifNext

(* Parts are closed after those that work with them and nothing is left,   *)
(* for any frontends, with or without notifications.                       *)
THEOREM EndIsOrderly == LifSpec => []OrderlyEnd
PROOF
  <1>1. LifInv => UsedWhileOpen
    <2> SUFFICES ASSUME LifInv, phase # "over"
                 PROVE  /\ \A p \in opened \ Chats : Uses(p) \subseteq opened
                        /\ \A f \in turns : Uses(f) \subseteq opened \/ f \in Detached \/ quit = "failure"
      BY DEF UsedWhileOpen
    <2>1. \A f \in Chats : Uses(f) = {"provider"}
      BY LifecycleAssumption DEF Uses, Chats, Shared
    <2>2. CASE phase = "opening"
      <3>1. PICK k \in 0 .. Len(Opens) - 1 : opened = {Opens[i] : i \in 1 .. k}
        BY <2>2 DEF LifInv, Rising
      <3>2. Len(Opens) \in Nat /\ host \in {"backend", "assistant"}
        BY OpensTyped DEF LifInv, LifTypes
      <3>3. ASSUME NEW p \in opened \ Chats
            PROVE  Uses(p) \subseteq opened
        <4>1. PICK j \in 1 .. k : p = Opens[j]
          BY <3>1
        <4>2. j \in 1 .. Len(Opens) /\ {Opens[i] : i \in 1 .. j - 1} \subseteq opened
          BY <3>1, <3>2
        <4> QED
          BY <3>2, <3>3, <4>1, <4>2, OpensInOrder
      <3> QED
        BY <2>2, <3>3 DEF LifInv, LifTypes
    <2>3. CASE phase = "serving"
      BY <2>1, <2>3, ServingOpen DEF LifInv, LifTypes
    <2>4. CASE phase = "closing"
      <3>1. \A p \in opened \ Chats : p # "server" /\ (p = "pipeline" => Uses(p) \subseteq opened)
        BY <2>4 DEF LifInv, Falling
      <3>2. \A p \in opened \ Chats : p # "pipeline" => Uses(p) = {}
        BY <3>1 DEF Uses
      <3> QED
        BY <2>4, <3>1, <3>2 DEF LifInv, LifTypes, Falling, Closed
    <2> QED
      BY <2>2, <2>3, <2>4 DEF LifInv, LifTypes
  <1>2. LifInv => NothingLeftOpen
    <2> SUFFICES ASSUME LifInv, phase = "over", quit = "asked", ~raised
                 PROVE  opened = {} /\ loops \subseteq Detached \cup {Telegram}
      BY DEF NothingLeftOpen
    <2>1. todo = << >>
      BY DEF LifInv, Closed
    <2>2. Range(todo) = {}
      BY <2>1 DEF Range
    <2> QED
      BY <2>2 DEF LifInv, Accounted
  <1>3. LifInv => OrderlyEnd
    BY <1>1, <1>2 DEF OrderlyEnd
  <1> QED
    BY <1>3, InitLif, LifStep, PTL DEF LifSpec

==============================================================================
