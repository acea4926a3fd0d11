--------------------------- MODULE MetadataValidation ---------------------------
(* The metadata validator at work on the parsed releases of one name: TMDB  *)
(* says which show the name is, and every release's season and episode are  *)
(* mapped to an episode of that show, by the first strategy that has one.   *)
EXTENDS Integers, Sequences, SequencesExt, FiniteSets

CONSTANTS Shows,         \* the shows of TMDB: id, score for the name, animated or not, a
                         \* sequence of cour lengths for every season, number of specials
          Schemes,       \* how fansubs number: "tmdb", "absolute", "offset" (absolute, and the
                         \* subscription knows by how much), "relative", "cour_absolute"
          ReleaseTitles, \* the titles specials are told apart by
          MaxItems       \* bound on the releases of a batch

ASSUME ValidationAssumption ==
    /\ \A w \in Shows : w.cours \in Seq(Seq(Nat \ {0})) /\ w.specials \in Nat
    /\ Schemes \subseteq {"tmdb", "absolute", "offset", "relative", "cour_absolute"} /\ MaxItems \in Nat

VARIABLES
    wanted,    \* the show the releases are of
    identity,  \* what TMDB was found to call it
    items,     \* the releases still to be validated
    known,     \* the batch's cache: season and episode |-> mapping
    corrected  \* the releases done, each with its mapping
tmdbVars == <<wanted, identity, items, known, corrected>>

Unparsed == [id |-> 0, parsed |-> FALSE]
NoShow == [id |-> 0, parsed |-> TRUE]
NoMapping == [by |-> "none"]
Mapping(s, e, strategy) == [season |-> s, episode |-> e, by |-> strategy]

------------------------------------------------------------------------------
\* What TMDB lists.
\* The sums of the first numbers of a sequence.
Running(counts) ==
    LET sum[n \in 0 .. Len(counts)] == IF n = 0 THEN 0 ELSE sum[n - 1] + counts[n] IN sum
EpisodeCount(w, s) == Running(w.cours[s])[Len(w.cours[s])]
EpisodesBefore(w, s) == Running([t \in DOMAIN w.cours |-> EpisodeCount(w, t)])[s - 1]
\* The cours of a season, told apart by the gaps between the air dates.
DetectedCours(w, s) ==
    [i \in DOMAIN w.cours[s] |-> [season |-> s, from |-> Running(w.cours[s])[i - 1] + 1, to |-> Running(w.cours[s])[i]]]
\* A season whose list cannot be had counts as one, if it has an episode.
CoursOf(w, unlisted, s) ==
    IF s \in unlisted /\ w.cours[s] # <<>> THEN <<[season |-> s, from |-> 1, to |-> EpisodeCount(w, s)]>>
    ELSE DetectedCours(w, s)
\* Those of all seasons, each under its number.
GlobalCours(w, unlisted) ==
    LET before == Running([s \in DOMAIN w.cours |-> Len(CoursOf(w, unlisted, s))])
    IN UNION {{[number |-> before[s - 1] + i, cour |-> CoursOf(w, unlisted, s)[i]] : i \in DOMAIN CoursOf(w, unlisted, s)} :
                s \in DOMAIN w.cours}

\* A release of episode e of season s, as a scheme numbers it.
Numbered(w, s, e, scheme) ==
    CASE scheme = "tmdb" -> {[season |-> s, episode |-> e]}
      [] scheme \in {"absolute", "offset"} -> {[season |-> 1, episode |-> EpisodesBefore(w, s) + e]}
      [] OTHER ->
           {[season |-> g.number, episode |-> IF scheme = "relative" THEN e - g.cour.from + 1 ELSE e] :
              g \in {g \in GlobalCours(w, {}) : g.cour.season = s /\ e \in g.cour.from .. g.cour.to}}
Release(n, title, scheme, is, offset) ==
    [season |-> n.season, episode |-> n.episode, title |-> title, scheme |-> scheme, is |-> is,
     offset |-> offset, override |-> IF offset = 0 THEN 0 ELSE is[1]]
RegularOf(w) ==
    UNION {UNION {{Release(n, CHOOSE t \in ReleaseTitles : TRUE, scheme, <<s, e>>,
                           IF scheme = "offset" THEN EpisodesBefore(w, s) ELSE 0) : n \in Numbered(w, s, e, scheme)} :
                    e \in 1 .. EpisodeCount(w, s), scheme \in Schemes} :
             s \in DOMAIN w.cours}
SpecialsOf(w) == {Release([season |-> s, episode |-> e], t, "special", <<0, 0>>, 0) : s \in {0, 1}, e \in {0, 1}, t \in ReleaseTitles}
ReleasesOf(w) == RegularOf(w) \union {r \in SpecialsOf(w) : r.season = 0 \/ r.episode = 0}

------------------------------------------------------------------------------
\* The strategies, in their order; each yields the mappings it may return.
Direct(w, r) ==
    IF r.season \in DOMAIN w.cours /\ r.episode \in 1 .. EpisodeCount(w, r.season)
    THEN {Mapping(r.season, r.episode, "direct")} ELSE {}
IsSpecial(r) == r.episode = 0 \/ r.season = 0
\* The model may name any number, listed or not, or none.
Special(w, r) ==
    IF w.specials = 0 THEN {Mapping(0, r.episode, "special_passthrough")}
    ELSE IF r.season = 0 /\ r.episode \in 1 .. w.specials THEN {Mapping(0, r.episode, "special_direct")}
    ELSE {Mapping(0, 1, "special_fallback")} \union {Mapping(0, n, "special_llm") : n \in 0 .. w.specials + 1}
\* What a cour may be told of a release: its own count, or the season's.
ByCour(w, c, e, target) ==
    IF target \in 1 .. EpisodeCount(w, c.season) THEN {Mapping(c.season, target, "cour_relative")}
    ELSE IF e \in c.from .. c.to /\ e \in 1 .. EpisodeCount(w, c.season) THEN {Mapping(c.season, e, "cour_absolute")}
    ELSE {}
CourNumbered(w, r, unlisted) ==
    IF r.season <= Len(w.cours) THEN {} ELSE {g.cour : g \in {g \in GlobalCours(w, unlisted) : g.number = r.season}}
\* Mutant: an episode is counted from the cour's first, not after it.
CourOffByOne(w, r, unlisted) ==
    UNION {ByCour(w, c, r.episode, c.from + r.episode) : c \in CourNumbered(w, r, unlisted)}
Cour(w, r, unlisted) ==
    UNION {ByCour(w, c, r.episode, c.from + r.episode - 1) : c \in CourNumbered(w, r, unlisted)}
Absolute(w, r) ==
    IF r.season = 0 \/ (r.season > 1 /\ r.season \notin DOMAIN w.cours) THEN {}
    ELSE {Mapping(s, r.episode - EpisodesBefore(w, s), "absolute") :
            s \in {t \in DOMAIN w.cours : r.episode > EpisodesBefore(w, t) /\ r.episode <= EpisodesBefore(w, t + 1)}}
\* EpisodeMapper: the first strategy that has a mapping.
Mapped(w, r, unlisted) ==
    IF Direct(w, r) # {} THEN Direct(w, r)
    ELSE IF IsSpecial(r) THEN Special(w, r)
    ELSE IF Cour(w, r, unlisted) # {} THEN Cour(w, r, unlisted)
    ELSE IF Absolute(w, r) # {} THEN Absolute(w, r)
    ELSE {NoMapping}

------------------------------------------------------------------------------
TmdbInit ==
    /\ wanted \in {w \in Shows : w.animated}
    /\ items \in BoundedSeq(ReleasesOf(wanted), MaxItems)
    /\ identity = Unparsed /\ known = <<>> /\ corrected = <<>>

\* What the subscription knows is applied to what the parser said: the offset is
\* taken off, which must leave an episode, and its season put in.
Adjusted(r) ==
    IF r.offset = 0 \/ r.episode = 0 THEN r
    ELSE [r EXCEPT !.episode = @ - r.offset, !.season = IF r.override = 0 THEN @ ELSE r.override]
Parse ==
    /\ identity = Unparsed /\ identity' = NoShow
    /\ \E n \in 0 .. Len(items) : \E parsed \in [1 .. n -> DOMAIN items] :
         /\ \A k \in 1 .. n : /\ items[parsed[k]].episode > 0 => items[parsed[k]].episode > items[parsed[k]].offset
                              /\ \A l \in 1 .. k - 1 : parsed[l] < parsed[k]
         /\ items' = [k \in 1 .. n |-> Adjusted(items[parsed[k]])]
    /\ UNCHANGED <<wanted, known, corrected>>

\* The heuristic: the best of the animated ones.
Heuristic(found) ==
    LET animated == {w \in found : w.animated}
    IN {w \in animated : \A v \in animated : v.score <= w.score}

(* The search finds some shows.  A model that names one of them decides;   *)
(* one that names another, or none, leaves it to the heuristic.  A name    *)
(* nothing is found for fails every release that has it.                   *)
Identify ==
    /\ identity = NoShow /\ items # <<>>
    /\ \E found \in SUBSET Shows :
         \/ \E w \in found : identity' = [id |-> w.id, show |-> w, chosen |-> "llm"] /\ UNCHANGED items
         \/ \E w \in Heuristic(found) : identity' = [id |-> w.id, show |-> w, chosen |-> "heuristic"] /\ UNCHANGED items
         \/ Heuristic(found) = {} /\ items' = <<>> /\ UNCHANGED identity
    /\ UNCHANGED <<wanted, known, corrected>>

Validated(r, m, unlisted) ==
    /\ corrected' = Append(corrected, [release |-> r, as |-> m, unlisted |-> unlisted])
    /\ items' = Tail(items)

(* One release: the batch's cache answers by its numbers alone; otherwise  *)
(* the show's details are fetched, and the episodes of its seasons.        *)
Validate ==
    /\ identity \notin {Unparsed, NoShow} /\ items # <<>>
    /\ LET r == Head(items)
           numbers == <<r.season, r.episode>>
           hit == {k \in Range(known) : k.key = numbers}
       IN IF hit # {}
          THEN \E k \in hit : Validated(r, k.as, k.unlisted) /\ UNCHANGED known
          ELSE \E unlisted \in SUBSET DOMAIN identity.show.cours :
                 \E m \in Mapped(identity.show, r, unlisted) \union {NoMapping} :
                   /\ Validated(r, m, unlisted)
                   /\ known' = Append(known, [key |-> numbers, as |-> m, unlisted |-> unlisted])
    /\ UNCHANGED <<wanted, identity>>

TmdbNext == Parse \/ Identify \/ Validate
TmdbSpec == TmdbInit /\ [][TmdbNext]_tmdbVars

------------------------------------------------------------------------------
Right == {k \in DOMAIN corrected : identity.show = wanted /\ corrected[k].as # NoMapping}
\* The number of a cour that TMDB has a season of, too, is read as that season's.
Misread(w, r) == r.scheme = "relative" /\ r.season <= Len(w.cours) /\ <<r.season, r.episode>> # r.is
(* A release numbered as TMDB does, by one running count, with or without   *)
(* an offset to take off, or anew in every cour, that is mapped at all is   *)
(* mapped to the episode it is, whatever the batch had before it, as long   *)
(* as the lists of the seasons could be had, and unless the number of its   *)
(* cour is that of another season of TMDB.                                  *)
MappedBack ==
    \A k \in Right :
        LET c == corrected[k]
        IN c.release.scheme \in {"tmdb", "absolute", "offset", "relative"} /\ c.unlisted = {}
           /\ ~Misread(wanted, c.release) =>
             <<c.as.season, c.as.episode>> = c.release.is

(* TMDB has every episode a release is mapped to, but for what the model    *)
(* named and for the specials of a show that lists none.                    *)
MappedExists ==
    \A k \in DOMAIN corrected :
        LET m == corrected[k].as
        IN m.by \notin {"none", "special_llm", "special_passthrough"} =>
             IF m.season = 0 THEN m.episode \in 1 .. identity.show.specials
             ELSE m.season \in DOMAIN identity.show.cours /\ m.episode \in 1 .. EpisodeCount(identity.show, m.season)

(* "regex mode must not select live action": a show that is not animated is *)
(* the answer only if the model named it.                                   *)
LiveActionOnlyNamed == identity.id # 0 => identity.show.animated \/ identity.chosen = "llm"

MappedRight == MappedBack /\ MappedExists /\ LiveActionOnlyNamed
=============================================================================
