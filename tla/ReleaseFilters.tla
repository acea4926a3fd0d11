---------------------------- MODULE ReleaseFilters ----------------------------
(* The filters an RSS scan puts its releases through: title and metadata     *)
(* rules, then PriorityFilter, then StrictRenameFilter.  The last two decide *)
(* by the rows of the library, which they await, and by the tasks that are   *)
(* active once they have them.  Groups are filtered apart, so the releases   *)
(* here are those of one episode.                                            *)
EXTENDS Naturals, Sequences, SequencesExt, FiniteSets, FiniteSetsExt

CONSTANTS Variants,     \* the releases of the episode: rank of the group and of
                        \* the quality (Unranked: not in the user's list), version,
                        \* and the season its subscription puts into file names
          Refused,      \* those a title or metadata rule refuses
          FieldOrder,   \* priority.field_order
          Unranked, NoSeason

ASSUME FiltersAssumption ==
    /\ Variants \subseteq [id : Nat, fansub : 0 .. Unranked, quality : 0 .. Unranked, version : Nat, season : Nat]
    /\ Refused \subseteq Variants /\ FieldOrder \in Seq({"fansub", "quality"}) /\ Unranked \in Nat

VARIABLES
    library,  \* the rows, in the order they were inserted
    active,   \* releases of the tasks that have not ended
    failed,   \* releases of the failed tasks, which block their own URL
    pass      \* the scan: where it is, what is left, and the rows it has read
fltVars == <<library, active, failed, pass>>

NoPass == [at |-> "idle", batch |-> {}, rows |-> <<>>]
FltInit == library = <<>> /\ active = {} /\ failed = {} /\ pass = NoPass

------------------------------------------------------------------------------
\* PriorityFilter.
Upgrade(c, known) == \E k \in known : k.fansub = c.fansub /\ c.version > k.version
\* The best level of each field, wherever it comes from.
BestLevel(field, known) == Min({k[field] : k \in known})
\* Mutant: the first field of the order alone decides.
SkippedByFirstField(c, known) == c[FieldOrder[1]] > BestLevel(FieldOrder[1], known)
Skipped(c, known) ==
    \E i \in DOMAIN FieldOrder :
        /\ c[FieldOrder[i]] > BestLevel(FieldOrder[i], known)
        /\ \A j \in 1 .. i - 1 : c[FieldOrder[j]] = BestLevel(FieldOrder[j], known)
\* One release before another in the order of the fields.
Before(a, b) ==
    \E i \in DOMAIN FieldOrder :
        a[FieldOrder[i]] < b[FieldOrder[i]] /\ \A j \in 1 .. i - 1 : a[FieldOrder[j]] = b[FieldOrder[j]]
BestOf(batch) == {c \in batch : \A d \in batch : ~Before(d, c)}
Prioritized(batch, known) ==
    LET upgrades == {c \in batch : Upgrade(c, known)}
    IN upgrades \union BestOf({c \in batch \ upgrades : known # {} => ~Skipped(c, known)})

\* StrictRenameFilter.  A stem leaves the version out; the stem of a row knows
\* nothing of the season its subscription puts into file names.
Stem(c) == <<c.fansub, c.quality, c.season>>
RowStem(row) == <<row.fansub, row.quality, NoSeason>>
\* The first row that matches decides.
BlockedByRows(c, rows) ==
    LET same == {i \in DOMAIN rows : RowStem(rows[i]) = Stem(c)}
    IN same # {} /\ c.version <= rows[Min(same)].version
BlockedByActive(c) == \E a \in active : Stem(a) = Stem(c) /\ c.version <= a.version
\* Mutant: what is being downloaded is not asked about.
DistinctStemsOfRows(batch, rows) ==
    LET open == {c \in batch : ~BlockedByRows(c, rows)}
    IN {c \in open : \A d \in open : Stem(d) = Stem(c) => d.version < c.version \/ (d.version = c.version /\ c.id <= d.id)}
DistinctStems(batch, rows) ==
    LET open == {c \in batch : ~BlockedByRows(c, rows) /\ ~BlockedByActive(c)}
    IN {c \in open : \A d \in open : Stem(d) = Stem(c) => d.version < c.version \/ (d.version = c.version /\ c.id <= d.id)}

------------------------------------------------------------------------------
\* A scan: what the feeds list, without the titles of the library and without
\* what the rules refuse.
List ==
    /\ pass.at = "idle"
    /\ \E listed \in SUBSET (Variants \ (Range(library) \union Refused)) :
         pass' = [pass EXCEPT !.at = "listed", !.batch = listed]
    /\ UNCHANGED <<library, active, failed>>
ReadRows(from, to) == pass.at = from /\ pass' = [pass EXCEPT !.at = to, !.rows = library]
Rank ==
    /\ pass.at = "ranking"
    /\ pass' = [pass EXCEPT !.at = "ranked", !.batch = Prioritized(@, Range(pass.rows) \union active)]
    /\ UNCHANGED <<library, active, failed>>
Compare ==
    /\ pass.at = "comparing"
    /\ pass' = [pass EXCEPT !.at = "accepted", !.batch = DistinctStems(@, pass.rows)]
    /\ UNCHANGED <<library, active, failed>>
ReadForRank == ReadRows("listed", "ranking") /\ UNCHANGED <<library, active, failed>>
ReadForCompare == ReadRows("ranked", "comparing") /\ UNCHANGED <<library, active, failed>>
Take(c) ==
    /\ pass.at = "accepted" /\ c \in pass.batch
    /\ active' = active \union ({c} \ failed)
    /\ pass' = [pass EXCEPT !.batch = @ \ {c}]
    /\ UNCHANGED <<library, failed>>
EndPass == pass.at = "accepted" /\ pass.batch = {} /\ pass' = NoPass /\ UNCHANGED <<library, active, failed>>

\* The tasks: the library has the release before the task is over.
Record(c) ==
    /\ c \in active /\ c \notin Range(library) /\ library' = Append(library, c)
    /\ UNCHANGED <<active, failed, pass>>
Finish(c) == c \in active /\ c \in Range(library) /\ active' = active \ {c} /\ UNCHANGED <<library, failed, pass>>
Fail(c) ==
    /\ c \in active /\ c \notin Range(library) /\ active' = active \ {c} /\ failed' = failed \union {c}
    /\ UNCHANGED <<library, pass>>

FltNext ==
    \/ List \/ ReadForRank \/ Rank \/ ReadForCompare \/ Compare \/ EndPass
    \/ \E c \in Variants : Take(c) \/ Record(c) \/ Finish(c) \/ Fail(c)
FltSpec == FltInit /\ [][FltNext]_fltVars

------------------------------------------------------------------------------
\* Two different releases of one file name and version are never both
\* downloaded, unless the task of the one ended while a scan with the other was
\* between its two looks, an older version was first in the library, or the
\* subscription puts a season of its own into file names.
Known == Range(library) \union active
OneFilePerVersion ==
    [][\A c \in pass'.batch : Compare /\ c.season = NoSeason =>
          \A k \in Known \ {c} : Stem(k) = Stem(c) /\ k.version >= c.version =>
              \/ k \notin Range(pass.rows) \union active
              \/ \E row \in Range(pass.rows) : RowStem(row) = Stem(c) /\ row.version < c.version]_fltVars

\* A release that is worse than one the library has or a task downloads is only
\* taken as a newer version of its group's.
NeverWorse ==
    [][Rank =>
          \A c \in pass'.batch, k \in Range(pass.rows) \union active :
              Before(k, c) => \E o \in Range(pass.rows) \union active : o.fansub = c.fansub /\ o.version < c.version]_fltVars

WellChosen == NeverWorse /\ OneFilePerVersion
=============================================================================
