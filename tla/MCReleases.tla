------------------------------- MODULE MCReleases -------------------------------
(* Four parts of an RSS scan and the settings of the backend side by side: *)
(* each behaviour is one of them at work, and the others as they were born. *)
EXTENDS Subscriptions, ReleaseFilters, TitleParser, MetadataValidation, Settings
CONSTANTS f1, f2, x1, x2, t1, t2, c1, c2
FeedLists == (f1 :> {x1, x2}) @@ (f2 :> {x2})

Variant(id, fansub, quality, version, season) ==
    [id |-> id, fansub |-> fansub, quality |-> quality, version |-> version, season |-> season]
Candidates == {Variant(2, 1, 0, 1, 0), Variant(3, 0, 1, 1, 0), Variant(4, 0, 1, 2, 0),
               Variant(6, 0, 1, 1, 2), Variant(8, 3, 0, 1, 0)}
Rejected == {Variant(8, 3, 0, 1, 0)}
Order == <<"fansub", "quality">>

Show(id, score, animated, cours, specials) ==
    [id |-> id, score |-> score, animated |-> animated, cours |-> cours, specials |-> specials]
TmdbShows == {Show(1, 2, TRUE, <<<<2, 1>>, <<1, 2>>>>, 0), Show(2, 1, TRUE, <<<<2, 1, 2>>>>, 1),
              Show(3, 3, FALSE, <<<<2>>>>, 0)}

Installed ==
    [url |-> "e1", token |-> TRUE, path |-> "p1", format |-> "plain", interval |-> 60, retries |-> 3,
     patterns |-> "good", feeds |-> "some", parser |-> "unset", provider |-> "known", key |-> FALSE,
     site |-> "e1", notifying |-> TRUE, bots |-> {"complete", "unknown"}, assistant |-> FALSE, frontends |-> {}]
Files == {Installed,
          [Installed EXCEPT !.key = TRUE, !.assistant = TRUE, !.frontends = {"complete"}, !.format = "empty"],
          [Installed EXCEPT !.feeds = "placeholder"], [Installed EXCEPT !.bots = {"incomplete"}]}
Ask(a) == [patterns |-> "good"] @@ a
Asked ==
    {Ask([url |-> "e2"]), Ask([path |-> "p2"]), Ask([format |-> "other"]), Ask([interval |-> 90]),
     Ask([retries |-> 0]), [patterns |-> "broken", format |-> "reaching"],
     Ask([parser |-> "llm", provider |-> "known", key |-> TRUE]), Ask([provider |-> "unknown", site |-> "e2"]),
     Ask([url |-> "e2", path |-> "p1", format |-> "plain", interval |-> 60, retries |-> 3, parser |-> "regex"])}

VARIABLE part
vars == <<part, subVars, fltVars, titleVars, tmdbVars, setVars>>

(* A part that is not at work has nothing for fairness to ask for.         *)
Init ==
    /\ part \in {"subscriptions", "filters", "titles", "validation", "settings"}
    /\ FltInit
    /\ SubInit /\ (part # "subscriptions" => subs = <<>> /\ ~banned)
    /\ IF part = "titles" THEN TitInit ELSE form = Unread /\ result = Unread
    /\ IF part = "validation" THEN TmdbInit
       ELSE wanted = NoShow /\ items = <<>> /\ identity = Unparsed /\ known = <<>> /\ corrected = <<>>
    /\ SetInit /\ (part # "settings" => file = Installed)

Next ==
    \/ part = "subscriptions" /\ SubNext /\ UNCHANGED <<part, fltVars, titleVars, tmdbVars, setVars>>
    \/ part = "filters" /\ FltNext /\ UNCHANGED <<part, subVars, titleVars, tmdbVars, setVars>>
    \/ part = "titles" /\ ReadTitle /\ UNCHANGED <<part, subVars, fltVars, tmdbVars, setVars>>
    \/ part = "validation" /\ TmdbNext /\ UNCHANGED <<part, subVars, fltVars, titleVars, setVars>>
    \/ part = "settings" /\ SetNext /\ UNCHANGED <<part, subVars, fltVars, titleVars, tmdbVars>>

Spec == Init /\ [][Next]_vars /\ WF_subVars(ScanStep)
=============================================================================
