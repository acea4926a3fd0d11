------------------------------- MODULE TitleParser -------------------------------
(* The regex engine that reads a release's title: whose it is, which anime,  *)
(* which season and episode.  A title is a sequence of words; a word is what *)
(* one of the engine's patterns finds, with the number that is in it.        *)
EXTENDS Naturals, Sequences, SequencesExt, FiniteSets, FiniteSetsExt

CONSTANTS Signatures,    \* how groups sign
          Namings,       \* how they write the name, its aliases and labels
          SeasonForms,   \* how they write a season after the first
          EpisodeForms,  \* and an episode
          Seasons, Episodes

ASSUME TitleAssumption == Seasons \union Episodes \subseteq Nat \ {0}

VARIABLES form,   \* how the title to be read is written
          result  \* what the engine makes of it
titleVars == <<form, result>>

Word(is, n) == [is |-> is, n |-> n]
A(is) == Word(is, 0)
Has(t, kinds) == \E i \in DOMAIN t : t[i].is \in kinds
Places(t, kinds) == {i \in DOMAIN t : t[i].is \in kinds}
Without(t, places) == FlattenSeq([i \in DOMAIN t |-> IF i \in places THEN <<>> ELSE <<t[i]>>])
\* The text without brackets at its ends.
Strip(t) ==
    LET inner == DOMAIN t \ Places(t, {"[", "]"})
    IN IF inner = {} THEN <<>> ELSE SubSeq(t, Min(inner), Max(inner))
HasHan(t) == Has(t, {"han", "phase", "ki", "nki", "hua", "variant", "note", "paren", "quote", "newseason"})
HasCjk(t) == HasHan(t) \/ Has(t, {"kana"})
Latin == {"latin", "word", "CAPS"}

------------------------------------------------------------------------------
\* How titles are written: the shapes the engine's patterns are for.
Tag(w) == <<A("["), w, A("]")>>
Signed(h) ==
    CASE h = "none" -> <<>>
      [] h = "group" -> Tag(A("group"))
      [] h = "publisher" -> Tag(A("publisher")) \o Tag(A("group"))
      [] h = "variant" -> Tag(A("variant"))
      [] h = "label" -> Tag(A("group")) \o Tag(A("newseason"))
      [] h = "star" -> <<A("group"), A("*")>>
      [] h = "index" -> <<A("["), A("han"), Word("digits", 1), A("]")>>
Season(f, s) ==
    CASE f = "none" -> <<>>
      [] f = "[S]" -> Tag(Word("S", s))
      [] f = "[nki]" -> Tag(Word("nki", s))
      [] OTHER -> <<Word(f, s)>>
\* "han" is the name sought; the others are its aliases and what is said of it.
\* A release may repeat the number of its episode after an alias.
Name(n, s, e) ==
    CASE n \in {"han", "latin", "word"} -> <<A(n)>> \o s
      [] n = "[han]" -> Tag(A("han")) \o s
      [] n = "han / latin" -> <<A("han"), A("/"), A("latin")>> \o s
      [] n = "both" -> <<A("han")>> \o s \o <<A("/"), A("latin")>> \o s
      [] n = "latin / han" -> <<A("latin"), A("/"), A("han")>> \o s
      [] n = "kana / han" -> <<A("kana"), A("/"), A("han")>> \o s
      [] n = "han e / kana" -> <<A("han"), Word("digits", e), A("/"), A("kana")>> \o s
      [] n = "han latin" -> <<A("han"), A("latin")>> \o s
      [] n = "han CAPS" -> <<A("han"), A("CAPS")>> \o s
      [] n = "han / hanCAPS" -> <<A("han"), A("/"), A("han"), A("+CAPS")>> \o s
      [] n = "han_latin" -> <<A("han"), A("_"), A("latin")>> \o s
      [] n = "latin_han_han" -> <<A("latin"), A("_"), A("han"), A("paren"), A("_"), A("han")>> \o s
      [] n = "latin -- han" -> <<A("latin"), A("--"), A("han")>> \o s
      [] n = "han variant" -> <<A("han")>> \o s \o Tag(A("variant"))
      [] n = "han quote latin" -> <<A("han"), A("quote"), A("latin")>> \o s
      [] n = "han paren" -> <<A("han"), A("paren")>> \o s
      [] n = "note" -> <<A("note"), A("han")>> \o s
      [] n = "new" -> <<A("newseason"), A("han")>> \o s
Episode(f, s, e) ==
    CASE f = "SxE" -> <<[is |-> "SxE", n |-> e, s |-> s]>>
      [] f = "[digits]" -> Tag(Word("digits", e))
      [] f = "[EP]" -> Tag(Word("EP", e))
      [] f = "[OVA]" -> Tag(Word("OVA", e))
      [] f = "[hua]" -> Tag(Word("hua", e))
      [] f = "*" -> <<A("*"), Word("digits", e), A("*")>>
      [] f = "trailing" -> <<Word("digits", e)>>
      [] f = "-SP" -> <<A("-SP")>>
      [] OTHER -> <<Word(f, e)>>
Title(w) ==
    Signed(w.signature) \o Name(w.name, Season(w.seasonBy, w.season), w.episode) \o Episode(w.by, w.season, w.episode)
        \o IF w.by \in {"*", "trailing", "Part"} THEN <<>> ELSE Tag(A("meta"))

------------------------------------------------------------------------------
\* Tags: an opening bracket and the next closing one, with words between them.
Tags(t) ==
    {g \in (DOMAIN t) \X (DOMAIN t) : /\ t[g[1]].is = "[" /\ t[g[2]].is = "]" /\ g[1] + 1 < g[2]
                                      /\ \A i \in g[1] + 1 .. g[2] - 1 : t[i].is # "]"}
Inside(t, g) == SubSeq(t, g[1] + 1, g[2] - 1)
OneOf(c, kinds) == Len(c) = 1 /\ c[1].is \in kinds
IsSeasonTag(c) == OneOf(c, {"nki", "nth", "phase", "S"})
IsEpisodeTag(c) == OneOf(c, {"digit", "digits", "EP", "OVA", "hua"})
IsNonTitleTag(c) == OneOf(c, {"meta", "variant", "newseason"})
\* Without the tags that are no title; of the others only the brackets go.
RemoveTags(t) ==
    Without(t, UNION {LET c == Inside(t, g)
                      IN IF IsNonTitleTag(c) \/ IsEpisodeTag(c) \/ IsSeasonTag(c) THEN g[1] .. g[2] ELSE {g[1], g[2]} :
                        g \in Tags(t)})

\* The group that leads the title.  Tags of a publisher or a variant are passed
\* over, and a tag with name and episode is none when a season and episode follow.
Lead(text, fansub) == [text |-> text, fansub |-> fansub]
StripTag(t, tag, after) ==
    IF Len(tag) = 2 /\ tag[1].is = "han" /\ tag[2].is = "digits" /\ Has(after, {"SxE"})
    THEN Lead(t, <<>>) ELSE Lead(after, tag)
StripStar(t) ==
    IF Len(t) > 1 /\ t[1].is = "group" /\ t[2].is = "*"
    THEN Lead(SubSeq(t, 3, Len(t)), <<t[1]>>) ELSE Lead(t, <<>>)
StripLead(t, leading) ==
    IF leading = {} THEN StripStar(t)
    ELSE LET g == CHOOSE g \in leading : TRUE IN StripTag(t, Inside(t, g), SubSeq(t, g[2] + 1, Len(t)))
PassedOver(skipped) ==
    Max({0} \union {g[2] : g \in {g \in skipped : \A i \in 1 .. g[2] : \E h \in skipped : i \in h[1] .. h[2]}})
LeadingTags(t) == {g \in Tags(t) : g[1] = 1}
StripPassed(t) == StripLead(t, LeadingTags(t))
StripFansub(t) ==
    StripPassed(SubSeq(t, PassedOver({g \in Tags(t) : OneOf(Inside(t, g), {"publisher", "variant"})}) + 1, Len(t)))

------------------------------------------------------------------------------
\* The episode, and the text before it.
Match(name, season, w) == [name |-> name, season |-> season, episode |-> w.n, half |-> w.is = "-half"]
\* A pattern's first match among the places given.
AtFirst(t, places, season) ==
    IF places = {} THEN {} ELSE LET i == Min(places) IN {Match(SubSeq(t, 1, i - 1), season, t[i])}
SxxExx(t) == {[m EXCEPT !.season = t[Min(Places(t, {"SxE"}))].s] : m \in AtFirst(t, Places(t, {"SxE"}), 0)}
StarEpisode(t) ==
    LET stars == Places(t, {"*"})
        at == {i \in Places(t, {"digit", "digits"}) : {i - 1, i + 1} \subseteq stars}
    IN IF at = {} THEN {}
       ELSE LET i == Min(at)
                from == Max({0} \union {j \in stars : j < i - 1})
            IN {Match(SubSeq(t, from + 1, i - 2), 1, t[i])}
\* The first pattern, in the order given, that finds a season.
FirstSeason(c, order) ==
    LET found == {k \in DOMAIN order : Has(c, {order[k]})}
    IN IF found = {} THEN {} ELSE {c[Min(Places(c, {order[Min(found)]}))].n}
IsSeasonText(c) == Has(c, {"S", "nki", "nth", "phase"})
FirstTag(tags) == CHOOSE g \in tags : \A h \in tags : g[1] <= h[1]
\* The name before a tag: the text without brackets, or else the first title in them.
NameBefore(t, unbracketed, titles) ==
    IF unbracketed # <<>> THEN unbracketed ELSE IF titles = {} THEN <<>> ELSE Inside(t, FirstTag(titles))
TitleTags(t, tags) == {h \in tags : ~IsNonTitleTag(Inside(t, h)) /\ ~IsSeasonTag(Inside(t, h))}
SeasonOf(t, tags) ==
    IF tags = {} THEN {1} ELSE FirstSeason(Inside(t, FirstTag(tags)), <<"S", "nki", "nth", "phase">>)
InBracket(t, g, earlier) ==
    {Match(n, s, t[g[1] + 1]) :
        n \in {NameBefore(t, Strip(RemoveTags(SubSeq(t, 1, g[1] - 1))), TitleTags(t, earlier))} \ {<<>>},
        s \in SeasonOf(t, {h \in earlier : IsSeasonText(Inside(t, h))})}
FirstFound(tried) ==
    UNION {m.found : m \in {m \in tried : \A k \in tried : k.found = {} \/ m.at <= k.at}}
Bracket(t) ==
    FirstFound({[at |-> g[1], found |-> InBracket(t, g, {h \in Tags(t) : h[1] < g[1]})] :
                    g \in {g \in Tags(t) : IsEpisodeTag(Inside(t, g))}})
\* A number with a name before it: in front of tags, or at the end.  In front of
\* tags the number of a season or a part is taken too, and leaves its word behind.
InFrontOfTags(t) ==
    LET at == {i \in Places(t, {"digit", "digits", "nth", "Part"}) : i < Len(t) /\ t[i + 1].is = "["}
        Before(m) == IF Has(<<t[Min(at)]>>, {"nth", "Part"}) THEN Append(m.name, A("latin")) ELSE m.name
    IN {m \in {[m EXCEPT !.name = Before(m)] : m \in AtFirst(t, at, 1)} : HasCjk(m.name)}
AtTheEnd(t) ==
    {m \in AtFirst(t, {i \in Places(t, {"digit", "digits"}) : i = Len(t)}, 1) : HasCjk(m.name)}

\* Mutant: a season written before a tag is taken for the episode in it.
MatchersLooseFirst(t) ==
    <<SxxExx(t), AtFirst(t, Places(t, {"-SP"}), 0), AtFirst(t, Places(t, {"-OVA"}), 0),
      AtFirst(t, Places(t, {"-", "-half"}), 1), AtFirst(t, Places(t, {"EP"}), 1),
      AtFirst(t, Places(t, {"hua"}), 1), StarEpisode(t), InFrontOfTags(t), Bracket(t),
      AtFirst(t, Places(t, {"Part"}), 1), AtTheEnd(t)>>
\* The patterns in the order they are tried: those that say more come first.
Matchers(t) ==
    <<SxxExx(t), AtFirst(t, Places(t, {"-SP"}), 0), AtFirst(t, Places(t, {"-OVA"}), 0),
      AtFirst(t, Places(t, {"-", "-half"}), 1), AtFirst(t, Places(t, {"EP"}), 1),
      AtFirst(t, Places(t, {"hua"}), 1), StarEpisode(t), Bracket(t), InFrontOfTags(t),
      AtFirst(t, Places(t, {"Part"}), 1), AtTheEnd(t)>>
\* A range of episodes is for a reviewer.
FirstOf(matches, hits) == IF hits = {} THEN {} ELSE matches[Min(hits)]
Tried(matches) == FirstOf(matches, {k \in DOMAIN matches : matches[k] # {}})
ExtractEpisode(t) == IF Has(t, {"range"}) THEN {} ELSE Tried(Matchers(t))

------------------------------------------------------------------------------
\* The aliases of the name, with what is no part of it taken off.
Split(t, mark) ==
    LET parts == FoldLeft(LAMBDA done, w : IF w.is = mark THEN Append(done, <<>>)
                                           ELSE [done EXCEPT ![Len(done)] = Append(@, w)], <<<<>>>>, t)
    IN SelectSeq([i \in DOMAIN parts |-> Strip(parts[i])], LAMBDA a : a # <<>>)
SplitAliases(t) == Split(t, "/")
\* A season at the end of an alias, when nothing says it better.
WeakSeason(a) ==
    IF Last(a).is = "ki" \/ (Last(a).is = "digit" /\ Last(a).n > 1 /\ Len(a) > 1 /\ Front(a) # <<A("word")>>)
    THEN {Last(a).n} ELSE {}
BareSeason(aliases) ==
    LET weak == {i \in DOMAIN aliases : WeakSeason(aliases[i]) # {}}
    IN IF weak = {} THEN {} ELSE WeakSeason(aliases[Min(weak)])
StripBareSeason(a, season) ==
    IF Len(a) > 1 /\ (Last(a).is = "ki" \/ Last(a) = Word("digit", season)) THEN Front(a) ELSE a

\* A note before the name is dropped, and an alias in parentheses or a number after it.
StripNote(a) == IF a # <<>> /\ a[1].is = "note" THEN SubSeq(a, 2, Len(a)) ELSE a
StripParen(a) == IF Len(a) > 1 /\ Last(a).is = "paren" THEN Front(a) ELSE a
StripNumber(a) == IF Len(a) > 1 /\ Last(a).is = "digits" /\ Last(Front(a)).is = "han" THEN Front(a) ELSE a
StripNotes(a) ==
    StripNumber(StripParen(StripNote(
        Without(a, Places(a, {"variant"}) \union ({1} \cap Places(a, {"newseason"}))))))
From(a, dashes) == IF dashes = {} THEN a ELSE SubSeq(a, Min(dashes) + 1, Len(a))
StripLatinBefore(a) ==
    From(a, {i \in Places(a, {"--"}) : /\ i > 1 /\ i < Len(a) /\ a[i + 1].is = "han"
                                      /\ ~HasCjk(SubSeq(a, 1, i - 1))})
\* Of names joined by underscores, one in Latin letters among them, the last Chinese one.
LastChinese(a, names, chinese) ==
    IF Len(chinese) > 1 /\ (\E i \in DOMAIN names : Has(names[i], Latin) /\ ~HasCjk(names[i]))
    THEN Last(chinese) ELSE a
AmongNames(a, names) == LastChinese(a, names, SelectSeq(names, LAMBDA n : HasHan(n) /\ ~Has(n, {"kana"})))
SelectUnderscored(a) == IF HasCjk(a) THEN AmongNames(a, Split(a, "_")) ELSE a
UpTo(a, tails) == IF tails = {} THEN a ELSE SubSeq(a, 1, Min(tails) - 1)
StripLatinAfter(a) == UpTo(a, {i \in Places(a, {"quote", "_"}) : i < Len(a) /\ a[i + 1].is \in Latin})
CleanAlias(a) == Strip(StripLatinAfter(SelectUnderscored(StripLatinBefore(StripNotes(a)))))
\* Where a name in Latin letters begins that goes on to the end.
RomanizedSuffix(a) ==
    {i \in Places(a, Latin) : i > 1 /\ i .. Len(a) \subseteq Places(a, Latin \union {"digit", "digits"})}
KeepsSuffix(a, suffix) == suffix = {} \/ (Min(suffix) = Len(a) /\ Last(a).is = "CAPS")
TrimSuffix(a, suffix) == IF ~HasCjk(a) \/ KeepsSuffix(a, suffix) THEN a ELSE SubSeq(a, 1, Min(suffix) - 1)
TrimRomanized(a) == TrimSuffix(a, RomanizedSuffix(a))
\* A first name without Latin letters takes over the suffix in capitals of a later one.
SharedSuffix(clean) ==
    {Last(clean[i]) : i \in {i \in 2 .. Len(clean) : HasHan(clean[1]) /\ ~Has(clean[1], Latin \union {"+CAPS"})
                                                   /\ HasHan(clean[i]) /\ Last(clean[i]).is = "+CAPS"}}
\* A Chinese name before one with kana, and either before one in Latin letters.
Preferred(clean, han, cjk) ==
    IF han \union cjk = {} THEN clean[1] ELSE TrimRomanized(clean[Min(IF han # {} THEN han ELSE cjk)])
ChooseClean(clean) ==
    IF clean = <<>> THEN <<>>
    ELSE IF SharedSuffix(clean) # {} THEN Append(clean[1], A("+CAPS"))
    ELSE Preferred(clean, {i \in DOMAIN clean : HasHan(clean[i]) /\ ~Has(clean[i], {"kana"})},
                   {i \in DOMAIN clean : HasCjk(clean[i])})
ChooseAlias(aliases) ==
    ChooseClean(SelectSeq([i \in DOMAIN aliases |-> CleanAlias(aliases[i])], LAMBDA a : a # <<>>))

\* The season's own mark is taken off the aliases.
Named(aliases, marked, season) ==
    [name |-> ChooseAlias(IF marked THEN [i \in DOMAIN aliases |-> StripBareSeason(aliases[i], season)] ELSE aliases),
     season |-> season]
Weakly(aliases, bare) == Named(aliases, bare # {}, IF bare = {} THEN 1 ELSE CHOOSE s \in bare : TRUE)
Explicitly(aliases, season) == Named(aliases, season > 1, season)
OfAliases(aliases, marked, fallback) ==
    IF marked # {} THEN Explicitly(aliases, CHOOSE s \in marked : TRUE)
    ELSE IF fallback # 1 THEN Explicitly(aliases, fallback)
    ELSE Weakly(aliases, BareSeason(aliases))
MarkedSeason(name, spoken, spaced) ==
    IF spoken # {} THEN spoken ELSE IF spaced # {} THEN {name[Min(spaced)].n} ELSE {}
WithSpaced(name, fallback, spaced) ==
    OfAliases(SplitAliases(RemoveTags(Without(name, Places(name, {"nki", "nth"}) \union spaced))),
              MarkedSeason(name, FirstSeason(name, <<"phase", "nth", "nki">>), spaced), fallback)
NameAndSeason(name, fallback) ==
    WithSpaced(name, fallback, {i \in Places(name, {"S"}) : i = 1 \/ name[i - 1].is # "["})

Failed == [ok |-> FALSE]
\* 12.5 is a special by convention; any other half episode is for a reviewer.
Result(m, whole, fansub) ==
    IF whole.name = <<>> THEN Failed
    ELSE [ok |-> TRUE, name |-> whole.name, season |-> IF m.half THEN 0 ELSE whole.season,
          episode |-> IF m.half THEN 1 ELSE m.episode, fansub |-> fansub]
Results(found, fansub) == {Result(m, NameAndSeason(m.name, m.season), fansub) : m \in found}
Only(results) == IF results = {} THEN Failed ELSE CHOOSE r \in results : TRUE
ParseText(stripped) ==
    Only(Results({m \in ExtractEpisode(stripped.text) : m.half => m.episode = 12}, stripped.fansub))
ParseTitle(t) == ParseText(StripFansub(t))

------------------------------------------------------------------------------
Unread == [ok |-> FALSE, unread |-> TRUE]
Forms ==
    {w \in [signature : Signatures, name : Namings, seasonBy : SeasonForms, season : Seasons,
             by : EpisodeForms, episode : Episodes] :
        w.seasonBy = "none" <=> w.season = 1 \/ w.by = "SxE"}
TitInit == form \in Forms /\ result = Unread
ReadTitle ==
    /\ result = Unread
    /\ result' = ParseTitle(Title(form))
    /\ UNCHANGED form

------------------------------------------------------------------------------
\* What the title was meant to say.  A special belongs to season 0.
Meant(w) ==
    IF w.by = "range" \/ (w.by = "-half" /\ w.episode # 12) THEN Failed
    ELSE [ok |-> TRUE,
          name |-> CASE w.name \in {"latin", "word"} -> <<A(w.name)>>
                     [] w.name = "han CAPS" -> <<A("han"), A("CAPS")>>
                     [] w.name = "han / hanCAPS" -> <<A("han"), A("+CAPS")>>
                     [] OTHER -> <<A("han")>>,
          season |-> IF w.by \in {"-SP", "-OVA", "[OVA]", "-half"} THEN 0 ELSE w.season,
          episode |-> CASE w.by = "-SP" -> 0 [] w.by = "-half" -> 1 [] OTHER -> w.episode,
          fansub |-> IF w.signature \in {"none", "variant", "index"} THEN <<>> ELSE <<A("group")>>]
\* The season's number stands where the engine expects the episode's.
SeasonForEpisode(w) ==
    w.name = "han variant" /\ w.seasonBy \in {"digit", "nth"} /\ w.by \in {"digits", "trailing", "Part"}
Misleading(w) ==
    \/ SeasonForEpisode(w)
    \/ w.name = "[han]" /\ w.signature \in {"none", "variant"}
    \/ w.by = "[OVA]"
    \/ w.by \in {"-SP", "-OVA"} /\ w.seasonBy # "none"
    \/ w.seasonBy = "phase"
    \/ w.seasonBy = "[S]" /\ w.by # "[digits]"
    \/ w.seasonBy = "digit" /\ w.name = "word"
    \/ w.by \in {"digits", "trailing"} /\ w.name \in {"latin", "word"} /\ w.seasonBy \notin {"ki", "nki", "[nki]"}
    \/ w.signature = "index"

(* Whoever signs, and in whatever way name, season and episode are written, a *)
(* title is read as what it says, though the patterns overlap and the order   *)
(* they are tried in decides. The exceptions: a bracketed name that nobody    *)
(* signed is taken for the group, and one in front with a number in it is     *)
(* taken for the group or keeps the number; a special in brackets, or with a  *)
(* season, is not recognised; a phase stays in the name; a season in a tag of *)
(* its own is seen only before a tag with the episode; a number after a       *)
(* single Latin word is part of it, and after any Latin name it is no         *)
(* episode. Even then a number that is read as the episode is the episode's,  *)
(* except where the season's number is the first one before a tag.            *)
TitleRead ==
    result # Unread =>
        /\ Misleading(form) \/ result = Meant(form)
        /\ result.ok /\ ~SeasonForEpisode(form) => result.episode = Meant(form).episode

==============================================================================
