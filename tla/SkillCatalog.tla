------------------------------- MODULE SkillCatalog -------------------------------
(* One skill of the assistant, from its SKILL.md to the pages of its output: *)
(* the files its text includes are resolved depth first                      *)
(* (skill/catalog.py, resolve_includes), and the model calls its action      *)
(* through SkillTool, which hands out the guide once and the output page by  *)
(* page, the script running anew for each page (SkillCatalog.run_action).    *)
EXTENDS Integers, Sequences, SequencesExt

CONSTANTS SkillFiles,   \* files the text may name
          SkillMd,      \* the skill's own SKILL.md
          Opaque,       \* those of them that are absent or not text
          MaxLinks,     \* include directives in a file
          MaxIncludeDepth,
          PageSize,     \* MAX_SKILL_OUTPUT_CHARS
          MaxOutput,    \* longest output of the script
          MaxSkillCalls \* calls of the tool

ASSUME SkillCatalogAssumption ==
    /\ SkillMd \in SkillFiles \ Opaque /\ PageSize \in Nat \ {0}
    /\ {MaxLinks, MaxIncludeDepth, MaxOutput, MaxSkillCalls} \subseteq Nat

VARIABLES
    links,      \* the files each file includes, in the order of its directives
    stack,      \* the files being resolved, each with the directives left
    processed,  \* processed_paths
    included,   \* files whose text is in the body, in order
    partial,    \* a file was left out: unreadable, or below the depth limit
    seen,       \* the tool has handed out the guide
    shown,      \* the model's history holds it
    output,     \* length of what the script prints now
    offset,     \* where the next page starts; None when nothing is being read
    pages,      \* characters the model has read, by position
    drifted,    \* the script's output changed since the model began to read it
    skillCalls
sklVars == <<links, stack, processed, included, partial, seen, shown, output, offset, pages, drifted, skillCalls>>

NotReading == -1
Frame(file, rest) == [file |-> file, rest |-> rest]

SklInit ==
    /\ links \in [SkillFiles -> SeqOf(SkillFiles, MaxLinks)]
    /\ stack = <<Frame(SkillMd, links[SkillMd])>> /\ processed = {SkillMd}
    /\ included = <<>> /\ partial = FALSE
    /\ seen = FALSE /\ shown = FALSE
    /\ output = 0 /\ offset = NotReading /\ pages = <<>>
    /\ drifted = FALSE /\ skillCalls = 0

------------------------------------------------------------------------------
\* Resolving the includes.
Top == stack[Len(stack)]
Resolved == stack = <<>>
\* The frames after the top one's next directive, or after its last.
Advanced == [stack EXCEPT ![Len(stack)].rest = Tail(@)]
\* Mutant: a file that is not being resolved any more may be included again.
SkipsInProgress(file) == file \in Opaque \/ \E i \in DOMAIN stack : stack[i].file = file
Skips(file) == file \in Opaque \/ file \in processed

SkipFile ==
    /\ ~Resolved /\ Top.rest # <<>> /\ Skips(Head(Top.rest))
    /\ stack' = Advanced
    /\ UNCHANGED <<links, processed, included, partial, seen, shown, output, offset, pages, drifted, skillCalls>>
\* A file at the depth limit is included as it stands.
IncludeFile ==
    /\ ~Resolved /\ Top.rest # <<>>
    /\ LET file == Head(Top.rest)
           last == Len(stack) >= MaxIncludeDepth
       IN /\ ~Skips(file)
          /\ processed' = processed \union {file} /\ included' = Append(included, file)
          /\ stack' = Append(Advanced, Frame(file, IF last THEN <<>> ELSE links[file]))
          /\ partial' = (partial \/ (last /\ links[file] # <<>>))
    /\ UNCHANGED <<links, seen, shown, output, offset, pages, drifted, skillCalls>>
\* A file that cannot be read counts as processed all the same.
LoseFile ==
    /\ ~Resolved /\ Top.rest # <<>> /\ ~Skips(Head(Top.rest))
    /\ processed' = processed \union {Head(Top.rest)} /\ stack' = Advanced /\ partial' = TRUE
    /\ UNCHANGED <<links, included, seen, shown, output, offset, pages, drifted, skillCalls>>
LeaveFile ==
    /\ ~Resolved /\ Top.rest = <<>> /\ stack' = Front(stack)
    /\ UNCHANGED <<links, processed, included, partial, seen, shown, output, offset, pages, drifted, skillCalls>>

------------------------------------------------------------------------------
\* Calling the skill.
CallSkill == Resolved /\ skillCalls < MaxSkillCalls /\ skillCalls' = skillCalls + 1
GuideOnce == seen' = TRUE /\ shown' = (shown \/ ~seen)

\* Mutant: the next page starts one character late.
PageLate(from) ==
    LET rest == output - from
    IN IF rest > PageSize THEN [upto |-> from + PageSize, next |-> from + PageSize + 1]
       ELSE [upto |-> IF from > output THEN from ELSE output, next |-> NotReading]
\* The page that starts after from characters, and where the next one starts.
Page(from) ==
    LET rest == output - from
    IN IF rest > PageSize THEN [upto |-> from + PageSize, next |-> from + PageSize]
       ELSE [upto |-> IF from > output THEN from ELSE output, next |-> NotReading]
ReadFrom(from, before) ==
    /\ offset' = Page(from).next
    /\ pages' = before \o [i \in 1 .. Page(from).upto - from |-> from + i]

RunAction ==
    /\ CallSkill /\ GuideOnce /\ ReadFrom(0, <<>>) /\ drifted' = FALSE
    /\ UNCHANGED <<links, stack, processed, included, partial, output>>
NextPage ==
    /\ offset # NotReading /\ CallSkill /\ GuideOnce /\ ReadFrom(offset, pages)
    /\ UNCHANGED <<links, stack, processed, included, partial, output, drifted>>
\* The action is not found or raises: the error is all the model gets, and the
\* guide counts as handed out.
ActionFails ==
    /\ CallSkill /\ seen' = TRUE
    /\ UNCHANGED <<links, stack, processed, included, partial, shown, output, offset, pages, drifted>>

\* What the script reads has changed.
OutputChanges ==
    /\ Resolved /\ output' \in (0 .. MaxOutput) \ {output} /\ drifted' = (drifted \/ pages # <<>> \/ offset # NotReading)
    /\ UNCHANGED <<links, stack, processed, included, partial, seen, shown, offset, pages, skillCalls>>
\* /clear and compaction drop the guide from the history, not from the tool.
ForgetGuide ==
    /\ shown /\ shown' = FALSE /\ pages' = <<>> /\ offset' = NotReading
    /\ UNCHANGED <<links, stack, processed, included, partial, seen, output, drifted, skillCalls>>

ResolveIncludes == SkipFile \/ IncludeFile \/ LoseFile \/ LeaveFile
SklNext == ResolveIncludes \/ RunAction \/ NextPage \/ ActionFails \/ OutputChanges \/ ForgetGuide
SklSpec == SklInit /\ [][SklNext]_sklVars

------------------------------------------------------------------------------
\* The files that the skill names, directly or through other files: those of
\* every set that holds the skill's own and what its members include.
Closed(S) == SkillMd \in S /\ \A f \in S : ToSet(links[f]) \ Opaque \subseteq S
Named == {f \in SkillFiles : \A S \in SUBSET SkillFiles : Closed(S) => f \in S}

\* However the files include each other, in cycles or along several paths, the
\* resolved text holds each of them once and, when nothing was cut off, all of
\* them (catalog.py, resolve_includes).
IncludedOnce ==
    /\ \A i, j \in DOMAIN included : included[i] = included[j] => i = j
    /\ ToSet(included) \subseteq Named \ {SkillMd}
    /\ Resolved /\ ~partial => ToSet(included) = Named \ {SkillMd}

\* The pages of an output that did not change between the calls join to the whole
\* output: nothing is missing, nothing comes twice (catalog.py, run_action).
PagesJoin ==
    ~drifted =>
        /\ \A i \in DOMAIN pages : pages[i] = i
        /\ offset = NotReading /\ pages # <<>> => Len(pages) = output

TextWhole == IncludedOnce /\ PagesJoin
=============================================================================
