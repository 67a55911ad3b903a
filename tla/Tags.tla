-------------------------------- MODULE Tags --------------------------------
(***************************************************************************)
(* The tags of one person (EnrichmentService): those that the user adds,   *)
(* those that the AI generates and replaces, and those that the analysis   *)
(* of a photo merges in (PhotoTagMergeService, driven by the Photos        *)
(* module).  (person, tag) is unique in the database.                      *)
(***************************************************************************)
EXTENDS Naturals, FiniteSets

CONSTANTS
  Labels,     \* normalised texts of tags
  Generates,  \* calls of generateTags
  Adds,       \* calls of addManualTag
  NoLabel     \* no label

ASSUME TagsAssumption == NoLabel \notin Labels

VARIABLES
  tag,       \* tag[t]: "none", or where tag t is from
  generate,  \* generate[g]: where it is, what it has yet to store
  add,       \* add[a]: where it is, and the label
  debounce   \* debounce:tags:<person>

tagVars == <<tag, generate, add, debounce>>

-----------------------------------------------------------------------------
(* Types.                                                                  *)

\* ok: has no create of it failed so far?
Generate == [pc : {"new", "asked", "clear", "store", "done", "failed"},
             rest : SUBSET Labels, ok : BOOLEAN]

TagsTypeOK ==
  /\ tag \in [Labels -> {"none", "ai", "manual", "photo"}]
  /\ generate \in [Generates -> Generate]
  /\ add \in [Adds -> [pc : {"new", "create", "done"}, label : Labels \cup {NoLabel}]]
  /\ debounce \in BOOLEAN

TagsInit ==
  /\ tag = [t \in Labels |-> "none"]
  /\ generate = [g \in Generates |-> [pc |-> "new", rest |-> {}, ok |-> TRUE]]
  /\ add = [a \in Adds |-> [pc |-> "new", label |-> NoLabel]]
  /\ debounce = FALSE

-----------------------------------------------------------------------------
(* Generation.                                                             *)

Generating == {g \in Generates : generate[g].pc \in {"asked", "clear", "store"}}

\* The debounce is read long before it is set.
GenerateAsk(g) ==
  /\ generate[g].pc = "new" /\ ~debounce
  /\ generate' = [generate EXCEPT ![g].pc = "asked"]
  /\ UNCHANGED <<tag, add, debounce>>

\* The AI answers, or the call fails and leaves everything as it was.
GenerateAnswer(g) ==
  /\ generate[g].pc = "asked"
  /\ \/ \E answer \in SUBSET Labels :
          generate' = [generate EXCEPT ![g] = [@ EXCEPT !.pc = "clear", !.rest = answer]]
     \/ generate' = [generate EXCEPT ![g].pc = "failed"]
  /\ UNCHANGED <<tag, add, debounce>>

Has(t) == tag[t] # "none"

\* A plausible bug: every tag is replaced.
GenerateClearAll(g) ==
  /\ generate[g].pc = "clear"
  /\ generate' = [generate EXCEPT ![g].pc = "store"]
  /\ tag' = [t \in Labels |-> "none"]
  /\ UNCHANGED <<add, debounce>>

\* The tags of the last generation go, then the new ones are created.
GenerateClear(g) ==
  /\ generate[g].pc = "clear"
  /\ generate' = [generate EXCEPT ![g].pc = "store"]
  /\ tag' = [t \in Labels |-> IF tag[t] = "ai" THEN "none" ELSE tag[t]]
  /\ UNCHANGED <<add, debounce>>

\* The creates run side by side; one that finds its tag there fails the call,
\* which neither stops nor undoes the others.
GenerateCreate(g, t) ==
  /\ generate[g].pc = "store" /\ t \in generate[g].rest
  /\ generate' = [generate EXCEPT ![g].rest = @ \ {t}, ![g].ok = @ /\ ~Has(t)]
  /\ tag' = IF Has(t) THEN tag ELSE [tag EXCEPT ![t] = "ai"]
  /\ UNCHANGED <<add, debounce>>

GenerateDone(g) ==
  /\ generate[g].pc = "store" /\ generate[g].rest = {}
  /\ generate' = [generate EXCEPT ![g].pc = IF generate[g].ok THEN "done" ELSE "failed"]
  /\ debounce' = (debounce \/ generate[g].ok)
  /\ UNCHANGED <<tag, add>>

DebounceEnds ==
  /\ debounce
  /\ debounce' = FALSE
  /\ UNCHANGED <<tag, generate, add>>

-----------------------------------------------------------------------------
(* The user's tags.                                                        *)

AddCheck(a, t) ==
  /\ add[a].pc = "new" /\ ~Has(t)
  /\ add' = [add EXCEPT ![a] = [pc |-> "create", label |-> t]]
  /\ UNCHANGED <<tag, generate, debounce>>

\* The unique index refuses a tag that has come in between.
AddCreate(a) ==
  LET t == add[a].label IN
  /\ add[a].pc = "create"
  /\ add' = [add EXCEPT ![a] = [pc |-> "done", label |-> NoLabel]]
  /\ tag' = IF Has(t) THEN tag ELSE [tag EXCEPT ![t] = "manual"]
  /\ UNCHANGED <<generate, debounce>>

\* Any tag may be deleted.
DeleteTag(t) ==
  /\ Has(t)
  /\ tag' = [tag EXCEPT ![t] = "none"]
  /\ UNCHANGED <<generate, add, debounce>>

TagsNext ==
  \/ \E g \in Generates : \/ GenerateAsk(g) \/ GenerateAnswer(g) \/ GenerateClear(g)
                          \/ \E t \in Labels : GenerateCreate(g, t)
                          \/ GenerateDone(g)
  \/ DebounceEnds
  \/ \E a \in Adds : (\E t \in Labels : AddCheck(a, t)) \/ AddCreate(a)
  \/ \E t \in Labels : DeleteTag(t)

-----------------------------------------------------------------------------
(* Properties.                                                             *)

\* Neither a generation nor a photo takes away or takes over a tag that the
\* user added: only the user deletes it (deleteTag, enrichment.service.ts:347-354).
UserTagsStand ==
  [][\A t \in Labels : tag[t] = "manual" /\ tag'[t] # "manual" => DeleteTag(t)]_tag
=============================================================================
