------------------------------- MODULE Vault -------------------------------
(***************************************************************************)
(* Personal data at rest (crypto.ts, pii.middleware.ts and the one-time    *)
(* script encrypt-existing-pii.ts).  The database client of the API        *)
(* encrypts what it writes to the covered columns and decrypts what it     *)
(* reads.  Inside interactive transactions it once did neither, so that    *)
(* old rows hold plain text; the script, which goes past that client,      *)
(* encrypts those while the API keeps writing.                             *)
(***************************************************************************)
EXTENDS Naturals, Sequences

CONSTANTS
  Dossiers,    \* rows of Person
  Parcels,     \* rows of Order and AgentJob, which copy the name of a dossier
  Texts,       \* what a user enters
  Forms,       \* pages and calls that hold a dossier they have read
  ScriptRuns   \* bound on the runs of the script

\* The covered columns: one for the strings (an empty one is left alone), and
\* one for the lists, which stands for an element (encrypted even if empty).
Columns == {"name", "allergen"}
Empty == "empty"
Rows == Dossiers \cup Parcels

\* The models, in the order of the script.
Tables == <<Dossiers, Parcels>>

VARIABLES
  stored,      \* stored[r]: the cells of the row, <<>> while there is no row
  form,        \* form[f]: the cells as the client handed them out, <<>> if none
  script,      \* where the script is and what it has read
  scripts,     \* runs of the script so far
  backfilled   \* has a run with --apply come to its end?

vaultVars == <<stored, form, script, scripts, backfilled>>

Cell == [text : Texts \cup {Empty}, layers : 0 .. 2]
NoRow == <<>>
RowOrNone == [Columns -> Cell] \cup {NoRow}

VaultTypeOK ==
  /\ stored \in [Rows -> RowOrNone]
  /\ form \in [Forms -> RowOrNone]
  /\ script \in [pc : {"idle", "find", "patch"}, apply : BOOLEAN, table : 1 .. Len(Tables),
                 todo : SUBSET Rows, found : [Rows -> RowOrNone]]
  /\ scripts \in 0 .. ScriptRuns
  /\ backfilled \in BOOLEAN

-----------------------------------------------------------------------------
(* Encryption.                                                             *)

encrypt(cell) == [cell EXCEPT !.layers = @ + 1]
isEncrypted(cell) == cell.layers > 0
decrypt(cell) == IF isEncrypted(cell) THEN [cell EXCEPT !.layers = @ - 1] ELSE cell

Skipped(c, cell) == c = "name" /\ cell.text = Empty

\* What the client of the API stores of a column, and hands out of a row.
encryptData(c, cell) == IF Skipped(c, cell) THEN cell ELSE encrypt(cell)
decryptResult(row) == [c \in Columns |-> decrypt(row[c])]

\* A plausible bug: the script encrypts whatever it finds.
buildPatchAll(row) == [c \in Columns |-> encryptData(c, row[c])]

\* The script passes over what is encrypted already.
buildPatch(row) ==
  [c \in Columns |-> IF isEncrypted(row[c]) THEN row[c] ELSE encryptData(c, row[c])]

-----------------------------------------------------------------------------
Plain(text) == [text |-> text, layers |-> 0]
Entered == [Columns -> {Plain(text) : text \in Texts \cup {Empty}}]

\* A row of old is plain if a transaction wrote it, and each column that was
\* edited since is encrypted.
Legacy == {[c \in Columns |-> IF c \in edited THEN encryptData(c, row[c]) ELSE row[c]] :
             edited \in SUBSET Columns, row \in Entered}

VaultInit ==
  /\ stored \in [Rows -> {NoRow} \cup Legacy]
  /\ form = [f \in Forms |-> NoRow]
  /\ script = [pc |-> "idle", apply |-> FALSE, table |-> 1, todo |-> {}, found |-> [r \in Rows |-> NoRow]]
  /\ scripts = 0
  /\ backfilled = FALSE

-----------------------------------------------------------------------------
(* The API.                                                                *)

\* Rows are created inside a transaction (people, previews of the agent) or
\* outside (orders); the client is patched in both.
TxWrite(r, row) ==
  /\ stored' = [stored EXCEPT ![r] = [c \in Columns |-> encryptData(c, row[c])]]
  /\ UNCHANGED <<form, script, scripts, backfilled>>

CreateDossier(r) == stored[r] = NoRow /\ \E row \in Entered : TxWrite(r, row)

\* findFirst, on the way to a page or into a handler.
ReadDossier(f, r) ==
  /\ stored[r] # NoRow
  /\ form' = [form EXCEPT ![f] = decryptResult(stored[r])]
  /\ UNCHANGED <<stored, script, scripts, backfilled>>

\* update with the columns that the page sends, as read or as entered.
UpdateDossier(f, r) ==
  /\ form[f] # NoRow /\ stored[r] # NoRow
  /\ \E sent \in (SUBSET Columns) \ {{}}, entered \in Entered, typed \in SUBSET Columns :
       stored' = [stored EXCEPT ![r] =
         [c \in Columns |-> IF c \in sent THEN encryptData(c, IF c \in typed THEN entered[c] ELSE form[f][c])
                                          ELSE @[c]]]
  /\ form' = [form EXCEPT ![f] = NoRow]
  /\ UNCHANGED <<script, scripts, backfilled>>

\* An order, or a preview of the agent, copies what it has read of a dossier.
CopyDossier(f, r) ==
  /\ form[f] # NoRow /\ stored[r] = NoRow
  /\ TxWrite(r, form[f])

-----------------------------------------------------------------------------
(* The script.                                                             *)

ScriptStart(apply) ==
  /\ script.pc = "idle" /\ scripts < ScriptRuns
  /\ script' = [script EXCEPT !.pc = "find", !.apply = apply, !.table = 1]
  /\ scripts' = scripts + 1
  /\ UNCHANGED <<stored, form, backfilled>>

\* All rows of a model are read at once; those that need a patch are kept.
ScriptFind ==
  /\ script.pc = "find"
  /\ script' = [script EXCEPT !.pc = "patch",
                              !.found = [r \in Rows |-> IF r \in Tables[script.table] THEN stored[r] ELSE NoRow],
                              !.todo = {r \in Tables[script.table] : stored[r] # NoRow /\ buildPatch(stored[r]) # stored[r]}]
  /\ UNCHANGED <<stored, form, scripts, backfilled>>

\* The patch of a row is made of what was read; a dry run writes nothing.
ScriptPatch(r) ==
  /\ script.pc = "patch" /\ r \in script.todo
  /\ script' = [script EXCEPT !.todo = @ \ {r}]
  /\ LET found == script.found[r]
         patched == {c \in Columns : buildPatch(found)[c] # found[c]} IN
     stored' = IF script.apply
               THEN [stored EXCEPT ![r] = [c \in Columns |-> IF c \in patched THEN buildPatch(found)[c] ELSE @[c]]]
               ELSE stored
  /\ UNCHANGED <<form, scripts, backfilled>>

ScriptNextTable ==
  /\ script.pc = "patch" /\ script.todo = {} /\ script.table < Len(Tables)
  /\ script' = [script EXCEPT !.pc = "find", !.table = @ + 1]
  /\ UNCHANGED <<stored, form, scripts, backfilled>>

ScriptEnd ==
  /\ script.pc = "patch" /\ script.todo = {} /\ script.table = Len(Tables)
  /\ script' = [script EXCEPT !.pc = "idle", !.found = [r \in Rows |-> NoRow]]
  /\ backfilled' = (backfilled \/ script.apply)
  /\ UNCHANGED <<stored, form, scripts>>

\* The job is cut off, or a query fails; it may be run again.
ScriptDies ==
  /\ script.pc # "idle"
  /\ script' = [script EXCEPT !.pc = "idle", !.todo = {}, !.found = [r \in Rows |-> NoRow]]
  /\ UNCHANGED <<stored, form, scripts, backfilled>>

-----------------------------------------------------------------------------
ScriptNext ==
  \/ \E apply \in BOOLEAN : ScriptStart(apply)
  \/ ScriptFind \/ (\E r \in Rows : ScriptPatch(r)) \/ ScriptNextTable \/ ScriptEnd \/ ScriptDies

VaultNext ==
  \/ \E r \in Dossiers : CreateDossier(r) \/ \E f \in Forms : ReadDossier(f, r) \/ UpdateDossier(f, r)
  \/ \E f \in Forms, r \in Parcels : CopyDossier(f, r)
  \/ ScriptNext

VaultSpec == VaultInit /\ [][VaultNext]_vaultVars

-----------------------------------------------------------------------------
(* Property.                                                               *)

\* No text is ever wrapped twice - a second layer would come back to the user
\* as cipher text - and once a run with --apply has come to its end nothing
\* plain is left or comes back, whatever was written while it ran, and however
\* many runs were cut off before.
EncryptedOnce ==
  \A r \in Rows : stored[r] # NoRow =>
    \A c \in Columns :
      /\ stored[r][c].layers <= 1
      /\ backfilled => Skipped(c, stored[r][c]) \/ isEncrypted(stored[r][c])
=============================================================================
