----------------------------- MODULE VaultProofs ----------------------------
(***************************************************************************)
(* EncryptedOnce for any number of rows, pages and runs of the script,     *)
(* HistoryAsServed of GiftHistory, for any gifts and requests, and         *)
(* SurveyPagesAsServed of SurveyPages, for any responses, links, open      *)
(* forms and calls.                                                        *)
(*                                                                         *)
(* EncryptedOnce is not inductive: a page and the script write what they   *)
(* have read before.  IInv says that what a page holds is plain, that what *)
(* the script holds has one layer at most, and that a column which was     *)
(* sealed when the script read it still is; so the script may go by what   *)
(* it read.                                                                *)
(***************************************************************************)
EXTENDS Vault, GiftHistory, SurveyPages, TLAPS

-----------------------------------------------------------------------------
(* The invariant.                                                          *)

OneLayer(cells) == cells # NoRow => \A c \in Columns : cells[c] \in Cell /\ cells[c].layers \in {0, 1}
NoLayer(cells) == cells # NoRow => \A c \in Columns : cells[c] \in Cell /\ cells[c].layers = 0

Sealed(c, cell) == Skipped(c, cell) \/ isEncrypted(cell)
AllSealed(cells) == cells # NoRow => \A c \in Columns : Sealed(c, cells[c])

\* What was sealed in a row is so in what the row has become.
KeptSealed(old, new) ==
  old # NoRow => new # NoRow /\ \A c \in Columns : Sealed(c, old[c]) => Sealed(c, new[c])

StoredOnce == \A r \in Rows : OneLayer(stored[r])
FormsPlain == \A f \in Forms : NoLayer(form[f])
FoundOnce == \A r \in script.todo : script.found[r] # NoRow /\ OneLayer(script.found[r])
FoundStands == \A r \in script.todo : KeptSealed(script.found[r], stored[r])

\* The rows that a run with --apply has dealt with.
Dealt(r) ==
  \/ script.table = 2 /\ r \in Dossiers
  \/ script.pc = "patch" /\ r \in Tables[script.table] /\ r \notin script.todo
DealtSealed ==
  script.pc # "idle" /\ script.apply => \A r \in Rows : Dealt(r) => AllSealed(stored[r])

Shape ==
  /\ stored \in [Rows -> RowOrNone]
  /\ form \in [Forms -> RowOrNone]
  /\ script \in [pc : {"idle", "find", "patch"}, apply : BOOLEAN, table : {1, 2},
                 todo : SUBSET Rows, found : [Rows -> RowOrNone]]
  /\ backfilled \in BOOLEAN

IInv ==
  /\ Shape
  /\ StoredOnce /\ FormsPlain /\ FoundOnce /\ FoundStands /\ DealtSealed
  /\ backfilled => \A r \in Rows : AllSealed(stored[r])

-----------------------------------------------------------------------------
(* Encryption of a cell and of a row.                                      *)

LEMMA EncryptSeals ==
  ASSUME NEW c \in Columns, NEW cell \in Cell, cell.layers = 0
  PROVE  /\ encryptData(c, cell) \in Cell
         /\ encryptData(c, cell).layers \in {0, 1}
         /\ Sealed(c, encryptData(c, cell))
BY DEF Cell, encryptData, encrypt, Sealed, Skipped, isEncrypted

LEMMA DecryptOpens ==
  ASSUME NEW cell \in Cell, cell.layers \in {0, 1}
  PROVE  decrypt(cell) \in Cell /\ decrypt(cell).layers = 0
BY DEF Cell, decrypt, isEncrypted

\* buildPatch seals every column, leaves a sealed one alone, and adds one layer at most.
LEMMA PatchSeals ==
  ASSUME NEW cells, cells # NoRow, cells \in [Columns -> Cell], OneLayer(cells), NEW c \in Columns
  PROVE  /\ buildPatch(cells)[c] \in Cell
         /\ buildPatch(cells)[c].layers \in {0, 1}
         /\ Sealed(c, buildPatch(cells)[c])
         /\ buildPatch(cells)[c] = cells[c] => Sealed(c, cells[c])
<1>1. buildPatch(cells)[c] = IF isEncrypted(cells[c]) THEN cells[c] ELSE encryptData(c, cells[c])
  BY DEF buildPatch
<1>2. cells[c] \in Cell /\ cells[c].layers \in {0, 1}
  BY DEF OneLayer
<1>3. CASE isEncrypted(cells[c])
  BY <1>1, <1>2, <1>3 DEF Sealed
<1>4. CASE ~isEncrypted(cells[c])
  <2>1. cells[c].layers = 0
    BY <1>2, <1>4 DEF isEncrypted
  <2>2. QED
    BY <1>1, <1>2, <1>4, <2>1, EncryptSeals
<1>5. QED
  BY <1>3, <1>4

\* A row that the script passes over is sealed.
LEMMA PassedOver ==
  ASSUME NEW cells \in RowOrNone, OneLayer(cells), cells = NoRow \/ buildPatch(cells) = cells
  PROVE  AllSealed(cells)
<1>1. SUFFICES ASSUME cells # NoRow, NEW c \in Columns PROVE Sealed(c, cells[c])
  BY DEF AllSealed
<1>2. cells \in [Columns -> Cell] /\ buildPatch(cells) = cells
  BY <1>1 DEF RowOrNone
<1>3. QED
  BY <1>1, <1>2, PatchSeals

\* A row that the client writes, with every column encrypted.
LEMMA WrittenSealed ==
  ASSUME NEW cells, cells # NoRow, NoLayer(cells), NEW c \in Columns
  PROVE  /\ encryptData(c, cells[c]) \in Cell
         /\ encryptData(c, cells[c]).layers \in {0, 1}
         /\ Sealed(c, encryptData(c, cells[c]))
BY EncryptSeals DEF NoLayer

-----------------------------------------------------------------------------
(* Every step keeps the invariant.                                         *)

\* What holds at the start.
LEMMA Initially == VaultInit => IInv
<1> SUFFICES ASSUME VaultInit PROVE IInv
  OBVIOUS
<1>1. \A cells \in Legacy : cells \in [Columns -> Cell] /\ OneLayer(cells)
  <2>1. SUFFICES ASSUME NEW edited \in SUBSET Columns, NEW cells \in Entered
                 PROVE  LET old == [c \in Columns |-> IF c \in edited THEN encryptData(c, cells[c]) ELSE cells[c]]
                        IN  old \in [Columns -> Cell] /\ OneLayer(old)
    BY DEF Legacy
  <2>2. \A c \in Columns : cells[c] \in Cell /\ cells[c].layers = 0
    BY DEF Entered, Plain, Cell
  <2>3. \A c \in Columns : encryptData(c, cells[c]) \in Cell /\ encryptData(c, cells[c]).layers \in {0, 1}
    BY <2>2, EncryptSeals
  <2>4. QED
    BY <2>2, <2>3 DEF OneLayer
<1>2. stored \in [Rows -> RowOrNone] /\ StoredOnce
  BY <1>1 DEF VaultInit, RowOrNone, StoredOnce, OneLayer
<1>3. Shape
  BY <1>2 DEF VaultInit, Shape, RowOrNone
<1>4. FormsPlain /\ FoundOnce /\ FoundStands /\ DealtSealed /\ ~backfilled
  BY DEF VaultInit, FormsPlain, NoLayer, FoundOnce, FoundStands, DealtSealed
<1>5. QED
  BY <1>2, <1>3, <1>4 DEF IInv

\* The API writes one row: what it does not seal it leaves alone.
LEMMA ApiWrites ==
  ASSUME IInv, NEW r \in Rows, NEW cells \in [Columns -> Cell],
         stored' = [stored EXCEPT ![r] = cells], cells # NoRow, OneLayer(cells),
         stored[r] = NoRow => AllSealed(cells), KeptSealed(stored[r], cells),
         form' \in [Forms -> RowOrNone], \A f \in Forms : NoLayer(form'[f]),
         UNCHANGED <<script, backfilled>>
  PROVE  IInv'
<1>1. \A q \in Rows : stored'[q] = IF q = r THEN cells ELSE stored[q]
  BY DEF IInv, Shape
<1>2. Shape'
  BY DEF IInv, Shape, RowOrNone
<1>3. StoredOnce' /\ FormsPlain'
  BY <1>1 DEF IInv, StoredOnce, FormsPlain, OneLayer, NoLayer
<1>4. FoundOnce'
  BY DEF IInv, FoundOnce, OneLayer
<1>5. \A q \in Rows : KeptSealed(stored[q], stored'[q])
  BY <1>1 DEF KeptSealed
<1>6. \A q \in Rows : AllSealed(stored[q]) => AllSealed(stored'[q])
  BY <1>1 DEF AllSealed, KeptSealed
<1>7. FoundStands'
  BY <1>5 DEF IInv, Shape, FoundStands, KeptSealed
<1>8. DealtSealed'
  BY <1>6 DEF IInv, DealtSealed, Dealt
<1>9. (backfilled => \A q \in Rows : AllSealed(stored[q]))'
  BY <1>6 DEF IInv
<1>10. QED
  BY <1>2, <1>3, <1>4, <1>7, <1>8, <1>9 DEF IInv

\* A row of cells that the client encrypts.
LEMMA ClientEncrypts ==
  ASSUME NEW cells \in [Columns -> Cell], cells # NoRow, NoLayer(cells)
  PROVE  LET new == [c \in Columns |-> encryptData(c, cells[c])]
         IN  new \in [Columns -> Cell] /\ OneLayer(new) /\ AllSealed(new)
BY WrittenSealed DEF OneLayer, AllSealed

LEMMA NoRowIsNoRow ==
  ASSUME NEW cells \in [Columns -> Cell]
  PROVE  cells # NoRow
<1>1. "name" \in DOMAIN cells
  BY DEF Columns
<1>2. DOMAIN NoRow = {}
  BY DEF NoRow
<1>3. QED
  BY <1>1, <1>2

LEMMA TxWriteKeeps ==
  ASSUME IInv, NEW r \in Rows, NEW cells \in [Columns -> Cell], NoLayer(cells), stored[r] = NoRow,
         TxWrite(r, cells)
  PROVE  IInv'
<1> DEFINE new == [c \in Columns |-> encryptData(c, cells[c])]
<1>1. new \in [Columns -> Cell] /\ OneLayer(new) /\ AllSealed(new) /\ new # NoRow
  BY ClientEncrypts, NoRowIsNoRow
<1>2. KeptSealed(stored[r], new)
  BY DEF KeptSealed
<1>3. stored' = [stored EXCEPT ![r] = new] /\ UNCHANGED <<form, script, backfilled>>
  BY DEF TxWrite
<1>4. form' \in [Forms -> RowOrNone] /\ \A f \in Forms : NoLayer(form'[f])
  BY <1>3 DEF IInv, Shape, FormsPlain
<1> HIDE DEF new
<1>5. QED
  BY <1>1, <1>2, <1>3, <1>4, ApiWrites

LEMMA CreateKeeps ==
  ASSUME IInv, NEW r \in Dossiers, CreateDossier(r)
  PROVE  IInv'
<1>1. PICK cells \in Entered : TxWrite(r, cells)
  BY DEF CreateDossier
<1>2. cells \in [Columns -> Cell] /\ NoLayer(cells)
  BY DEF Entered, Plain, Cell, NoLayer
<1>3. QED
  BY <1>1, <1>2, TxWriteKeeps DEF CreateDossier, Rows

LEMMA CopyKeeps ==
  ASSUME IInv, NEW f \in Forms, NEW r \in Parcels, CopyDossier(f, r)
  PROVE  IInv'
<1>1. form[f] \in [Columns -> Cell] /\ NoLayer(form[f])
  BY DEF CopyDossier, IInv, Shape, RowOrNone, FormsPlain
<1>2. QED
  BY <1>1, TxWriteKeeps DEF CopyDossier, Rows

LEMMA ReadKeeps ==
  ASSUME IInv, NEW f \in Forms, NEW r \in Dossiers, ReadDossier(f, r)
  PROVE  IInv'
<1> DEFINE handed == decryptResult(stored[r])
<1>1. stored[r] \in [Columns -> Cell] /\ \A c \in Columns : stored[r][c].layers \in {0, 1}
  BY DEF IInv, Shape, StoredOnce, OneLayer, ReadDossier, Rows, RowOrNone
<1>2. \A c \in Columns : decrypt(stored[r][c]) \in Cell /\ decrypt(stored[r][c]).layers = 0
  BY <1>1, DecryptOpens
<1>3. handed \in [Columns -> Cell] /\ NoLayer(handed)
  BY <1>2 DEF decryptResult, NoLayer
<1>4. form' = [form EXCEPT ![f] = handed] /\ UNCHANGED <<stored, script, backfilled>>
  BY DEF ReadDossier
<1> HIDE DEF handed
<1>5. Shape' /\ FormsPlain'
  BY <1>3, <1>4 DEF IInv, Shape, FormsPlain, RowOrNone
<1>6. QED
  BY <1>4, <1>5 DEF IInv, StoredOnce, FoundOnce, FoundStands, DealtSealed, Dealt

LEMMA UpdateKeeps ==
  ASSUME IInv, NEW f \in Forms, NEW r \in Dossiers, UpdateDossier(f, r)
  PROVE  IInv'
<1>1. PICK sent \in (SUBSET Columns) \ {{}}, entered \in Entered, typed \in SUBSET Columns :
        stored' = [stored EXCEPT ![r] =
          [c \in Columns |-> IF c \in sent THEN encryptData(c, IF c \in typed THEN entered[c] ELSE form[f][c])
                                           ELSE stored[r][c]]]
  BY DEF UpdateDossier
<1> DEFINE cell(c) == IF c \in typed THEN entered[c] ELSE form[f][c]
           new == [c \in Columns |-> IF c \in sent THEN encryptData(c, cell(c)) ELSE stored[r][c]]
<1>2. r \in Rows /\ stored[r] # NoRow /\ form[f] # NoRow
  BY DEF Rows, UpdateDossier
<1>3. \A c \in Columns : cell(c) \in Cell /\ cell(c).layers = 0
  <2>1. \A c \in Columns : entered[c] \in Cell /\ entered[c].layers = 0
    BY DEF Entered, Plain, Cell
  <2>2. \A c \in Columns : form[f][c] \in Cell /\ form[f][c].layers = 0
    BY <1>2 DEF IInv, FormsPlain, NoLayer
  <2>3. QED
    BY <2>1, <2>2
<1>4. \A c \in Columns : /\ encryptData(c, cell(c)) \in Cell
                         /\ encryptData(c, cell(c)).layers \in {0, 1}
                         /\ Sealed(c, encryptData(c, cell(c)))
  <2> HIDE DEF cell
  <2>1. QED
    BY <1>3, EncryptSeals
<1>5. \A c \in Columns : stored[r][c] \in Cell /\ stored[r][c].layers \in {0, 1}
  BY <1>2 DEF IInv, StoredOnce, OneLayer
<1> HIDE DEF cell
<1>6. new \in [Columns -> Cell] /\ OneLayer(new)
  BY <1>4, <1>5 DEF OneLayer
<1>7. new # NoRow
  BY <1>6, NoRowIsNoRow
<1>8. KeptSealed(stored[r], new)
  BY <1>4, <1>7 DEF KeptSealed
<1>9. stored' = [stored EXCEPT ![r] = new]
  BY <1>1 DEF cell
<1>10. form' \in [Forms -> RowOrNone] /\ \A g \in Forms : NoLayer(form'[g])
  BY DEF UpdateDossier, IInv, Shape, FormsPlain, NoLayer, RowOrNone
<1>11. UNCHANGED <<script, backfilled>>
  BY DEF UpdateDossier
<1> HIDE DEF new
<1>12. QED
  BY <1>2, <1>6, <1>7, <1>8, <1>9, <1>10, <1>11, ApiWrites

LEMMA TwoTables ==
  /\ Len(Tables) = 2 /\ Tables[1] = Dossiers /\ Tables[2] = Parcels
  /\ \A t \in {1, 2} : Tables[t] \subseteq Rows
BY DEF Tables, Rows

LEMMA StartKeeps ==
  ASSUME IInv, NEW apply \in BOOLEAN, ScriptStart(apply)
  PROVE  IInv'
<1>1. script' = [script EXCEPT !.pc = "find", !.apply = apply, !.table = 1] /\ UNCHANGED <<stored, form, backfilled>>
  BY DEF ScriptStart
<1>2. Shape'
  BY <1>1 DEF IInv, Shape
<1>3. script'.todo = script.todo /\ script'.found = script.found /\ script'.table = 1 /\ script'.pc = "find"
  BY <1>1 DEF IInv, Shape
<1>4. FoundOnce' /\ FoundStands' /\ DealtSealed'
  BY <1>1, <1>3 DEF IInv, FoundOnce, FoundStands, DealtSealed, Dealt
<1>5. QED
  BY <1>1, <1>2, <1>4 DEF IInv, StoredOnce, FormsPlain

\* Whoever starts finds the rows of the tables before sealed.
LEMMA FindKeeps ==
  ASSUME IInv, ScriptFind
  PROVE  IInv'
<1> DEFINE table == Tables[script.table]
           found == [r \in Rows |-> IF r \in table THEN stored[r] ELSE NoRow]
           todo == {r \in table : stored[r] # NoRow /\ buildPatch(stored[r]) # stored[r]}
<1>1. script' = [script EXCEPT !.pc = "patch", !.found = found, !.todo = todo] /\ UNCHANGED <<stored, form, backfilled>>
  BY DEF ScriptFind
<1>2. table \subseteq Rows
  BY TwoTables DEF IInv, Shape
<1>3. found \in [Rows -> RowOrNone] /\ todo \in SUBSET Rows
  BY <1>2 DEF IInv, Shape, RowOrNone
<1> HIDE DEF found
<1>4. Shape' /\ script'.pc = "patch" /\ script'.found = found /\ script'.todo = todo
      /\ script'.table = script.table /\ script'.apply = script.apply
  <2> HIDE DEF todo
  <2>1. QED
    BY <1>1, <1>3 DEF IInv, Shape
<1>5. \A r \in todo : found[r] = stored[r] /\ stored[r] # NoRow
  BY <1>2 DEF found
<1>6. FoundOnce' /\ FoundStands'
  BY <1>1, <1>2, <1>4, <1>5 DEF IInv, FoundOnce, FoundStands, StoredOnce, KeptSealed
<1>7. \A r \in table : r \notin todo => AllSealed(stored[r])
  BY <1>2, PassedOver DEF IInv, Shape, StoredOnce
<1>8. DealtSealed'
  <2>1. SUFFICES ASSUME script.apply, NEW r \in Rows, Dealt(r)' PROVE AllSealed(stored[r])
    BY <1>1, <1>4 DEF DealtSealed
  <2>2. CASE script.table = 2 /\ r \in Dossiers
    BY <2>1, <2>2 DEF IInv, DealtSealed, Dealt, ScriptFind
  <2>3. CASE r \in table /\ r \notin todo
    BY <1>7, <2>3
  <2>4. QED
    BY <1>4, <2>1, <2>2, <2>3 DEF Dealt
<1>9. QED
  BY <1>1, <1>4, <1>6, <1>8 DEF IInv, StoredOnce, FormsPlain

LEMMA PatchKeeps ==
  ASSUME IInv, NEW r \in Rows, ScriptPatch(r)
  PROVE  IInv'
<1> DEFINE found == script.found[r]
           patched == {c \in Columns : buildPatch(found)[c] # found[c]}
           new == [c \in Columns |-> IF c \in patched THEN buildPatch(found)[c] ELSE stored[r][c]]
<1>1. /\ script.pc = "patch" /\ r \in script.todo
      /\ script' = [script EXCEPT !.todo = script.todo \ {r}]
      /\ stored' = IF script.apply THEN [stored EXCEPT ![r] = new] ELSE stored
      /\ UNCHANGED <<form, backfilled>>
  BY DEF ScriptPatch
<1>2. found \in [Columns -> Cell] /\ found # NoRow /\ OneLayer(found) /\ KeptSealed(found, stored[r])
  BY <1>1 DEF IInv, Shape, FoundOnce, FoundStands, RowOrNone
<1>3. stored[r] \in [Columns -> Cell] /\ stored[r] # NoRow /\ OneLayer(stored[r])
  BY <1>2 DEF IInv, Shape, StoredOnce, RowOrNone, KeptSealed
<1> HIDE DEF found
<1>4. \A c \in Columns : /\ buildPatch(found)[c] \in Cell
                         /\ buildPatch(found)[c].layers \in {0, 1}
                         /\ Sealed(c, buildPatch(found)[c])
                         /\ c \notin patched => Sealed(c, found[c])
  BY <1>2, PatchSeals
<1>5. new \in [Columns -> Cell] /\ OneLayer(new)
  <2> HIDE DEF patched
  <2>1. QED
    BY <1>3, <1>4 DEF OneLayer
<1>6. AllSealed(new)
  <2>1. \A c \in Columns : c \notin patched => Sealed(c, stored[r][c])
    BY <1>2, <1>4 DEF KeptSealed
  <2> HIDE DEF patched
  <2>2. QED
    BY <1>4, <2>1 DEF AllSealed
<1>7. new # NoRow
  BY <1>5, NoRowIsNoRow
<1>8. /\ script'.todo = script.todo \ {r} /\ script'.pc = script.pc /\ script'.apply = script.apply
      /\ script'.table = script.table /\ script'.found = script.found
  BY <1>1 DEF IInv, Shape
<1> HIDE DEF new
<1>9. Shape'
  BY <1>1, <1>5 DEF IInv, Shape, RowOrNone
<1>10. \A q \in Rows : stored'[q] = IF script.apply /\ q = r THEN new ELSE stored[q]
  BY <1>1 DEF IInv, Shape
<1>11. StoredOnce'
  BY <1>5, <1>10 DEF IInv, StoredOnce
<1>12. FoundOnce' /\ FoundStands'
  BY <1>1, <1>8, <1>10 DEF IInv, Shape, FoundOnce, FoundStands
<1>13. DealtSealed'
  <2>1. SUFFICES ASSUME script.apply, NEW q \in Rows, Dealt(q)' PROVE AllSealed(stored'[q])
    BY <1>8 DEF DealtSealed
  <2>2. CASE q = r
    BY <1>6, <1>10, <2>1, <2>2
  <2>3. CASE q # r
    <3>1. Dealt(q)
      BY <1>8, <2>1, <2>3 DEF Dealt
    <3>2. QED
      BY <1>1, <1>10, <2>1, <2>3, <3>1 DEF IInv, DealtSealed
  <2>4. QED
    BY <2>2, <2>3
<1>14. (backfilled => \A q \in Rows : AllSealed(stored[q]))'
  BY <1>1, <1>6, <1>10 DEF IInv
<1>15. FormsPlain'
  BY <1>1 DEF IInv, FormsPlain
<1>16. QED
  BY <1>9, <1>11, <1>12, <1>13, <1>14, <1>15 DEF IInv

LEMMA NextTableKeeps ==
  ASSUME IInv, ScriptNextTable
  PROVE  IInv'
<1>1. /\ script.pc = "patch" /\ script.todo = {} /\ script.table = 1
      /\ script' = [script EXCEPT !.pc = "find", !.table = 2] /\ UNCHANGED <<stored, form, backfilled>>
  <2>1. script.table = 1
    BY TwoTables DEF ScriptNextTable, IInv, Shape
  <2>2. script' = [script EXCEPT !.pc = "find", !.table = script.table + 1]
    BY DEF ScriptNextTable
  <2>3. script.table + 1 = 2
    BY <2>1
  <2>4. QED
    BY <2>1, <2>2, <2>3 DEF ScriptNextTable
<1>2. /\ script'.pc = "find" /\ script'.table = 2 /\ script'.todo = {} /\ script'.apply = script.apply
      /\ Shape'
  BY <1>1 DEF IInv, Shape
<1>3. DealtSealed'
  BY <1>1, <1>2, TwoTables DEF IInv, DealtSealed, Dealt
<1>4. QED
  BY <1>1, <1>2, <1>3 DEF IInv, StoredOnce, FormsPlain, FoundOnce, FoundStands

LEMMA EndKeeps ==
  ASSUME IInv, ScriptEnd
  PROVE  IInv'
<1>1. /\ script.pc = "patch" /\ script.todo = {} /\ script.table = 2
      /\ script' = [script EXCEPT !.pc = "idle", !.found = [r \in Rows |-> NoRow]]
      /\ backfilled' = (backfilled \/ script.apply) /\ UNCHANGED <<stored, form>>
  BY TwoTables DEF ScriptEnd
<1>2. script'.pc = "idle" /\ script'.todo = {} /\ Shape'
  BY <1>1 DEF IInv, Shape, RowOrNone
<1>3. script.apply => \A r \in Rows : AllSealed(stored[r])
  BY <1>1, TwoTables DEF IInv, DealtSealed, Dealt, Rows
<1>4. QED
  BY <1>1, <1>2, <1>3 DEF IInv, StoredOnce, FormsPlain, FoundOnce, FoundStands, DealtSealed

LEMMA DiesKeeps ==
  ASSUME IInv, ScriptDies
  PROVE  IInv'
<1>1. /\ script' = [script EXCEPT !.pc = "idle", !.todo = {}, !.found = [r \in Rows |-> NoRow]]
      /\ UNCHANGED <<stored, form, backfilled>>
  BY DEF ScriptDies
<1>2. script'.pc = "idle" /\ script'.todo = {} /\ Shape'
  BY <1>1 DEF IInv, Shape, RowOrNone
<1>3. QED
  BY <1>1, <1>2 DEF IInv, StoredOnce, FormsPlain, FoundOnce, FoundStands, DealtSealed

LEMMA Stepwise == IInv /\ [VaultNext]_vaultVars => IInv'
<1> SUFFICES ASSUME IInv, [VaultNext]_vaultVars PROVE IInv'
  OBVIOUS
<1>1. CASE UNCHANGED vaultVars
  BY <1>1 DEF vaultVars, IInv, Shape, StoredOnce, FormsPlain, FoundOnce, FoundStands, DealtSealed, Dealt
<1>2. CASE \E r \in Dossiers : CreateDossier(r) \/ \E f \in Forms : ReadDossier(f, r) \/ UpdateDossier(f, r)
  BY <1>2, CreateKeeps, ReadKeeps, UpdateKeeps
<1>3. CASE \E f \in Forms, r \in Parcels : CopyDossier(f, r)
  BY <1>3, CopyKeeps
<1>4. CASE ScriptNext
  BY <1>4, StartKeeps, FindKeeps, PatchKeeps, NextTableKeeps, EndKeeps, DiesKeeps DEF ScriptNext
<1>5. QED
  BY <1>1, <1>2, <1>3, <1>4 DEF VaultNext

-----------------------------------------------------------------------------
(* The theorem.                                                            *)

\* Whatever the API writes while the script runs, is cut off and runs again, no
\* text gets a second layer, and after a run with --apply nothing stays plain
\* (encryptData, decryptResult, pii.middleware.ts:38-92; buildPatch and main,
\* scripts/encrypt-existing-pii.ts:43-117).
THEOREM TextsAreEncryptedOnce == VaultSpec => []EncryptedOnce
<1>1. IInv => EncryptedOnce
  <2>1. SUFFICES ASSUME IInv, NEW r \in Rows, stored[r] # NoRow, NEW c \in Columns
                 PROVE  /\ stored[r][c].layers <= 1
                        /\ backfilled => Skipped(c, stored[r][c]) \/ isEncrypted(stored[r][c])
    BY DEF EncryptedOnce
  <2>2. stored[r][c].layers \in {0, 1}
    BY <2>1 DEF IInv, StoredOnce, OneLayer
  <2>3. backfilled => Sealed(c, stored[r][c])
    BY <2>1 DEF IInv, AllSealed
  <2>4. QED
    BY <2>2, <2>3 DEF Sealed
<1>2. QED
  BY Initially, Stepwise, <1>1, PTL DEF VaultSpec

-----------------------------------------------------------------------------
(* GiftHistory.                                                            *)

-----------------------------------------------------------------------------
(* The gift history shows what the API has.                                *)

Years == {AllYears} \cup {YearOf[g] : g \in Gifts}
Request == [kind : Kinds \cup {"list"}, gift : Gifts \cup {NoGift}, stars : Ratings, dialog : BOOLEAN,
            year : Years, pc : {"idle", "sent", "served", "refused"},
            answer : [gifts : SUBSET Gifts, stars : [Gifts -> Ratings]]]
Dialog == [gift : Gifts \cup {NoGift}, open : BOOLEAN, busy : BOOLEAN]
Section == [shown : SUBSET Gifts, stars : [Gifts -> Ratings], filter : Years, loading : BOOLEAN]

HistoryShape ==
  /\ row \in [Gifts -> {"none", "there", "gone"}] /\ stars \in [Gifts -> Ratings]
  /\ list \in Section /\ dialogs \in [Kinds -> Dialog] /\ asked \in [Lines -> Request]
  /\ lists \in Nat /\ mixed \in BOOLEAN
  /\ dialogs["add"].gift = NoGift
  /\ \A n \in Open : /\ asked[n].kind # "list" => asked[n].gift \in Gifts
                     /\ asked[n].pc = "refused" => asked[n].kind \in {"rate", "delete"}

\* What waits, waits for a request that is under way.
WaitsAreAnswered ==
  /\ list.loading => lists = 0 \/ \E n \in Open : asked[n].kind = "list"
  /\ \A k \in Kinds : dialogs[k].busy =>
       \E n \in Open : asked[n].kind = k /\ asked[n].dialog /\ (k = "add" \/ asked[n].gift = dialogs[k].gift)

\* One gift is logged at a time, and what is deleted stays so.
RowsGoOn ==
  /\ \A n \in Open : asked[n].kind = "add" =>
       /\ dialogs["add"].busy
       /\ asked[n].pc = "sent" => row[asked[n].gift] = "none"
       /\ \A m \in Open : asked[m].kind = "add" => m = n
  /\ \A n \in Open : asked[n].kind = "delete" /\ asked[n].pc = "served" => row[asked[n].gift] = "gone"

\* A gift is rated once at a time.
RatingsStand ==
  ~mixed => \A n \in Open : asked[n].kind = "rate" =>
    /\ asked[n].pc = "served" => stars[asked[n].gift] = asked[n].stars
    /\ \A m \in Open : asked[m].kind = "rate" /\ asked[m].gift = asked[n].gift => m = n

\* A load runs next to bans only.
LoadsAreFresh ==
  ~mixed => \A n \in Open : asked[n].kind = "list" =>
    /\ asked[n].year = list.filter
    /\ asked[n].pc = "served" => asked[n].answer = [gifts |-> Matching(list.filter), stars |-> stars]
    /\ \A m \in Open : asked[m].kind = "ban" \/ m = n

Served(kind, g) == \E n \in Open : asked[n].kind = kind /\ asked[n].gift = g /\ asked[n].pc = "served"

\* The section differs from the API by the answers that are on their way.
ShowsButAnswers ==
  ~mixed /\ lists > 0 /\ (\A n \in Open : asked[n].kind # "list") => \A g \in Gifts :
    /\ g \in list.shown => g \in Matching(list.filter) \/ Served("delete", g)
    /\ g \in Matching(list.filter) => g \in list.shown \/ Served("add", g)
    /\ g \in list.shown => list.stars[g] = stars[g] \/ Served("rate", g)

HistoryInv ==
  HistoryShape /\ WaitsAreAnswered /\ RowsGoOn /\ RatingsStand /\ LoadsAreFresh /\ ShowsButAnswers

\* One line is all that changes in the requests under way.
Becomes(n, q) ==
  /\ n \in Lines /\ q \in Request
  /\ asked' \in [Lines -> Request] /\ asked'[n] = q
  /\ \A m \in Lines \ {n} : asked'[m] = asked[m]
  /\ Open' = IF q.pc = "idle" THEN Open \ {n} ELSE Open \cup {n}

LEMMA OneLine ==
  ASSUME HistoryShape, NEW n \in Lines, NEW q \in Request, asked' = [asked EXCEPT ![n] = q]
  PROVE  Becomes(n, q)
<1>1. asked \in [Lines -> Request]
  BY DEF HistoryShape
<1>2. /\ asked' \in [Lines -> Request] /\ asked'[n] = q
      /\ \A m \in Lines \ {n} : asked'[m] = asked[m]
  BY <1>1
<1>3. Open' = IF q.pc = "idle" THEN Open \ {n} ELSE Open \cup {n}
  BY <1>2 DEF Open
<1> QED
  BY <1>2, <1>3 DEF Becomes

LEMMA NoAskIsARequest == NoAsk \in Request /\ NoAsk.pc = "idle"
  BY DEF NoAsk, NoAnswer, Request, Years, Kinds, Ratings

LEMMA FreeLine == Open # Lines => Line \in Lines /\ Line \notin Open
<1> SUFFICES ASSUME Open # Lines PROVE Line \in Lines /\ Line \notin Open
  OBVIOUS
<1>1. \E n \in Lines : n \notin Open
  BY DEF Open
<1> QED
  BY <1>1 DEF Line

\* A request that starts, ends or is loaded anew.
LEMMA AskStarts ==
  ASSUME HistoryShape, NEW kind \in Kinds, NEW gift \in Gifts, NEW rating \in Ratings, NEW inDialog \in BOOLEAN,
         Ask(kind, gift, rating, inDialog)
  PROVE  \E n \in Lines \ Open, q \in Request :
           /\ Becomes(n, q)
           /\ q.kind = kind /\ q.gift = gift /\ q.stars = rating /\ q.dialog = inDialog /\ q.pc = "sent"
           /\ mixed' = (mixed \/ Collides(kind, gift))
<1>1. PICK n : n = Line
  OBVIOUS
<1>2. n \in Lines \ Open
  BY <1>1, FreeLine DEF Ask
<1>3. PICK q : q = [NoAsk EXCEPT !.kind = kind, !.gift = gift, !.stars = rating, !.dialog = inDialog,
                                 !.year = list.filter, !.pc = "sent"]
  OBVIOUS
<1>4. list.filter \in Years
  BY DEF HistoryShape, Section
<1>5. /\ q \in Request
      /\ q.kind = kind /\ q.gift = gift /\ q.stars = rating /\ q.dialog = inDialog /\ q.pc = "sent"
  BY <1>3, <1>4, NoAskIsARequest DEF Request
<1>6. asked' = [asked EXCEPT ![n] = q] /\ mixed' = (mixed \/ Collides(kind, gift))
  BY <1>1, <1>3 DEF Ask
<1>7. Becomes(n, q)
  BY <1>2, <1>5, <1>6, OneLine
<1> QED
  BY <1>2, <1>5, <1>6, <1>7

\* A load, on a free line or on the line n of an add.
LEMMA LoadIsARequest ==
  ASSUME HistoryShape, NEW year \in Years
  PROVE  LET q == [NoAsk EXCEPT !.year = year, !.pc = "sent"] IN
         q \in Request /\ q.kind = "list" /\ q.year = year /\ q.pc = "sent"
<1>1. PICK q : q = [NoAsk EXCEPT !.year = year, !.pc = "sent"]
  OBVIOUS
<1>2. NoAsk.kind = "list"
  BY DEF NoAsk
<1>3. q \in Request /\ q.kind = "list" /\ q.year = year /\ q.pc = "sent"
  BY <1>1, <1>2, NoAskIsARequest DEF Request
<1> QED
  BY <1>1, <1>3

LEMMA AskEnds ==
  ASSUME HistoryShape, NEW n \in Lines, Done(n)
  PROVE  Becomes(n, NoAsk)
  BY NoAskIsARequest, OneLine DEF Done

-----------------------------------------------------------------------------
(* The section asks.                                                       *)

LEMMA HistoryAsks ==
  ASSUME HistoryInv, NEW kind \in Kinds, NEW gift \in Gifts, NEW rating \in Ratings, NEW inDialog \in BOOLEAN,
         Ask(kind, gift, rating, inDialog), UNCHANGED <<historyRows, list, lists>>,
         \/ UNCHANGED dialogs /\ kind # "add"
         \/ /\ inDialog /\ ~dialogs[kind].busy /\ dialogs' = [dialogs EXCEPT ![kind].busy = TRUE]
            /\ kind = "add" => row[gift] = "none"
            /\ kind # "add" => gift = dialogs[kind].gift
  PROVE  HistoryInv'
<1>1. PICK n \in Lines \ Open, q \in Request :
        /\ Becomes(n, q)
        /\ q.kind = kind /\ q.gift = gift /\ q.stars = rating /\ q.dialog = inDialog /\ q.pc = "sent"
        /\ mixed' = (mixed \/ Collides(kind, gift))
  BY AskStarts DEF HistoryInv
<1>2. /\ asked' \in [Lines -> Request] /\ asked'[n] = q /\ Open' = Open \cup {n}
      /\ \A m \in Open : asked'[m] = asked[m] /\ m # n
  BY <1>1 DEF Becomes, Open
<1>3. UNCHANGED <<row, stars, list, lists>>
  BY DEF historyRows
<1>4. Open \subseteq Lines /\ kind # "list"
  BY DEF Open, Kinds
<1>5. /\ dialogs \in [Kinds -> Dialog] /\ "add" \in Kinds
      /\ dialogs' \in [Kinds -> Dialog] /\ dialogs'["add"].gift = NoGift
      /\ \A k \in Kinds : dialogs'[k].gift = dialogs[k].gift /\ (dialogs[k].busy => dialogs'[k].busy)
      /\ \A k \in Kinds \ {kind} : dialogs'[k] = dialogs[k]
      /\ kind = "add" => ~dialogs["add"].busy /\ dialogs'["add"].busy
      /\ dialogs' = dialogs \/ (inDialog /\ (kind = "add" \/ gift = dialogs[kind].gift))
  <2>1. "add" \in Kinds /\ dialogs \in [Kinds -> Dialog] /\ dialogs["add"].gift = NoGift
    BY DEF HistoryInv, HistoryShape, Kinds
  <2>2. CASE UNCHANGED dialogs /\ kind # "add"
    BY <2>1, <2>2
  <2>3. CASE /\ inDialog /\ ~dialogs[kind].busy /\ dialogs' = [dialogs EXCEPT ![kind].busy = TRUE]
             /\ kind # "add" => gift = dialogs[kind].gift
    <3>1. PICK d : d = [dialogs[kind] EXCEPT !.busy = TRUE]
      OBVIOUS
    <3>2. d \in Dialog /\ d.gift = dialogs[kind].gift /\ d.busy
      BY <2>1, <3>1 DEF Dialog
    <3>3. dialogs' = [dialogs EXCEPT ![kind] = d]
      BY <2>3, <3>1
    <3> QED
      BY <2>1, <2>3, <3>2, <3>3
  <2> QED
    BY <2>2, <2>3
<1>6. HistoryShape'
  BY <1>1, <1>2, <1>3, <1>5 DEF HistoryInv, HistoryShape
<1>7. WaitsAreAnswered'
  <2>1. list.loading => lists = 0 \/ \E m \in Open' : asked'[m].kind = "list"
    BY <1>2 DEF HistoryInv, WaitsAreAnswered
  <2>2. ASSUME NEW k \in Kinds, dialogs'[k].busy
        PROVE  \E m \in Open' : asked'[m].kind = k /\ asked'[m].dialog /\ (k = "add" \/ asked'[m].gift = dialogs'[k].gift)
    <3>1. CASE dialogs[k].busy
      <4>1. PICK m \in Open : asked[m].kind = k /\ asked[m].dialog /\ (k = "add" \/ asked[m].gift = dialogs[k].gift)
        BY <3>1 DEF HistoryInv, WaitsAreAnswered
      <4> QED
        BY <1>2, <1>5, <4>1
    <3>2. CASE ~dialogs[k].busy
      <4>1. k = kind /\ inDialog /\ (kind = "add" \/ gift = dialogs[kind].gift)
        BY <1>5, <2>2, <3>2
      <4> QED
        BY <1>1, <1>2, <1>5, <4>1
    <3> QED
      BY <3>1, <3>2
  <2> QED
    BY <1>3, <2>1, <2>2 DEF WaitsAreAnswered
<1>8. RowsGoOn'
  <2>1. kind = "add" => row[gift] = "none" /\ \A m \in Open : asked[m].kind # "add"
    BY <1>5 DEF HistoryInv, RowsGoOn
  <2> QED
    BY <1>1, <1>2, <1>3, <1>5, <2>1 DEF HistoryInv, RowsGoOn
<1>9. RatingsStand'
  <2> SUFFICES ASSUME ~mixed' PROVE \A l \in Open' : asked'[l].kind = "rate" =>
                 /\ asked'[l].pc = "served" => stars[asked'[l].gift] = asked'[l].stars
                 /\ \A m \in Open' : asked'[m].kind = "rate" /\ asked'[m].gift = asked'[l].gift => m = l
    BY <1>3 DEF RatingsStand
  <2>1. kind = "rate" => \A m \in Open : ~(asked[m].kind = "rate" /\ asked[m].gift = gift)
    BY <1>1 DEF Collides
  <2>2. \A l \in Open : asked[l].kind = "rate" =>
          /\ asked[l].pc = "served" => stars[asked[l].gift] = asked[l].stars
          /\ \A m \in Open : asked[m].kind = "rate" /\ asked[m].gift = asked[l].gift => m = l
    BY <1>1 DEF HistoryInv, RatingsStand
  <2>3. ASSUME NEW l \in Open', asked'[l].kind = "rate"
        PROVE  asked'[l].pc = "served" => stars[asked'[l].gift] = asked'[l].stars
    BY <1>1, <1>2, <2>2, <2>3
  <2>4. ASSUME NEW l \in Open', NEW m \in Open', asked'[l].kind = "rate", asked'[m].kind = "rate",
               asked'[m].gift = asked'[l].gift
        PROVE  m = l
    <3>1. CASE l = n \/ m = n
      BY <1>1, <1>2, <2>1, <2>4, <3>1
    <3>2. CASE l \in Open /\ m \in Open
      BY <1>2, <2>2, <2>4, <3>2
    <3> QED
      BY <1>2, <3>1, <3>2
  <2> QED
    BY <2>3, <2>4
<1>10. ~mixed' /\ kind # "ban" => \A m \in Open : asked[m].kind # "list"
  BY <1>1 DEF Collides
<1>11. LoadsAreFresh'
  <2>1. Matching(list.filter)' = Matching(list.filter)
    BY <1>3 DEF Matching
  <2> QED
    BY <1>1, <1>2, <1>3, <1>4, <1>10, <2>1 DEF HistoryInv, LoadsAreFresh
<1>12. ShowsButAnswers'
  <2> SUFFICES ASSUME ~mixed', lists > 0, \A m \in Open' : asked'[m].kind # "list", NEW g \in Gifts
               PROVE  /\ g \in list.shown => g \in Matching(list.filter) \/ Served("delete", g)'
                      /\ g \in Matching(list.filter) => g \in list.shown \/ Served("add", g)'
                      /\ g \in list.shown => list.stars[g] = stars[g] \/ Served("rate", g)'
    BY <1>3 DEF ShowsButAnswers, Matching
  <2>1. ~mixed /\ \A m \in Open : asked[m].kind # "list"
    BY <1>1, <1>2
  <2>2. ASSUME NEW k \in Kinds, Served(k, g) PROVE Served(k, g)'
    BY <1>2, <2>2 DEF Served
  <2> QED
    BY <2>1, <2>2 DEF HistoryInv, ShowsButAnswers, Kinds
<1> QED
  BY <1>6, <1>7, <1>8, <1>9, <1>11, <1>12 DEF HistoryInv

\* A load that runs next to bans only is the one load there is.
LEMMA HistoryLoads ==
  ASSUME HistoryInv, NEW year \in Years, LoadGifts(year), UNCHANGED <<historyRows, dialogs>>
  PROVE  HistoryInv'
<1>1. PICK n : n = Line
  OBVIOUS
<1>2. n \in Lines \ Open
  BY <1>1, FreeLine DEF LoadGifts
<1>3. PICK q : q = [NoAsk EXCEPT !.year = year, !.pc = "sent"]
  OBVIOUS
<1>4. q \in Request /\ q.kind = "list" /\ q.year = year /\ q.pc = "sent"
  BY <1>3, LoadIsARequest DEF HistoryInv
<1>5. asked' = [asked EXCEPT ![n] = q] /\ mixed' = (mixed \/ Collides("list", NoGift)) /\ lists' = lists + 1
  BY <1>1, <1>3 DEF LoadGifts
<1>6. Becomes(n, q)
  BY <1>2, <1>4, <1>5, OneLine DEF HistoryInv
<1>7. /\ asked' \in [Lines -> Request] /\ asked'[n] = q /\ Open' = Open \cup {n} /\ Open \subseteq Lines
      /\ \A m \in Open : asked'[m] = asked[m] /\ m # n
  BY <1>2, <1>4, <1>6 DEF Becomes, Open
<1>8. UNCHANGED <<row, stars, dialogs>>
  BY DEF historyRows
<1>9. list' \in Section /\ list'.filter = year /\ list'.shown = list.shown /\ list'.stars = list.stars
  <2>1. PICK s : s = [list EXCEPT !.filter = year, !.loading = TRUE]
    OBVIOUS
  <2>2. list \in Section
    BY DEF HistoryInv, HistoryShape
  <2>3. s \in Section /\ s.filter = year /\ s.shown = list.shown /\ s.stars = list.stars
    BY <2>1, <2>2 DEF Section
  <2>4. list' = s
    BY <2>1 DEF LoadGifts
  <2> QED
    BY <2>3, <2>4
<1>10. HistoryShape'
  BY <1>4, <1>5, <1>7, <1>8, <1>9 DEF HistoryInv, HistoryShape
<1>11. WaitsAreAnswered'
  BY <1>4, <1>7, <1>8 DEF HistoryInv, WaitsAreAnswered
<1>12. RowsGoOn'
  BY <1>4, <1>7, <1>8 DEF HistoryInv, RowsGoOn
<1>13. ~mixed' => \A m \in Open : asked[m].kind = "ban"
  BY <1>5 DEF Collides
<1>14. RatingsStand'
  BY <1>4, <1>7, <1>13 DEF RatingsStand
<1>15. LoadsAreFresh'
  BY <1>4, <1>7, <1>9, <1>13 DEF LoadsAreFresh
<1>16. ShowsButAnswers'
  BY <1>4, <1>7 DEF ShowsButAnswers
<1> QED
  BY <1>10, <1>11, <1>12, <1>14, <1>15, <1>16 DEF HistoryInv

\* Dialogs that are opened or left.
LEMMA HistoryTurns ==
  ASSUME HistoryInv, UNCHANGED <<historyRows, list, asked, lists, mixed>>, dialogs' \in [Kinds -> Dialog],
         dialogs'["add"].gift = NoGift, dialogs'["add"].busy = dialogs["add"].busy,
         \A k \in Kinds : dialogs'[k].busy => dialogs'[k].gift = dialogs[k].gift /\ dialogs[k].busy
  PROVE  HistoryInv'
<1>1. UNCHANGED <<row, stars, Open>> /\ Matching(list.filter)' = Matching(list.filter)
  BY DEF historyRows, Open, Matching
<1>2. HistoryShape' /\ WaitsAreAnswered'
  BY <1>1 DEF HistoryInv, HistoryShape, WaitsAreAnswered
<1>3. RowsGoOn' /\ RatingsStand' /\ LoadsAreFresh'
  BY <1>1 DEF HistoryInv, RowsGoOn, RatingsStand, LoadsAreFresh
<1>4. ShowsButAnswers'
  BY <1>1 DEF HistoryInv, ShowsButAnswers, Served
<1> QED
  BY <1>2, <1>3, <1>4 DEF HistoryInv

LEMMA DialogTurns ==
  ASSUME HistoryInv,
         \/ OpenAdd \/ \E k \in Kinds : LeaveDialog(k)
         \/ \E k \in Kinds, g \in Gifts : OpenOnRow(k, g)
  PROVE  HistoryInv'
<1>1. /\ "add" \in Kinds /\ dialogs \in [Kinds -> Dialog] /\ dialogs["add"].gift = NoGift
      /\ Shut \in Dialog /\ ~Shut.busy
  BY DEF HistoryInv, HistoryShape, Kinds, Shut, Dialog
<1>2. ASSUME NEW k \in Kinds, NEW d \in Dialog, UNCHANGED <<historyRows, list, asked, lists, mixed>>,
             dialogs' = [dialogs EXCEPT ![k] = d],
             d.busy => d.gift = dialogs[k].gift /\ dialogs[k].busy,
             k = "add" => d.gift = NoGift /\ d.busy = dialogs["add"].busy
      PROVE  HistoryInv'
  <2>1. /\ dialogs' \in [Kinds -> Dialog] /\ dialogs'["add"].gift = NoGift
        /\ dialogs'["add"].busy = dialogs["add"].busy
        /\ \A m \in Kinds : dialogs'[m].busy => dialogs'[m].gift = dialogs[m].gift /\ dialogs[m].busy
    BY <1>1, <1>2
  <2> QED
    BY <1>2, <2>1, HistoryTurns
<1>3. CASE OpenAdd
  <2>1. PICK d : d = [dialogs["add"] EXCEPT !.open = TRUE]
    OBVIOUS
  <2>2. d \in Dialog /\ d.gift = NoGift /\ d.busy = dialogs["add"].busy
    BY <1>1, <2>1 DEF Dialog
  <2>3. dialogs' = [dialogs EXCEPT !["add"] = d] /\ UNCHANGED <<historyRows, list, asked, lists, mixed>>
    BY <1>3, <2>1 DEF OpenAdd
  <2> QED
    BY <1>1, <1>2, <2>2, <2>3
<1>4. ASSUME NEW k \in Kinds, LeaveDialog(k) PROVE HistoryInv'
  <2>1. PICK d : d = IF k = "add" THEN [dialogs[k] EXCEPT !.open = FALSE] ELSE Shut
    OBVIOUS
  <2>2. /\ d \in Dialog
        /\ d.busy => d.gift = dialogs[k].gift /\ dialogs[k].busy
        /\ k = "add" => d.gift = NoGift /\ d.busy = dialogs["add"].busy
    BY <1>1, <2>1 DEF Dialog
  <2>3. dialogs' = [dialogs EXCEPT ![k] = d] /\ UNCHANGED <<historyRows, list, asked, lists, mixed>>
    BY <1>4, <2>1 DEF LeaveDialog
  <2> QED
    BY <1>2, <2>2, <2>3
<1>5. ASSUME NEW k \in Kinds, NEW g \in Gifts, OpenOnRow(k, g) PROVE HistoryInv'
  <2>1. PICK d : d = [gift |-> g, open |-> TRUE, busy |-> FALSE]
    OBVIOUS
  <2>2. d \in Dialog /\ ~d.busy /\ k # "add"
    BY <1>5, <2>1 DEF Dialog, OpenOnRow
  <2>3. dialogs' = [dialogs EXCEPT ![k] = d] /\ UNCHANGED <<historyRows, list, asked, lists, mixed>>
    BY <1>5, <2>1 DEF OpenOnRow
  <2> QED
    BY <1>2, <2>2, <2>3
<1> QED
  BY <1>3, <1>4, <1>5

-----------------------------------------------------------------------------
(* The API serves.                                                         *)

\* The line n is answered or refused; the rows change for its gift alone.
LEMMA HistoryServes ==
  ASSUME HistoryInv, NEW n \in Lines, ServeAsk(n)
  PROVE  HistoryInv'
<1>1. PICK g : g = asked[n].gift
  OBVIOUS
<1>2. PICK k : k = asked[n].kind
  OBVIOUS
<1>3. /\ n \in Open /\ asked[n].pc = "sent" /\ UNCHANGED <<list, dialogs, lists, mixed>>
      /\ asked[n] \in Request /\ asked \in [Lines -> Request]
  BY DEF ServeAsk, Open, HistoryInv, HistoryShape
<1>4. k \in Kinds \cup {"list"} /\ (k # "list" => g \in Gifts)
  BY <1>1, <1>2, <1>3 DEF HistoryInv, HistoryShape, Request
<1>5. /\ row' \in [Gifts -> {"none", "there", "gone"}] /\ stars' \in [Gifts -> Ratings]
      /\ \/ row' = row
         \/ k = "add" /\ row' = [row EXCEPT ![g] = "there"]
         \/ k = "delete" /\ row[g] = "there" /\ row' = [row EXCEPT ![g] = "gone"]
      /\ stars' = stars \/ (k = "rate" /\ stars' = [stars EXCEPT ![g] = asked[n].stars])
  <2>1. row \in [Gifts -> {"none", "there", "gone"}] /\ stars \in [Gifts -> Ratings] /\ asked[n].stars \in Ratings
    BY <1>3 DEF HistoryInv, HistoryShape, Request
  <2>2. CASE UNCHANGED historyRows
    BY <2>1, <2>2 DEF historyRows
  <2>3. CASE Serves(n) /\ (k = "delete" => row[g] = "there")
    <3>1. CASE k = "list"
      BY <1>2, <2>1, <2>3, <3>1 DEF Serves, historyRows
    <3>2. CASE k = "add"
      BY <1>1, <1>2, <2>1, <2>3, <3>2 DEF Serves
    <3>3. CASE k = "rate"
      BY <1>1, <1>2, <2>1, <2>3, <3>3 DEF Serves
    <3>4. CASE k = "ban"
      BY <1>1, <1>2, <2>1, <2>3, <3>4 DEF Serves
    <3>5. CASE k = "delete"
      BY <1>1, <1>2, <2>1, <2>3, <3>5 DEF Serves
    <3> QED
      BY <1>4, <3>1, <3>2, <3>3, <3>4, <3>5 DEF Kinds
  <2> QED
    BY <1>1, <1>2, <2>2, <2>3 DEF ServeAsk
<1>6. PICK q \in Request :
        /\ asked' = [asked EXCEPT ![n] = q]
        /\ q.kind = k /\ q.gift = g /\ q.stars = asked[n].stars /\ q.dialog = asked[n].dialog
        /\ q.year = asked[n].year
        /\ \/ q.pc = "refused" /\ k \in {"rate", "delete"} /\ UNCHANGED <<row, stars>>
           \/ /\ q.pc = "served"
              /\ q.answer = [gifts |-> Matching(asked[n].year), stars |-> stars']
              /\ k = "add" => row' = [row EXCEPT ![g] = "there"]
              /\ k = "delete" => row' = [row EXCEPT ![g] = "gone"]
              /\ k = "rate" => stars' = [stars EXCEPT ![g] = asked[n].stars]
  <2>1. CASE /\ asked[n].kind \in {"rate", "delete"} /\ UNCHANGED historyRows
             /\ asked' = [asked EXCEPT ![n].pc = "refused"]
    <3>1. PICK q : q = [asked[n] EXCEPT !.pc = "refused"]
      OBVIOUS
    <3>2. /\ q \in Request /\ q.kind = k /\ q.gift = g /\ q.stars = asked[n].stars
          /\ q.dialog = asked[n].dialog /\ q.year = asked[n].year /\ q.pc = "refused"
      BY <1>1, <1>2, <1>3, <3>1 DEF Request
    <3>3. asked' = [asked EXCEPT ![n] = q]
      BY <2>1, <3>1
    <3> QED
      BY <1>2, <2>1, <3>2, <3>3 DEF historyRows
  <2>2. CASE /\ Serves(n)
             /\ asked' = [asked EXCEPT ![n].pc = "served",
                                       ![n].answer = [gifts |-> Matching(asked[n].year), stars |-> stars']]
    <3>1. PICK a : a = [gifts |-> Matching(asked[n].year), stars |-> stars']
      OBVIOUS
    <3>2. a \in [gifts : SUBSET Gifts, stars : [Gifts -> Ratings]]
      BY <1>5, <3>1 DEF Matching
    <3>3. PICK q : q = [asked[n] EXCEPT !.pc = "served", !.answer = a]
      OBVIOUS
    <3>4. /\ q \in Request /\ q.kind = k /\ q.gift = g /\ q.stars = asked[n].stars
          /\ q.dialog = asked[n].dialog /\ q.year = asked[n].year /\ q.pc = "served" /\ q.answer = a
      BY <1>1, <1>2, <1>3, <3>2, <3>3 DEF Request
    <3>5. asked' = [asked EXCEPT ![n] = q]
      BY <1>3, <2>2, <3>1, <3>3
    <3>6. /\ k = "add" => row' = [row EXCEPT ![g] = "there"]
          /\ k = "delete" => row' = [row EXCEPT ![g] = "gone"]
          /\ k = "rate" => stars' = [stars EXCEPT ![g] = asked[n].stars]
      BY <1>1, <1>2, <2>2 DEF Serves
    <3> QED
      BY <3>1, <3>4, <3>5, <3>6
  <2> QED
    BY <2>1, <2>2 DEF ServeAsk
<1>7. /\ asked' \in [Lines -> Request] /\ asked'[n] = q /\ Open' = Open /\ Open \subseteq Lines
      /\ \A m \in Open \ {n} : asked'[m] = asked[m]
  <2>1. Becomes(n, q)
    BY <1>6, OneLine DEF HistoryInv
  <2> QED
    BY <1>3, <1>6, <2>1 DEF Becomes, Open
<1>8. row \in [Gifts -> {"none", "there", "gone"}] /\ stars \in [Gifts -> Ratings]
  BY DEF HistoryInv, HistoryShape
<1>9. HistoryShape'
  BY <1>3, <1>4, <1>5, <1>6, <1>7 DEF HistoryInv, HistoryShape
<1>10. WaitsAreAnswered'
  <2>1. \A m \in Open : asked'[m].kind = asked[m].kind /\ asked'[m].gift = asked[m].gift /\ asked'[m].dialog = asked[m].dialog
    BY <1>1, <1>2, <1>6, <1>7
  <2> QED
    BY <1>3, <1>7, <2>1 DEF HistoryInv, WaitsAreAnswered
<1>11. k = "add" => row[g] = "none" /\ \A m \in Open : asked[m].kind = "add" => m = n
  BY <1>1, <1>2, <1>3 DEF HistoryInv, RowsGoOn
<1>12. RowsGoOn'
  <2>1. ASSUME NEW m \in Open, asked'[m].kind = "add"
        PROVE  /\ dialogs["add"].busy
               /\ asked'[m].pc = "sent" => row'[asked'[m].gift] = "none"
               /\ \A l \in Open : asked'[l].kind = "add" => l = m
    <3>1. \A l \in Open : asked'[l].kind = asked[l].kind
      BY <1>2, <1>6, <1>7
    <3>2. /\ dialogs["add"].busy
          /\ asked[m].pc = "sent" => row[asked[m].gift] = "none"
          /\ \A l \in Open : asked[l].kind = "add" => l = m
      BY <2>1, <3>1 DEF HistoryInv, RowsGoOn
    <3>3. ASSUME asked'[m].pc = "sent" PROVE row'[asked'[m].gift] = "none"
      <4>1. m # n /\ k # "add"
        BY <1>3, <1>2, <1>6, <1>7, <3>2, <3>3
      <4>2. asked'[m] = asked[m] /\ row[asked[m].gift] = "none" /\ asked[m].gift \in Gifts
        BY <1>7, <2>1, <3>2, <3>3, <4>1 DEF HistoryInv, HistoryShape
      <4> QED
        BY <1>4, <1>5, <1>8, <4>1, <4>2
    <3> QED
      BY <3>1, <3>2, <3>3
  <2>2. ASSUME NEW m \in Open, asked'[m].kind = "delete", asked'[m].pc = "served"
        PROVE  row'[asked'[m].gift] = "gone"
    <3>1. CASE m = n
      BY <1>4, <1>6, <1>7, <1>8, <2>2, <3>1
    <3>2. CASE m # n
      <4>1. asked'[m] = asked[m] /\ row[asked[m].gift] = "gone" /\ asked[m].gift \in Gifts
        BY <1>7, <2>2, <3>2 DEF HistoryInv, RowsGoOn, HistoryShape
      <4> QED
        BY <1>4, <1>5, <1>8, <1>11, <4>1
    <3> QED
      BY <3>1, <3>2
  <2> QED
    BY <1>3, <1>7, <2>1, <2>2 DEF RowsGoOn
<1>13. RatingsStand'
  <2> SUFFICES ASSUME ~mixed, NEW m \in Open, asked'[m].kind = "rate"
               PROVE  /\ asked'[m].pc = "served" => stars'[asked'[m].gift] = asked'[m].stars
                      /\ \A l \in Open : asked'[l].kind = "rate" /\ asked'[l].gift = asked'[m].gift => l = m
    BY <1>3, <1>7 DEF RatingsStand
  <2>1. \A l \in Open : asked'[l].kind = asked[l].kind /\ asked'[l].gift = asked[l].gift
    BY <1>1, <1>2, <1>6, <1>7
  <2>2. /\ asked[m].pc = "served" => stars[asked[m].gift] = asked[m].stars
        /\ \A l \in Open : asked[l].kind = "rate" /\ asked[l].gift = asked[m].gift => l = m
    BY <2>1 DEF HistoryInv, RatingsStand
  <2>3. asked[m].gift \in Gifts
    BY <2>1 DEF HistoryInv, HistoryShape
  <2>4. CASE m = n
    BY <1>1, <1>2, <1>6, <1>7, <1>8, <2>1, <2>2, <2>3, <2>4
  <2>5. CASE m # n
    <3>1. k = "rate" => g # asked[m].gift
      BY <1>1, <1>2, <1>3, <2>2, <2>5
    <3> QED
      BY <1>4, <1>5, <1>7, <1>8, <2>1, <2>2, <2>3, <2>5, <3>1
  <2> QED
    BY <2>4, <2>5
<1>14. UNCHANGED row => Matching(list.filter)' = Matching(list.filter)
  BY <1>3 DEF Matching
<1>15. LoadsAreFresh'
  <2> SUFFICES ASSUME ~mixed, NEW m \in Open, asked'[m].kind = "list"
               PROVE  /\ asked'[m].year = list.filter
                      /\ asked'[m].pc = "served" =>
                           asked'[m].answer = [gifts |-> Matching(list.filter)', stars |-> stars']
                      /\ \A l \in Open : asked'[l].kind = "ban" \/ l = m
    BY <1>3, <1>7 DEF LoadsAreFresh
  <2>1. \A l \in Open : asked'[l].kind = asked[l].kind /\ asked'[l].year = asked[l].year
    BY <1>2, <1>6, <1>7
  <2>2. /\ asked[m].year = list.filter
        /\ asked[m].pc = "served" => asked[m].answer = [gifts |-> Matching(list.filter), stars |-> stars]
        /\ \A l \in Open : asked[l].kind = "ban" \/ l = m
    BY <2>1 DEF HistoryInv, LoadsAreFresh
  <2>3. k = "ban" \/ (m = n /\ k = "list")
    BY <1>2, <1>3, <2>1, <2>2
  <2>4. UNCHANGED <<row, stars>>
    BY <1>5, <2>3
  <2>5. CASE m = n
    BY <1>6, <1>7, <1>14, <2>1, <2>2, <2>4, <2>5
  <2>6. CASE m # n
    BY <1>7, <1>14, <2>1, <2>2, <2>4, <2>6
  <2> QED
    BY <2>5, <2>6
<1>16. ShowsButAnswers'
  <2> SUFFICES ASSUME ~mixed, lists > 0, \A m \in Open : asked'[m].kind # "list", NEW f \in Gifts
               PROVE  /\ f \in list.shown => f \in Matching(list.filter)' \/ Served("delete", f)'
                      /\ f \in Matching(list.filter)' => f \in list.shown \/ Served("add", f)'
                      /\ f \in list.shown => list.stars[f] = stars'[f] \/ Served("rate", f)'
    BY <1>3, <1>7 DEF ShowsButAnswers
  <2>1. \A m \in Open : asked[m].kind # "list"
    BY <1>2, <1>6, <1>7
  <2>2. /\ f \in list.shown => f \in Matching(list.filter) \/ Served("delete", f)
        /\ f \in Matching(list.filter) => f \in list.shown \/ Served("add", f)
        /\ f \in list.shown => list.stars[f] = stars[f] \/ Served("rate", f)
    BY <2>1 DEF HistoryInv, ShowsButAnswers
  <2>3. ASSUME NEW kind \in Kinds, Served(kind, f) PROVE Served(kind, f)'
    BY <1>3, <1>7, <2>3 DEF Served
  <2>4. "delete" \in Kinds /\ "add" \in Kinds /\ "rate" \in Kinds
    BY DEF Kinds
  <2>5. q.pc = "served" /\ g = f => Served(k, f)'
    BY <1>3, <1>6, <1>7 DEF Served
  <2>6. UNCHANGED row \/ (g = f /\ q.pc = "served") \/ row'[f] = row[f]
    BY <1>5, <1>6, <1>8
  <2>7. f \in Matching(list.filter)' <=> row'[f] = "there" /\ list.filter \in {AllYears, YearOf[f]}
    BY <1>3 DEF Matching
  <2>8. f \in Matching(list.filter) <=> row[f] = "there" /\ list.filter \in {AllYears, YearOf[f]}
    BY DEF Matching
  <2>9. row'[f] = row[f] \/ (k = "add" /\ Served("add", f)' /\ row'[f] = "there")
                         \/ (k = "delete" /\ Served("delete", f)' /\ row'[f] = "gone")
    BY <1>5, <1>6, <1>8, <2>5
  <2>10. stars'[f] = stars[f] \/ Served("rate", f)'
    BY <1>5, <1>6, <1>8, <2>5
  <2> QED
    BY <2>2, <2>3, <2>4, <2>7, <2>8, <2>9, <2>10
<1> QED
  BY <1>9, <1>10, <1>12, <1>13, <1>15, <1>16 DEF HistoryInv

-----------------------------------------------------------------------------
(* The section hears.                                                      *)

\* A request that ends, apart from what the section shows then.
LEMMA HistoryEnds ==
  ASSUME HistoryInv, NEW n \in Open, Done(n), UNCHANGED <<row, stars, lists>>,
         list' \in Section, list'.filter = list.filter, mixed' \in BOOLEAN, mixed => mixed',
         list'.loading => list.loading /\ asked[n].kind # "list",
         dialogs' \in [Kinds -> Dialog], dialogs'["add"].gift = NoGift,
         asked[n].kind # "add" => dialogs'["add"].busy = dialogs["add"].busy,
         \A k \in Kinds : dialogs'[k].busy =>
           /\ dialogs[k].busy /\ dialogs'[k].gift = dialogs[k].gift
           /\ ~(asked[n].kind = k /\ asked[n].dialog /\ (k = "add" \/ asked[n].gift = dialogs[k].gift)),
         ShowsButAnswers'
  PROVE  HistoryInv'
<1>1. Open \subseteq Lines
  BY DEF Open
<1>2. asked' \in [Lines -> Request] /\ Open' = Open \ {n} /\ \A m \in Open \ {n} : asked'[m] = asked[m]
  BY <1>1, AskEnds, NoAskIsARequest DEF HistoryInv, Becomes
<1>3. HistoryShape'
  BY <1>1, <1>2 DEF HistoryInv, HistoryShape
<1>4. WaitsAreAnswered'
  <2>1. list'.loading => lists = 0 \/ \E m \in Open' : asked'[m].kind = "list"
    BY <1>2 DEF HistoryInv, WaitsAreAnswered
  <2>2. ASSUME NEW k \in Kinds, dialogs'[k].busy
        PROVE  \E m \in Open' : asked'[m].kind = k /\ asked'[m].dialog /\ (k = "add" \/ asked'[m].gift = dialogs'[k].gift)
    <3>1. PICK m \in Open : asked[m].kind = k /\ asked[m].dialog /\ (k = "add" \/ asked[m].gift = dialogs[k].gift)
      BY <2>2 DEF HistoryInv, WaitsAreAnswered
    <3> QED
      BY <1>2, <2>2, <3>1
  <2> QED
    BY <2>1, <2>2 DEF WaitsAreAnswered
<1>5. RowsGoOn'
  <2>1. ASSUME NEW m \in Open', asked'[m].kind = "add"
        PROVE  /\ dialogs'["add"].busy
               /\ asked'[m].pc = "sent" => row[asked'[m].gift] = "none"
               /\ \A l \in Open' : asked'[l].kind = "add" => l = m
    <3>1. m \in Open /\ m # n /\ asked[m].kind = "add"
      BY <1>2, <2>1
    <3>2. asked[n].kind # "add"
      BY <3>1 DEF HistoryInv, RowsGoOn
    <3> QED
      BY <1>2, <3>1, <3>2 DEF HistoryInv, RowsGoOn
  <2> QED
    BY <1>2, <2>1 DEF HistoryInv, RowsGoOn
<1>6. RatingsStand'
  BY <1>2 DEF HistoryInv, RatingsStand
<1>7. LoadsAreFresh'
  <2>1. Matching(list.filter)' = Matching(list.filter)
    BY DEF Matching
  <2> QED
    BY <1>2, <2>1 DEF HistoryInv, LoadsAreFresh
<1> QED
  BY <1>3, <1>4, <1>5, <1>6, <1>7 DEF HistoryInv

\* The answers that are still on their way when n has been heard.
LEMMA ServedStays ==
  ASSUME HistoryShape, NEW n \in Open, Done(n), NEW k \in Kinds, NEW g \in Gifts, Served(k, g),
         asked[n].kind # k \/ asked[n].gift # g \/ asked[n].pc # "served"
  PROVE  Served(k, g)'
<1>1. Open \subseteq Lines
  BY DEF Open
<1>2. Open' = Open \ {n} /\ \A m \in Open \ {n} : asked'[m] = asked[m]
  BY <1>1, AskEnds, NoAskIsARequest DEF Becomes
<1> QED
  BY <1>2 DEF Served

\* Without a load under way, before or after, the section shows the rows but
\* for the answers on their way: what is left of that when n has been heard.
LEMMA ShowsStill ==
  ASSUME HistoryInv, NEW n \in Open, Done(n), UNCHANGED <<row, stars, lists>>, mixed => mixed',
         list'.filter = list.filter, asked[n].kind # "list",
         ~mixed => \A g \in Gifts :
           /\ g \in list.shown /\ g \notin list'.shown => g \notin Matching(list.filter)
           /\ g \in list'.shown => /\ g \in list.shown
                                   /\ list'.stars[g] = list.stars[g] \/ list'.stars[g] = stars[g]
           /\ asked[n].pc = "served" /\ asked[n].kind = "delete" => asked[n].gift \notin list'.shown
           /\ asked[n].pc = "served" /\ asked[n].kind = "rate" /\ g = asked[n].gift => list'.stars[g] = stars[g],
         mixed' \/ ~(asked[n].kind = "add" /\ asked[n].pc = "served")
  PROVE  ShowsButAnswers'
<1> SUFFICES ASSUME ~mixed', lists > 0, \A m \in Open' : asked'[m].kind # "list", NEW g \in Gifts
             PROVE  /\ g \in list'.shown => g \in Matching(list.filter) \/ Served("delete", g)'
                    /\ g \in Matching(list.filter) => g \in list'.shown \/ Served("add", g)'
                    /\ g \in list'.shown => list'.stars[g] = stars[g] \/ Served("rate", g)'
  BY DEF ShowsButAnswers, Matching
<1>1. Open \subseteq Lines /\ "delete" \in Kinds /\ "add" \in Kinds /\ "rate" \in Kinds
  BY DEF Open, Kinds
<1>2. Open' = Open \ {n} /\ \A m \in Open \ {n} : asked'[m] = asked[m]
  BY <1>1, AskEnds, NoAskIsARequest DEF HistoryInv, Becomes
<1>3. \A m \in Open : asked[m].kind # "list"
  BY <1>2
<1>4. /\ g \in list.shown => g \in Matching(list.filter) \/ Served("delete", g)
      /\ g \in Matching(list.filter) => g \in list.shown \/ Served("add", g)
      /\ g \in list.shown => list.stars[g] = stars[g] \/ Served("rate", g)
  BY <1>3 DEF HistoryInv, ShowsButAnswers
<1>5. \A k \in Kinds : Served(k, g) => Served(k, g)' \/ (asked[n].kind = k /\ asked[n].gift = g /\ asked[n].pc = "served")
  BY ServedStays DEF HistoryInv
<1>6. g \in list'.shown => g \in Matching(list.filter) \/ Served("delete", g)'
  BY <1>1, <1>4, <1>5
<1>7. g \in Matching(list.filter) => g \in list'.shown \/ Served("add", g)'
  BY <1>1, <1>4, <1>5
<1>8. g \in list'.shown => list'.stars[g] = stars[g] \/ Served("rate", g)'
  BY <1>1, <1>4, <1>5
<1> QED
  BY <1>6, <1>7, <1>8

LEMMA HearsList ==
  ASSUME HistoryInv, NEW n \in Open, asked[n].pc = "served", HearList(n), UNCHANGED historyRows
  PROVE  HistoryInv'
<1>1. /\ Done(n) /\ UNCHANGED <<row, stars, dialogs, lists, mixed>> /\ asked[n].kind = "list"
  BY DEF HearList, historyRows
<1>2. Open \subseteq Lines /\ asked[n] \in Request
  BY DEF Open, HistoryInv, HistoryShape
<1>3. PICK s : s = [list EXCEPT !.shown = asked[n].answer.gifts, !.stars = asked[n].answer.stars, !.loading = FALSE]
  OBVIOUS
<1>4. list \in Section /\ asked[n].answer \in [gifts : SUBSET Gifts, stars : [Gifts -> Ratings]]
  BY <1>2 DEF HistoryInv, HistoryShape, Request
<1>5. /\ s \in Section /\ s.filter = list.filter /\ ~s.loading
      /\ s.shown = asked[n].answer.gifts /\ s.stars = asked[n].answer.stars
  BY <1>3, <1>4 DEF Section
<1>6. list' = s
  BY <1>3 DEF HearList
<1>7. ShowsButAnswers'
  <2>1. ~mixed => s.shown = Matching(list.filter) /\ s.stars = stars
    BY <1>1, <1>5 DEF HistoryInv, LoadsAreFresh
  <2> QED
    BY <1>1, <1>5, <1>6, <2>1 DEF ShowsButAnswers, Matching
<1>8. /\ dialogs' \in [Kinds -> Dialog] /\ dialogs'["add"].gift = NoGift /\ mixed' \in BOOLEAN
      /\ asked[n].kind \notin Kinds
  BY <1>1 DEF HistoryInv, HistoryShape, Kinds
<1> QED
  BY <1>1, <1>5, <1>6, <1>7, <1>8, HistoryEnds

LEMMA HearsAdd ==
  ASSUME HistoryInv, NEW n \in Open, asked[n].pc = "served", HearAdd(n), UNCHANGED historyRows
  PROVE  HistoryInv'
<1>1. /\ UNCHANGED <<row, stars>> /\ asked[n].kind = "add" /\ lists' = lists + 1
      /\ mixed' = (mixed \/ asked[n].year # list.filter \/ \E m \in Open \ {n} : asked[m].kind # "ban")
      /\ dialogs' = [dialogs EXCEPT !["add"] = Shut]
  BY DEF HearAdd, historyRows
<1>2. Open \subseteq Lines /\ asked[n].year \in Years
  BY DEF Open, HistoryInv, HistoryShape, Request
<1>3. PICK q : q = [NoAsk EXCEPT !.year = asked[n].year, !.pc = "sent"]
  OBVIOUS
<1>4. q \in Request /\ q.kind = "list" /\ q.year = asked[n].year /\ q.pc = "sent"
  BY <1>2, <1>3, LoadIsARequest DEF HistoryInv
<1>5. Becomes(n, q)
  BY <1>2, <1>3, <1>4, OneLine DEF HearAdd, HistoryInv
<1>6. /\ asked' \in [Lines -> Request] /\ asked'[n] = q /\ Open' = Open
      /\ \A m \in Open \ {n} : asked'[m] = asked[m]
  BY <1>2, <1>4, <1>5 DEF Becomes
<1>7. list' \in Section /\ list'.filter = list.filter
  <2>1. PICK s : s = [list EXCEPT !.loading = TRUE]
    OBVIOUS
  <2>2. s \in Section /\ s.filter = list.filter
    BY <2>1 DEF HistoryInv, HistoryShape, Section
  <2> QED
    BY <2>1, <2>2 DEF HearAdd
<1>8. /\ dialogs' \in [Kinds -> Dialog] /\ dialogs'["add"] = Shut /\ \A k \in Kinds \ {"add"} : dialogs'[k] = dialogs[k]
      /\ Shut.gift = NoGift /\ ~Shut.busy
  BY <1>1 DEF HistoryInv, HistoryShape, Kinds, Shut, Dialog
<1>9. HistoryShape'
  BY <1>1, <1>2, <1>4, <1>6, <1>7, <1>8 DEF HistoryInv, HistoryShape
<1>10. WaitsAreAnswered'
  <2>1. ASSUME NEW k \in Kinds, dialogs'[k].busy
        PROVE  \E m \in Open' : asked'[m].kind = k /\ asked'[m].dialog /\ (k = "add" \/ asked'[m].gift = dialogs'[k].gift)
    <3>1. k # "add"
      BY <1>8, <2>1
    <3>2. PICK m \in Open : asked[m].kind = k /\ asked[m].dialog /\ (k = "add" \/ asked[m].gift = dialogs[k].gift)
      BY <1>8, <2>1, <3>1 DEF HistoryInv, WaitsAreAnswered
    <3> QED
      BY <1>1, <1>6, <1>8, <3>1, <3>2
  <2> QED
    BY <1>4, <1>6, <2>1 DEF WaitsAreAnswered
<1>11. RowsGoOn'
  BY <1>1, <1>4, <1>6 DEF HistoryInv, RowsGoOn
<1>12. ~mixed' => ~mixed /\ asked[n].year = list.filter /\ \A m \in Open \ {n} : asked[m].kind = "ban"
  BY <1>1
<1>13. RatingsStand'
  BY <1>4, <1>6, <1>12 DEF RatingsStand
<1>14. LoadsAreFresh'
  BY <1>4, <1>6, <1>7, <1>12 DEF LoadsAreFresh
<1>15. ShowsButAnswers'
  BY <1>4, <1>6 DEF ShowsButAnswers
<1> QED
  BY <1>9, <1>10, <1>11, <1>13, <1>14, <1>15 DEF HistoryInv

LEMMA HearsRate ==
  ASSUME HistoryInv, NEW n \in Open, asked[n].pc = "served", HearRate(n), UNCHANGED historyRows
  PROVE  HistoryInv'
<1>1. PICK g : g = asked[n].gift
  OBVIOUS
<1>2. Done(n) /\ UNCHANGED <<row, stars, lists, mixed>> /\ asked[n].kind = "rate"
  BY DEF HearRate, historyRows
<1>3. Open \subseteq Lines /\ asked[n].stars \in Ratings /\ g \in Gifts
  BY <1>1, <1>2 DEF Open, HistoryInv, HistoryShape, Request
<1>4. /\ list' \in Section /\ list'.filter = list.filter /\ list'.loading = list.loading /\ list'.shown = list.shown
      /\ list'.stars = [list.stars EXCEPT ![g] = asked[n].stars] /\ list.stars \in [Gifts -> Ratings]
  <2>1. PICK t : t = [list.stars EXCEPT ![g] = asked[n].stars]
    OBVIOUS
  <2>2. list.stars \in [Gifts -> Ratings] /\ t \in [Gifts -> Ratings]
    BY <1>3, <2>1 DEF HistoryInv, HistoryShape, Section
  <2>3. PICK s : s = [list EXCEPT !.stars = t]
    OBVIOUS
  <2>4. s \in Section /\ s.filter = list.filter /\ s.loading = list.loading /\ s.shown = list.shown /\ s.stars = t
    BY <2>2, <2>3 DEF HistoryInv, HistoryShape, Section
  <2>5. list' = s
    BY <1>1, <2>1, <2>3 DEF HearRate, Rated
  <2> QED
    BY <2>1, <2>2, <2>4, <2>5
<1>5. /\ dialogs' \in [Kinds -> Dialog] /\ dialogs'["add"] = dialogs["add"] /\ dialogs["add"].gift = NoGift
      /\ \A k \in Kinds : dialogs'[k] = dialogs[k] \/ ~dialogs'[k].busy
      /\ asked[n].dialog => ~dialogs'["rate"].busy
  <2>1. /\ dialogs \in [Kinds -> Dialog] /\ dialogs["add"].gift = NoGift /\ Shut \in Dialog /\ ~Shut.busy
        /\ {"add", "rate", "ban"} \subseteq Kinds
    BY DEF HistoryInv, HistoryShape, Shut, Dialog, Kinds
  <2>2. PICK d : d = [gift |-> g, open |-> TRUE, busy |-> FALSE]
    OBVIOUS
  <2>3. d \in Dialog /\ ~d.busy
    BY <1>3, <2>2 DEF Dialog
  <2>4. dialogs' = IF ~asked[n].dialog THEN dialogs
                   ELSE [dialogs EXCEPT !["rate"] = Shut, !["ban"] = IF asked[n].stars = 1 THEN d ELSE @]
    BY <1>1, <2>2 DEF HearRate
  <2> QED
    BY <2>1, <2>3, <2>4
<1>6. ShowsButAnswers'
  <2>1. ~mixed => asked[n].stars = stars[g]
    BY <1>1, <1>2 DEF HistoryInv, RatingsStand
  <2>2. ~mixed => \A f \in Gifts :
           /\ f \in list.shown /\ f \notin list'.shown => f \notin Matching(list.filter)
           /\ f \in list'.shown => /\ f \in list.shown
                                   /\ list'.stars[f] = list.stars[f] \/ list'.stars[f] = stars[f]
           /\ asked[n].pc = "served" /\ asked[n].kind = "delete" => asked[n].gift \notin list'.shown
           /\ asked[n].pc = "served" /\ asked[n].kind = "rate" /\ f = asked[n].gift => list'.stars[f] = stars[f]
    BY <1>1, <1>2, <1>3, <1>4, <2>1
  <2> QED
    BY <1>2, <1>4, <2>2, ShowsStill
<1> QED
  BY <1>2, <1>4, <1>5, <1>6, HistoryEnds DEF HistoryInv, HistoryShape

LEMMA HearsBan ==
  ASSUME HistoryInv, NEW n \in Open, asked[n].pc = "served", HearBan(n), UNCHANGED historyRows
  PROVE  HistoryInv'
<1>1. Done(n) /\ UNCHANGED <<row, stars, list, lists, mixed>> /\ asked[n].kind = "ban"
  BY DEF HearBan, historyRows
<1>2. /\ dialogs' \in [Kinds -> Dialog] /\ dialogs'["add"] = dialogs["add"] /\ dialogs["add"].gift = NoGift
      /\ \A k \in Kinds \ {"ban"} : dialogs'[k] = dialogs[k]
      /\ ~dialogs'["ban"].busy
  BY DEF HearBan, HistoryInv, HistoryShape, Shut, Dialog, Kinds
<1>3. list \in Section /\ mixed \in BOOLEAN
  BY DEF HistoryInv, HistoryShape
<1>4. ShowsButAnswers'
  BY <1>1, ShowsStill
<1> QED
  BY <1>1, <1>2, <1>3, <1>4, HistoryEnds

LEMMA HearsDelete ==
  ASSUME HistoryInv, NEW n \in Open, asked[n].pc = "served", HearDelete(n), UNCHANGED historyRows
  PROVE  HistoryInv'
<1>1. Done(n) /\ UNCHANGED <<row, stars, lists, mixed>> /\ asked[n].kind = "delete"
  BY DEF HearDelete, historyRows
<1>2. /\ dialogs' \in [Kinds -> Dialog] /\ dialogs'["add"] = dialogs["add"] /\ dialogs["add"].gift = NoGift
      /\ \A k \in Kinds \ {"delete"} : dialogs'[k] = dialogs[k]
      /\ ~dialogs'["delete"].busy
  BY DEF HearDelete, HistoryInv, HistoryShape, Shut, Dialog, Kinds
<1>3. /\ list' \in Section /\ list'.filter = list.filter /\ list'.loading = list.loading
      /\ list'.shown = list.shown \ {asked[n].gift} /\ list'.stars = list.stars
  <2>1. PICK s : s = [list EXCEPT !.shown = @ \ {asked[n].gift}]
    OBVIOUS
  <2>2. /\ s \in Section /\ s.filter = list.filter /\ s.loading = list.loading
        /\ s.shown = list.shown \ {asked[n].gift} /\ s.stars = list.stars
    BY <2>1 DEF HistoryInv, HistoryShape, Section
  <2> QED
    BY <2>1, <2>2 DEF HearDelete
<1>4. asked[n].gift \notin Matching(list.filter)
  BY <1>1 DEF HistoryInv, RowsGoOn, Matching
<1>5. ShowsButAnswers'
  BY <1>1, <1>3, <1>4, ShowsStill
<1> QED
  BY <1>1, <1>2, <1>3, <1>5, HistoryEnds DEF HistoryInv, HistoryShape

LEMMA HearsFailure ==
  ASSUME HistoryInv, NEW n \in Open, HearFailure(n)
  PROVE  HistoryInv'
<1>1. Done(n) /\ UNCHANGED <<row, stars, lists>> /\ mixed' = (mixed \/ asked[n].pc # "refused")
  BY DEF HearFailure, historyRows
<1>2. /\ list' \in Section /\ list'.filter = list.filter /\ list'.shown = list.shown /\ list'.stars = list.stars
      /\ list'.loading => list.loading /\ asked[n].kind # "list"
  <2>1. PICK s : s = [list EXCEPT !.loading = @ /\ asked[n].kind # "list"]
    OBVIOUS
  <2>2. list \in Section /\ (list.loading /\ asked[n].kind # "list") \in BOOLEAN
    BY DEF HistoryInv, HistoryShape
  <2>3. /\ s \in Section /\ s.filter = list.filter /\ s.shown = list.shown /\ s.stars = list.stars
        /\ s.loading = (list.loading /\ asked[n].kind # "list")
    BY <2>1, <2>2 DEF Section
  <2> QED
    BY <2>1, <2>3 DEF HearFailure
<1>3. asked[n] \in Request /\ asked[n].kind \in Kinds \cup {"list"}
  BY DEF Open, HistoryInv, HistoryShape, Request
<1>4. dialogs \in [Kinds -> Dialog] /\ dialogs["add"].gift = NoGift /\ "add" \in Kinds /\ mixed \in BOOLEAN
  BY DEF HistoryInv, HistoryShape, Kinds
<1>5. /\ dialogs' \in [Kinds -> Dialog] /\ \A k \in Kinds : dialogs'[k].gift = dialogs[k].gift
      /\ \A k \in Kinds : dialogs'[k].busy => dialogs[k].busy
      /\ asked[n].kind # "add" => dialogs'["add"] = dialogs["add"]
      /\ \A k \in Kinds : dialogs'[k].busy =>
           ~(asked[n].kind = k /\ asked[n].dialog /\ (k = "add" \/ asked[n].gift = dialogs[k].gift))
  <2>1. PICK k : k = asked[n].kind
    OBVIOUS
  <2>2. CASE /\ asked[n].dialog /\ dialogs[k].gift \in {asked[n].gift, NoGift}
             /\ dialogs' = [dialogs EXCEPT ![k].busy = FALSE]
    <3>1. PICK d : d = [dialogs[k] EXCEPT !.busy = FALSE]
      OBVIOUS
    <3>2. dialogs' = [dialogs EXCEPT ![k] = d]
      BY <2>2, <3>1
    <3>3. CASE k \in Kinds
      <4>1. d \in Dialog /\ d.gift = dialogs[k].gift /\ ~d.busy
        BY <1>4, <3>1, <3>3 DEF Dialog
      <4> QED
        BY <1>4, <2>1, <3>2, <3>3, <4>1
    <3>4. CASE k \notin Kinds
      <4>1. dialogs' = dialogs
        BY <1>4, <3>2, <3>4
      <4> QED
        BY <1>4, <2>1, <3>4, <4>1
    <3> QED
      BY <3>3, <3>4
  <2>3. CASE /\ ~(asked[n].dialog /\ dialogs[k].gift \in {asked[n].gift, NoGift})
             /\ dialogs' = dialogs
    BY <1>4, <2>1, <2>3
  <2> QED
    BY <2>1, <2>2, <2>3 DEF HearFailure
<1>6. ShowsButAnswers'
  <2>1. CASE asked[n].pc = "refused"
    <3>1. asked[n].kind # "list"
      BY <2>1 DEF HistoryInv, HistoryShape
    <3>2. mixed => mixed'
      BY <1>1
    <3> QED
      BY <1>1, <1>2, <2>1, <3>1, <3>2, ShowsStill
  <2>2. CASE asked[n].pc # "refused"
    BY <1>1, <2>2 DEF ShowsButAnswers
  <2> QED
    BY <2>1, <2>2
<1>7. mixed' \in BOOLEAN /\ (mixed => mixed')
  BY <1>1, <1>4
<1> QED
  BY <1>1, <1>2, <1>4, <1>5, <1>6, <1>7, HistoryEnds

LEMMA HistoryStarts == HistoryInit => HistoryInv
<1> SUFFICES ASSUME HistoryInit PROVE HistoryInv
  OBVIOUS
<1>1. Open = {} /\ stars \in [Gifts -> Ratings] /\ lists = 0 /\ mixed = FALSE
  BY DEF HistoryInit, Open, NoAsk, Ratings
<1>2. list \in Section /\ dialogs \in [Kinds -> Dialog] /\ dialogs["add"].gift = NoGift /\ \A k \in Kinds : ~dialogs[k].busy
  BY <1>1 DEF HistoryInit, Section, Years, Shut, Dialog, Kinds
<1>3. asked \in [Lines -> Request]
  BY NoAskIsARequest DEF HistoryInit
<1>4. row \in [Gifts -> {"none", "there", "gone"}]
  BY DEF HistoryInit
<1>5. mixed \in BOOLEAN
  BY <1>1
<1>6. HistoryShape
  BY <1>1, <1>2, <1>3, <1>4, <1>5 DEF HistoryShape
<1>7. WaitsAreAnswered /\ RowsGoOn /\ RatingsStand /\ LoadsAreFresh
  BY <1>1, <1>2 DEF WaitsAreAnswered, RowsGoOn, RatingsStand, LoadsAreFresh
<1>8. ShowsButAnswers
  BY <1>1 DEF ShowsButAnswers
<1> QED
  BY <1>6, <1>7, <1>8 DEF HistoryInv

LEMMA HistoryGoesOn == HistoryInv /\ [HistoryNext]_historyVars => HistoryInv'
<1> SUFFICES ASSUME HistoryInv, [HistoryNext]_historyVars PROVE HistoryInv'
  OBVIOUS
<1>1. CASE Load
  BY <1>1, HistoryLoads DEF Load, HistoryInv, HistoryShape, Section
<1>2. ASSUME NEW year \in {AllYears} \cup {YearOf[g] : g \in Gifts}, Filter(year) PROVE HistoryInv'
  BY <1>2, HistoryLoads DEF Filter, Years
<1>3. ASSUME NEW g \in Gifts, NailedIt(g) PROVE HistoryInv'
  BY <1>3, HistoryAsks DEF NailedIt, Kinds, Ratings
<1>4. CASE OpenAdd \/ (\E k \in Kinds : LeaveDialog(k)) \/ \E k \in Kinds, g \in Gifts : OpenOnRow(k, g)
  BY <1>4, DialogTurns
<1>5. ASSUME NEW k \in Kinds, NEW g \in Gifts, NEW rating \in Ratings, SubmitDialog(k, g, rating) PROVE HistoryInv'
  BY <1>5, HistoryAsks DEF SubmitDialog
<1>6. ASSUME NEW n \in Lines, ServeAsk(n) PROVE HistoryInv'
  BY <1>6, HistoryServes
<1>7. ASSUME NEW n \in Lines, HearAnswer(n) PROVE HistoryInv'
  <2>1. n \in Open
    BY <1>7 DEF HearAnswer, Open
  <2> QED
    BY <1>7, <2>1, HearsList, HearsAdd, HearsRate, HearsBan, HearsDelete DEF HearAnswer
<1>8. ASSUME NEW n \in Lines, HearFailure(n) PROVE HistoryInv'
  BY <1>8, HearsFailure DEF HearFailure
<1>9. CASE UNCHANGED historyVars
  BY <1>9, HistoryTurns DEF historyVars, HistoryInv, HistoryShape
<1> QED
  BY <1>1, <1>2, <1>3, <1>4, <1>5, <1>6, <1>7, <1>8, <1>9 DEF HistoryNext

\* When nothing is under way, the section shows the gifts and ratings of the
\* API, for any gifts, any number of requests at once and any order of their
\* answers, unless an answer was lost or requests overlapped that must not;
\* and no dialog or list waits (gift-history-section.tsx, loadGifts and the
\* dialogs' handlers).
THEOREM TheHistoryIsAsServed == HistorySpec => []HistoryAsServed
<1>1. HistoryInv => HistoryAsServed
  <2> SUFFICES ASSUME HistoryInv, Open = {}, lists > 0
               PROVE  /\ ~list.loading /\ \A k \in Kinds : ~dialogs[k].busy
                      /\ ~mixed => /\ list.shown = Matching(list.filter)
                                   /\ \A g \in list.shown : list.stars[g] = stars[g]
    BY DEF HistoryAsServed
  <2>1. ~list.loading /\ \A k \in Kinds : ~dialogs[k].busy
    <3>1. lists # 0
      BY DEF HistoryInv, HistoryShape
    <3> QED
      BY <3>1 DEF HistoryInv, WaitsAreAnswered
  <2>2. ~mixed => \A g \in Gifts : /\ g \in list.shown <=> g \in Matching(list.filter)
                                   /\ g \in list.shown => list.stars[g] = stars[g]
    BY DEF HistoryInv, ShowsButAnswers, Served
  <2>3. list.shown \subseteq Gifts /\ Matching(list.filter) \subseteq Gifts
    BY DEF HistoryInv, HistoryShape, Section, Matching
  <2> QED
    BY <2>1, <2>2, <2>3
<1> QED
  BY <1>1, HistoryStarts, HistoryGoesOn, PTL DEF HistorySpec

-----------------------------------------------------------------------------
(* The pages of a survey: the invariant.                                   *)

MailRow == [row : {"none", "live", "over", "answered"}, asks : SUBSET Keys, mailed : BOOLEAN]
ReplyRow == [row : {"none", "pending", "approved", "dismissed"}, says : SUBSET Keys,
             saved : SUBSET Keys, tab : Tabs \cup {NoTab}]
SheetRow == [mail : Mails \cup {NoMail}, filled : SUBSET Keys, sending : BOOLEAN,
             shows : {"nothing", "form", "thanks", "over"}, told : {"none", "completed", "expired", "again"}]

PageTypes ==
  /\ mail \in [Mails -> MailRow] /\ reply \in [Replies -> ReplyRow]
  /\ section \in [cards : SUBSET Replies, ticks : [Replies -> SUBSET Keys], busy : SUBSET Replies, loading : BOOLEAN]
  /\ dialog \in [on : BOOLEAN, questions : SUBSET Keys, sending : BOOLEAN]
  /\ sheet \in [Tabs -> SheetRow] /\ trip \in [Trips -> Trip]
  /\ mind \in [Replies -> SUBSET Keys] /\ meant \in [Replies -> SUBSET Keys]
  /\ pressed \in 0 .. MaxPressed /\ fetches \in 0 .. MaxFetches
  /\ broken \in BOOLEAN /\ outrun \in BOOLEAN /\ reticked \in BOOLEAN

Waits(n) == trip[n].pc # "idle" /\ ~trip[n].deaf
Reviewed(r) == \E n \in Trips : trip[n].kind = "review" /\ trip[n].reply = r /\ trip[n].pc = "served"
HasOne(f) == \E r \in Replies : reply[r].tab = f
HasAnswer(l) == \E r \in Replies : reply[r].tab # NoTab /\ sheet[reply[r].tab].mail = l

\* A call is what its page has asked for, and nobody is deaf before something broke.
TripFits(n) ==
  LET t == trip[n] IN
  /\ t.kind = "review" => t.reply \in Replies /\ reply[t.reply].row # "none"
       /\ t.keys \subseteq reply[t.reply].says
  /\ t.kind = "submit" => t.tab \in Tabs /\ sheet[t.tab].shows # "nothing"
  /\ t.kind = "send" /\ t.pc = "made" => t.mail \in Mails
  /\ t.pc \in {"read", "made"} => t.kind # "load"
  /\ t.pc = "read" => t.kind = "review"
  /\ t.kind = "review" /\ t.pc = "made" => t.accept
  /\ t.pc \in {"completed", "expired"} => t.kind = "submit"
  /\ t.view # {} => t.kind = "load"
  /\ t.deaf => broken /\ t.pc \in {"sent", "read", "made"} /\ t.kind # "load"

TripsFit == \A n \in Trips : TripFits(n)

\* A busy button waits for exactly one call.
OneTripEach ==
  /\ \A n \in Trips : Waits(n) =>
       /\ trip[n].kind = "review" => trip[n].reply \in section.busy
       /\ trip[n].kind = "send" => dialog.sending
       /\ trip[n].kind = "submit" => sheet[trip[n].tab].sending
  /\ \A n, m \in Trips : Waits(n) /\ Waits(m) /\ trip[n].kind = trip[m].kind =>
       /\ trip[n].kind = "review" /\ trip[n].reply = trip[m].reply => n = m
       /\ trip[n].kind = "send" => n = m
       /\ trip[n].kind = "submit" /\ trip[n].tab = trip[m].tab => n = m

BusyWaits ==
  /\ \A r \in section.busy : \E n \in Trips : Waits(n) /\ trip[n].kind = "review" /\ trip[n].reply = r
  /\ dialog.sending => \E n \in Trips : Waits(n) /\ trip[n].kind = "send"
  /\ \A f \in Tabs : sheet[f].sending => \E n \in Trips : Waits(n) /\ trip[n].kind = "submit"
       /\ trip[n].tab = f

\* What is listed is there, and is pending or about to go.
Listed(r) == reply[r].row # "none" /\ (reply[r].row = "pending" \/ broken \/ outrun \/ Reviewed(r))

ListsHold ==
  /\ \A r \in section.cards : Listed(r) /\ section.ticks[r] \subseteq reply[r].says
                              /\ (reticked \/ section.ticks[r] = mind[r])
  /\ \A n \in Trips : \A r \in trip[n].view : Listed(r)

\* While nothing broke, one review at a time works on a response.
ReviewHolds(n) ==
  LET t == trip[n] IN
  t.kind = "review" =>
    /\ t.pc \in {"read", "made"} => reply[t.reply].row = "pending"
    /\ t.pc = "made" => reply[t.reply].saved = t.keys
    /\ t.pc \in {"sent", "read", "made"} /\ t.accept => t.keys = meant[t.reply] \/ outrun \/ reticked

SavedHolds(r) ==
  /\ reply[r].row \in {"none", "dismissed"} => reply[r].saved = {}
  /\ reply[r].row = "pending" =>
       \/ reply[r].saved = {}
       \/ \E n \in Trips : trip[n].kind = "review" /\ trip[n].reply = r /\ trip[n].pc = "made"
  /\ reply[r].row = "approved" => reply[r].saved = meant[r] \/ outrun \/ reticked

ReviewsHold == ~broken => (\A n \in Trips : ReviewHolds(n)) /\ (\A r \in Replies : SavedHolds(r))

\* Whose form has an answer, and which link.
SentFromForms ==
  \A r \in Replies : /\ reply[r].row = "none" => reply[r].tab = NoTab
                     /\ reply[r].tab # NoTab => sheet[reply[r].tab].shows # "nothing"

FormsKnow ==
  \A f \in Tabs : /\ sheet[f].shows # "nothing" => sheet[f].mail \in Mails
                  /\ sheet[f].told = "completed" => HasAnswer(sheet[f].mail)
                  /\ sheet[f].shows = "thanks" => HasOne(f)

AnsweredMails == \A l \in Mails : mail[l].row = "answered" => HasAnswer(l)

SubmitsKnow ==
  \A n \in Trips : trip[n].kind = "submit" =>
    /\ trip[n].pc = "completed" => HasAnswer(sheet[trip[n].tab].mail)
    /\ trip[n].pc \in {"made", "served"} => HasOne(trip[n].tab)

\* Whose form has none, as long as nothing broke.
FormsAlone ==
  ~broken =>
    /\ \A n \in Trips : trip[n].kind = "submit"
         /\ trip[n].pc \in {"sent", "refused", "completed", "expired"} =>
         ~HasOne(trip[n].tab)
    /\ \A f \in Tabs : /\ \A r, q \in Replies : reply[r].tab = f /\ reply[q].tab = f => r = q
                       /\ HasOne(f) => sheet[f].shows = "thanks" \/ sheet[f].sending

PagesInv ==
  /\ PageTypes /\ TripsFit /\ OneTripEach /\ BusyWaits /\ ListsHold /\ ReviewsHold
  /\ SentFromForms /\ FormsKnow /\ AnsweredMails /\ SubmitsKnow /\ FormsAlone

-----------------------------------------------------------------------------
(* The pages of a survey: what a step leaves.                              *)

\* A call alone changes, to t.
TurnsTo(n, t) ==
  /\ trip' \in [Trips -> Trip] /\ trip'[n] = t
  /\ \A m \in Trips : m # n => trip'[m] = trip[m]

Idle(t) == t.kind = "load" /\ t.pc = "idle" /\ ~t.deaf /\ t.view = {}

\* t is the call n, further on.
Onward(n, t, pc) ==
  /\ t.kind = trip[n].kind /\ t.pc = pc /\ t.deaf = trip[n].deaf /\ t.reply = trip[n].reply
  /\ t.accept = trip[n].accept /\ t.keys = trip[n].keys /\ t.view = trip[n].view /\ t.tab = trip[n].tab
  /\ t.mail = trip[n].mail

Pcs == {"idle", "sent", "read", "made", "served", "refused", "completed", "expired"}

LEMMA NoTripIsIdle == NoTrip \in Trip /\ Idle(NoTrip)
BY DEF NoTrip, Trip, Idle

LEMMA TripTurns ==
  ASSUME PageTypes, NEW n \in Trips, NEW t \in Trip, trip' = [trip EXCEPT ![n] = t]
  PROVE  TurnsTo(n, t)
BY DEF PageTypes, TurnsTo

LEMMA OnwardIsATrip ==
  ASSUME PageTypes, NEW n \in Trips, NEW pc \in Pcs
  PROVE  \E t \in Trip : t = [trip[n] EXCEPT !.pc = pc] /\ Onward(n, t, pc)
<1> DEFINE t == [trip[n] EXCEPT !.pc = pc]
<1>1. trip[n] \in Trip
  BY DEF PageTypes
<1>2. t \in Trip /\ Onward(n, t, pc)
  BY <1>1 DEF Trip, Onward, Pcs
<1> QED
  BY <1>2

LEMMA GoesOnMoves ==
  ASSUME PageTypes, NEW n \in Trips, NEW pc \in Pcs, GoesOn(n, pc)
  PROVE  \E t \in Trip : TurnsTo(n, t) /\ Onward(n, t, pc)
<1>1. PICK t \in Trip : t = [trip[n] EXCEPT !.pc = pc] /\ Onward(n, t, pc)
  BY OnwardIsATrip
<1>2. trip' = [trip EXCEPT ![n] = t]
  BY <1>1 DEF GoesOn
<1> QED
  BY <1>1, <1>2, TripTurns

LEMMA EndsMoves ==
  ASSUME PageTypes, NEW n \in Trips, NEW pc \in Pcs, Ends(n, pc)
  PROVE  \E t \in Trip : TurnsTo(n, t) /\ (IF trip[n].deaf THEN Idle(t) ELSE Onward(n, t, pc))
<1>1. CASE trip[n].deaf
  <2>1. trip' = [trip EXCEPT ![n] = NoTrip]
    BY <1>1 DEF Ends
  <2> QED
    BY <1>1, <2>1, TripTurns, NoTripIsIdle
<1>2. CASE ~trip[n].deaf
  <2>1. PICK t \in Trip : t = [trip[n] EXCEPT !.pc = pc] /\ Onward(n, t, pc)
    BY OnwardIsATrip
  <2>2. trip' = [trip EXCEPT ![n] = t]
    BY <1>2, <2>1 DEF Ends
  <2> QED
    BY <1>2, <2>1, <2>2, TripTurns
<1> QED
  BY <1>1, <1>2

LEMMA CallsFree ==
  ASSUME PageTypes, NEW call \in Trip, Calls(call)
  PROVE  \E n \in Trips : trip[n].pc = "idle" /\ TurnsTo(n, call)
<1>1. FreeTrip \in Trips /\ trip[FreeTrip].pc = "idle"
  BY DEF Calls, FreeTrip, OnTrip
<1>2. trip' = [trip EXCEPT ![FreeTrip] = call]
  BY DEF Calls
<1> QED
  BY <1>1, <1>2, TripTurns

\* One response changes, but neither what it says nor who has sent it.
Rewrites(r, to, saved) ==
  /\ reply' \in [Replies -> ReplyRow]
  /\ \A q \in Replies : q # r => reply'[q] = reply[q]
  /\ reply'[r].row = to /\ reply'[r].saved = saved /\ reply'[r].says = reply[r].says
       /\ reply'[r].tab = reply[r].tab

LEMMA RowChanges ==
  ASSUME PageTypes, NEW r \in Replies, NEW to \in {"none", "pending", "approved", "dismissed"},
         reply' = [reply EXCEPT ![r].row = to]
  PROVE  Rewrites(r, to, reply[r].saved)
<1> DEFINE x == [reply[r] EXCEPT !.row = to]
<1>1. reply[r] \in ReplyRow
  BY DEF PageTypes
<1>2. x \in ReplyRow /\ x.row = to /\ x.saved = reply[r].saved /\ x.says = reply[r].says
        /\ x.tab = reply[r].tab
  BY <1>1 DEF ReplyRow
<1>3. reply' = [reply EXCEPT ![r] = x]
  OBVIOUS
<1> QED
  BY <1>2, <1>3 DEF PageTypes, Rewrites

LEMMA SavedChanges ==
  ASSUME PageTypes, NEW r \in Replies, NEW keys \in SUBSET Keys,
         reply' = [reply EXCEPT ![r].saved = @ \cup (keys \cap reply[r].says)]
  PROVE  Rewrites(r, reply[r].row, reply[r].saved \cup (keys \cap reply[r].says))
<1> DEFINE s == reply[r].saved \cup (keys \cap reply[r].says)
           x == [reply[r] EXCEPT !.saved = s]
<1>1. reply[r] \in ReplyRow
  BY DEF PageTypes
<1>2. s \in SUBSET Keys
  BY <1>1 DEF ReplyRow
<1>3. x \in ReplyRow /\ x.row = reply[r].row /\ x.saved = s /\ x.says = reply[r].says
        /\ x.tab = reply[r].tab
  BY <1>1, <1>2 DEF ReplyRow
<1>4. reply' = [reply EXCEPT ![r] = x]
  OBVIOUS
<1> QED
  BY <1>3, <1>4 DEF PageTypes, Rewrites

\* What the API does leaves the pages alone, and what the owner has in mind of
\* a response that was there.
ServesOnly ==
  /\ UNCHANGED <<section, dialog, sheet, meant, pressed, fetches, outrun, reticked>>
  /\ mind' \in [Replies -> SUBSET Keys]
  /\ \A r \in Replies : reply[r].row # "none" => mind'[r] = mind[r]

\* As long as nothing broke one call works on a response.
LEMMA ReviewsApart ==
  ASSUME TripsFit, OneTripEach, ~broken, NEW n \in Trips, NEW m \in Trips,
         trip[n].pc # "idle", trip[m].pc # "idle", trip[n].kind = "review", trip[m].kind = "review",
         trip[n].reply = trip[m].reply
  PROVE  n = m
BY DEF TripsFit, TripFits, OneTripEach, Waits

LEMMA SubmitsApart ==
  ASSUME TripsFit, OneTripEach, ~broken, NEW n \in Trips, NEW m \in Trips,
         trip[n].pc # "idle", trip[m].pc # "idle", trip[n].kind = "submit", trip[m].kind = "submit",
         trip[n].tab = trip[m].tab
  PROVE  n = m
BY DEF TripsFit, TripFits, OneTripEach, Waits

LEMMA MailChanges ==
  ASSUME PageTypes, NEW l \in Mails, NEW to \in {"none", "live", "over", "answered"}, NEW mailed \in BOOLEAN,
         mail' = [mail EXCEPT ![l] = [row |-> to, asks |-> mail[l].asks, mailed |-> mailed]]
  PROVE  /\ mail' \in [Mails -> MailRow] /\ mail'[l].row = to
         /\ \A k \in Mails : k # l => mail'[k] = mail[k]
<1>1. mail[l].asks \in SUBSET Keys
  BY DEF PageTypes, MailRow
<1>2. [row |-> to, asks |-> mail[l].asks, mailed |-> mailed] \in MailRow
  BY <1>1 DEF MailRow
<1> QED
  BY <1>2 DEF PageTypes

LEMMA MailIsARow ==
  ASSUME PageTypes, NEW l \in Mails
  PROVE  /\ mail[l].row \in {"none", "live", "over", "answered"} /\ mail[l].mailed \in BOOLEAN
         /\ \A to : [mail[l] EXCEPT !.row = to] = [row |-> to, asks |-> mail[l].asks, mailed |-> mail[l].mailed]
         /\ \A on : [mail[l] EXCEPT !.mailed = on] = [row |-> mail[l].row, asks |-> mail[l].asks, mailed |-> on]
<1>1. mail[l] \in MailRow
  BY DEF PageTypes
<1> QED
  BY <1>1 DEF MailRow

\* What a step of the API has to show of the lists, the reviews and the forms.
LEMMA ListsStay ==
  ASSUME PageTypes, ListsHold, ServesOnly,
         \A q \in Replies : Listed(q) => Listed(q)',
         \A q \in Replies : reply[q].row # "none" => reply'[q].says = reply[q].says,
         \A m \in Trips : \A q \in trip'[m].view : q \in Replies /\ Listed(q)
  PROVE  ListsHold'
BY DEF ListsHold, ServesOnly, PageTypes, Listed

LEMMA ReviewsStay ==
  ASSUME TripsFit, OneTripEach, ReviewsHold, UNCHANGED <<meant, outrun, reticked>>, ~broken, ~broken',
         NEW n \in Trips, NEW r \in Replies, NEW t \in Trip, TurnsTo(n, t),
         trip[n].kind = "review", trip[n].reply = r, trip[n].pc # "idle",
         \A q \in Replies : q # r => reply'[q] = reply[q],
         ReviewHolds(n)', SavedHolds(r)'
  PROVE  ReviewsHold'
<1>1. ASSUME NEW m \in Trips PROVE ReviewHolds(m)'
  <2>1. CASE m = n
    BY <2>1
  <2>2. CASE m # n
    <3>1. trip'[m] = trip[m] /\ ReviewHolds(m)
      BY <2>2 DEF TurnsTo, ReviewsHold
    <3>2. trip[m].kind = "review" /\ trip[m].pc # "idle" => trip[m].reply \in Replies
            /\ trip[m].reply # r
      BY <2>2, ReviewsApart DEF TripsFit, TripFits
    <3> QED
      BY <3>1, <3>2 DEF ReviewHolds
  <2> QED
    BY <2>1, <2>2
<1>2. ASSUME NEW q \in Replies PROVE SavedHolds(q)'
  <2>1. CASE q = r
    BY <2>1
  <2>2. CASE q # r
    <3>1. reply'[q] = reply[q] /\ SavedHolds(q)
      BY <2>2 DEF ReviewsHold
    <3>2. ASSUME NEW m \in Trips, trip[m].kind = "review", trip[m].reply = q, trip[m].pc = "made"
          PROVE  trip'[m] = trip[m]
      BY <2>2, <3>2 DEF TurnsTo
    <3> QED
      BY <3>1, <3>2 DEF SavedHolds
  <2> QED
    BY <2>1, <2>2
<1> QED
  BY <1>1, <1>2 DEF ReviewsHold

\* Of a step that is about no review.
LEMMA ReviewsRest ==
  ASSUME ReviewsHold, UNCHANGED <<reply, meant, outrun, reticked>>, broken' \in BOOLEAN, broken
           => broken',
         NEW n \in Trips, NEW t \in Trip, TurnsTo(n, t),
         t.kind = "review" =>
           /\ trip[n].kind = "review" /\ t.reply = trip[n].reply /\ t.keys = trip[n].keys
                /\ t.accept = trip[n].accept
           /\ t.pc \notin {"made", "read"} /\ (t.pc = "sent" => trip[n].pc = "sent"),
         ~broken' => ~(trip[n].kind = "review" /\ trip[n].pc = "made")
  PROVE  ReviewsHold'
<1> SUFFICES ASSUME ~broken' PROVE ReviewsHold'
  BY DEF ReviewsHold
<1>1. ASSUME NEW m \in Trips PROVE ReviewHolds(m)'
  <2>1. CASE m = n
    BY <2>1 DEF TurnsTo, ReviewsHold, ReviewHolds
  <2>2. CASE m # n
    BY <2>2 DEF TurnsTo, ReviewsHold, ReviewHolds
  <2> QED
    BY <2>1, <2>2
<1>2. ASSUME NEW q \in Replies PROVE SavedHolds(q)'
  <2>1. SavedHolds(q)
    BY DEF ReviewsHold
  <2>2. ASSUME NEW m \in Trips, trip[m].kind = "review", trip[m].reply = q, trip[m].pc = "made"
        PROVE  trip'[m] = trip[m]
    BY <2>2 DEF TurnsTo
  <2> QED
    BY <2>1, <2>2 DEF SavedHolds
<1> QED
  BY <1>1, <1>2 DEF ReviewsHold

LEMMA FormsStay ==
  ASSUME FormsAlone, UNCHANGED sheet, broken => broken',
         \A q \in Replies : reply'[q].tab = reply[q].tab,
         \A m \in Trips : trip'[m].kind = "submit"
           /\ trip'[m].pc \in {"sent", "refused", "completed", "expired"} =>
           \/ broken'
           \/ /\ trip[m].kind = "submit" /\ trip[m].pc \in {"sent", "refused", "completed", "expired"}
              /\ trip'[m].tab = trip[m].tab
  PROVE  FormsAlone'
<1> SUFFICES ASSUME ~broken' PROVE FormsAlone'
  BY DEF FormsAlone
<1>1. \A f : HasOne(f)' <=> HasOne(f)
  BY DEF HasOne
<1>2. \A n \in Trips : trip'[n].kind = "submit"
        /\ trip'[n].pc \in {"sent", "refused", "completed", "expired"} =>
         ~HasOne(trip'[n].tab)
  BY DEF FormsAlone
<1>3. \A f \in Tabs : /\ \A r, q \in Replies : reply'[r].tab = f /\ reply'[q].tab = f => r = q
                      /\ HasOne(f) => sheet'[f].shows = "thanks" \/ sheet'[f].sending
  BY DEF FormsAlone
<1> QED
  BY <1>1, <1>2, <1>3 DEF FormsAlone

LEMMA ListMoves ==
  ASSUME PageTypes, NEW n \in Trips, NEW view \in SUBSET Replies,
         trip' = [trip EXCEPT ![n].pc = "served", ![n].view = view]
  PROVE  /\ trip' \in [Trips -> Trip] /\ trip'[n].pc = "served" /\ trip'[n].kind = trip[n].kind
         /\ trip'[n].deaf = trip[n].deaf /\ trip'[n].view = view
         /\ \A m \in Trips : m # n => trip'[m] = trip[m]
<1> DEFINE t == [trip[n] EXCEPT !.pc = "served", !.view = view]
<1>1. trip[n] \in Trip
  BY DEF PageTypes
<1>2. t \in Trip /\ t.pc = "served" /\ t.kind = trip[n].kind /\ t.deaf = trip[n].deaf /\ t.view = view
  BY <1>1 DEF Trip
<1>3. trip' = [trip EXCEPT ![n] = t]
  OBVIOUS
<1> QED
  BY <1>2, <1>3, TripTurns DEF TurnsTo

\* The form of a response stays, and so does what its page shows.
TabsStand ==
  \A q \in Replies : reply[q].tab # NoTab =>
    /\ reply'[q].tab = reply[q].tab
    /\ sheet'[reply[q].tab].mail = sheet[reply[q].tab].mail

LEMMA KnownStays ==
  ASSUME FormsKnow, UNCHANGED sheet, TabsStand
  PROVE  FormsKnow'
<1>1. NoTab \notin Tabs
  BY SurveyPagesAssumption DEF SurveyPagesAssumption
<1> QED
  BY <1>1 DEF FormsKnow, HasOne, HasAnswer, TabsStand

LEMMA AnsweredStays ==
  ASSUME AnsweredMails, UNCHANGED mail, TabsStand
  PROVE  AnsweredMails'
BY DEF AnsweredMails, HasAnswer, TabsStand

\* The call n turns to t.
LEMMA SubmitsStay ==
  ASSUME SubmitsKnow, TripsFit, TabsStand, NEW n \in Trips, NEW t \in Trip, TurnsTo(n, t),
         \A m \in Trips : trip[m].kind = "submit" => sheet'[trip[m].tab].mail = sheet[trip[m].tab].mail,
         t.kind = "submit" /\ t.pc = "completed" =>
           \E q \in Replies : reply'[q].tab # NoTab /\ sheet'[reply'[q].tab].mail = sheet'[t.tab].mail,
         t.kind = "submit" /\ t.pc \in {"made", "served"} => \E q \in Replies : reply'[q].tab = t.tab
  PROVE  SubmitsKnow'
<1>1. NoTab \notin Tabs
  BY SurveyPagesAssumption DEF SurveyPagesAssumption
<1>2. ASSUME NEW m \in Trips, m # n, trip'[m].kind = "submit", trip'[m].pc = "completed"
      PROVE  \E q \in Replies : reply'[q].tab # NoTab
        /\ sheet'[reply'[q].tab].mail = sheet'[trip'[m].tab].mail
  BY <1>2 DEF SubmitsKnow, HasAnswer, TurnsTo, TabsStand
<1>3. ASSUME NEW m \in Trips, m # n, trip'[m].kind = "submit", trip'[m].pc \in {"made", "served"}
      PROVE  \E q \in Replies : reply'[q].tab = trip'[m].tab
  BY <1>1, <1>3 DEF SubmitsKnow, HasOne, TurnsTo, TabsStand, TripsFit, TripFits
<1> QED
  BY <1>2, <1>3 DEF SubmitsKnow, HasOne, HasAnswer, TurnsTo

\* An answer is heard, or nobody waits for it any more.
Heard(n) ==
  /\ ~trip[n].deaf /\ TurnsTo(n, NoTrip)
  /\ UNCHANGED <<mail, reply, mind, meant, pressed, fetches, broken>>

Deafened(n, t) ==
  /\ trip[n].kind # "load" /\ trip[n].pc \in {"sent", "read", "made"}
  /\ t.kind = trip[n].kind /\ t.pc = trip[n].pc /\ t.deaf /\ t.reply = trip[n].reply
  /\ t.accept = trip[n].accept /\ t.keys = trip[n].keys /\ t.view = trip[n].view /\ t.tab = trip[n].tab
  /\ t.mail = trip[n].mail

Missed(n, t) ==
  /\ ~trip[n].deaf /\ trip[n].pc # "idle" /\ TurnsTo(n, t)
  /\ UNCHANGED <<mail, reply, mind, meant, pressed, fetches>>
  /\ broken' \in BOOLEAN /\ (broken => broken')
  /\ Idle(t) \/ (broken' /\ Deafened(n, t))
  /\ broken' \/ trip[n].pc \in {"sent", "refused"} \/ trip[n].kind = "load"

\* A form alone changes, and stays of its link.
LEMMA KnownOfOne ==
  ASSUME FormsKnow, SentFromForms, PageTypes, UNCHANGED reply, NEW f \in Tabs, sheet[f].shows # "nothing",
         \A g \in Tabs : sheet'[g].mail = sheet[g].mail,
         \A g \in Tabs : g # f => sheet'[g] = sheet[g],
         sheet'[f].told = "completed" => HasAnswer(sheet[f].mail),
         sheet'[f].shows = "thanks" => HasOne(f)
  PROVE  FormsKnow'
<1>1. \A q \in Replies : reply[q].tab # NoTab => reply[q].tab \in Tabs
  BY DEF PageTypes, ReplyRow
<1>2. \A g \in Tabs : sheet'[g].told = "completed" => HasAnswer(sheet[g].mail)
  BY DEF FormsKnow
<1>3. ASSUME NEW g \in Tabs, sheet'[g].told = "completed"
      PROVE  \E q \in Replies : reply'[q].tab # NoTab /\ sheet'[reply'[q].tab].mail = sheet'[g].mail
  BY <1>1, <1>2, <1>3 DEF HasAnswer
<1>4. ASSUME NEW g \in Tabs
      PROVE  /\ sheet'[g].shows # "nothing" => sheet'[g].mail \in Mails
             /\ sheet'[g].shows = "thanks" => \E q \in Replies : reply'[q].tab = g
  BY DEF FormsKnow, HasOne
<1> QED
  BY <1>3, <1>4 DEF FormsKnow, HasOne, HasAnswer

-----------------------------------------------------------------------------
(* The pages of a survey: the API.                                         *)

LEMMA DismissKeeps ==
  ASSUME PagesInv, NEW n \in Trips, ServesOnly, DismissReply(n)
  PROVE  PagesInv'
<1>0. PageTypes /\ TripsFit /\ OneTripEach /\ BusyWaits /\ ListsHold /\ ReviewsHold
      /\ SentFromForms /\ FormsKnow /\ AnsweredMails /\ SubmitsKnow /\ FormsAlone
  BY DEF PagesInv
<1>1. trip[n].kind = "review" /\ trip[n].pc = "read" /\ trip[n].reply \in Replies
        /\ UNCHANGED <<mail, broken>>
  BY <1>0 DEF DismissReply, TripsFit, TripFits
<1>2. PICK r \in Replies : r = trip[n].reply
  BY <1>1
<1>3. Rewrites(r, "dismissed", reply[r].saved)
  BY <1>0, <1>1, <1>2, RowChanges DEF DismissReply
<1>4. PICK t \in Trip : TurnsTo(n, t) /\ (IF trip[n].deaf THEN Idle(t) ELSE Onward(n, t, "served"))
  BY <1>0, EndsMoves DEF DismissReply, Pcs
<1>5. PageTypes'
  BY <1>0, <1>1, <1>3, <1>4 DEF ServesOnly, TurnsTo, Rewrites, PageTypes
<1>6. TripsFit'
  BY <1>0, <1>1, <1>3, <1>4 DEF ServesOnly, TurnsTo, Idle, Onward, Rewrites, TripsFit, TripFits
<1>7. OneTripEach'
  BY <1>0, <1>1, <1>4 DEF ServesOnly, TurnsTo, Idle, Onward, OneTripEach, Waits
<1>8. BusyWaits'
  BY <1>0, <1>4 DEF ServesOnly, TurnsTo, Onward, BusyWaits, Waits
<1>9. ListsHold'
  <2>1. ASSUME NEW q \in Replies, Listed(q) PROVE Listed(q)'
    <3>1. CASE q = r
      BY <1>0, <1>1, <1>2, <1>3, <1>4, <3>1 DEF TurnsTo, Onward, Rewrites, Listed, Reviewed,
         TripsFit, TripFits
    <3>2. CASE q # r
      BY <1>1, <1>3, <1>4, <2>1, <3>2 DEF ServesOnly, TurnsTo, Rewrites, Listed, Reviewed
    <3> QED
      BY <3>1, <3>2
  <2>2. \A q \in Replies : reply[q].row # "none" => reply'[q].says = reply[q].says
    BY <1>3 DEF Rewrites
  <2>3. \A m \in Trips : \A q \in trip'[m].view : q \in Replies /\ Listed(q)
    BY <1>0, <1>4 DEF TurnsTo, Idle, Onward, ListsHold, Trip
  <2> QED
    BY <1>0, <2>1, <2>2, <2>3, ListsStay
<1>10. ReviewsHold'
  <2> SUFFICES ASSUME ~broken' PROVE ReviewsHold'
    BY DEF ReviewsHold
  <2>1. ~broken /\ ~trip[n].deaf /\ ReviewHolds(n) /\ SavedHolds(r)
    BY <1>0, <1>1 DEF TripsFit, TripFits, ReviewsHold
  <2>0. trip[n].pc = "read" => reply[r].saved = {}
    BY <1>0, <1>1, <1>2, <2>1, ReviewsApart DEF ReviewHolds, SavedHolds
  <2>2. ReviewHolds(n)'
    BY <1>4, <2>1 DEF ReviewHolds, TurnsTo, Onward
  <2>3. SavedHolds(r)'
    BY <1>1, <1>3, <2>0 DEF SavedHolds, Rewrites
  <2>4. \A q \in Replies : q # r => reply'[q] = reply[q]
    BY <1>3 DEF Rewrites
  <2>5. UNCHANGED <<meant, outrun, reticked>>
    BY DEF ServesOnly
  <2> QED
    BY <1>0, <1>1, <1>2, <1>4, <2>2, <2>3, <2>4, <2>5, ReviewsStay
<1>11. SentFromForms'
  BY <1>0, <1>3 DEF ServesOnly, Rewrites, SentFromForms
<1>12. FormsKnow'
  BY <1>0, <1>3 DEF ServesOnly, Rewrites, FormsKnow, HasOne, HasAnswer
<1>13. AnsweredMails'
  BY <1>0, <1>1, <1>3 DEF ServesOnly, Rewrites, AnsweredMails, HasAnswer
<1>14. SubmitsKnow'
  BY <1>0, <1>1, <1>2, <1>3, <1>4 DEF ServesOnly, TurnsTo, Idle, Onward, Rewrites, SubmitsKnow,
     HasOne, HasAnswer
<1>15. FormsAlone'
  <2>1. \A q \in Replies : reply'[q].tab = reply[q].tab
    BY <1>3 DEF Rewrites
  <2>2. \A m \in Trips : trip'[m].kind = "submit"
          /\ trip'[m].pc \in {"sent", "refused", "completed", "expired"} =>
           \/ broken'
           \/ /\ trip[m].kind = "submit" /\ trip[m].pc \in {"sent", "refused", "completed", "expired"}
              /\ trip'[m].tab = trip[m].tab
    BY <1>4 DEF TurnsTo, Idle, Onward
  <2>3. UNCHANGED sheet /\ (broken => broken')
    BY <1>1 DEF ServesOnly
  <2> QED
    BY <1>0, <2>1, <2>2, <2>3, FormsStay
<1> QED
  BY <1>5, <1>6, <1>7, <1>8, <1>9, <1>10, <1>11, <1>12, <1>13, <1>14, <1>15 DEF PagesInv

LEMMA ApproveKeeps ==
  ASSUME PagesInv, NEW n \in Trips, ServesOnly, ApproveReply(n)
  PROVE  PagesInv'
<1>0. PageTypes /\ TripsFit /\ OneTripEach /\ BusyWaits /\ ListsHold /\ ReviewsHold
      /\ SentFromForms /\ FormsKnow /\ AnsweredMails /\ SubmitsKnow /\ FormsAlone
  BY DEF PagesInv
<1>1. trip[n].kind = "review" /\ trip[n].pc = "made" /\ trip[n].reply \in Replies
        /\ UNCHANGED <<mail, broken>>
  BY <1>0 DEF ApproveReply, TripsFit, TripFits
<1>2. PICK r \in Replies : r = trip[n].reply
  BY <1>1
<1>3. Rewrites(r, "approved", reply[r].saved)
  BY <1>0, <1>1, <1>2, RowChanges DEF ApproveReply
<1>4. PICK t \in Trip : TurnsTo(n, t) /\ (IF trip[n].deaf THEN Idle(t) ELSE Onward(n, t, "served"))
  BY <1>0, EndsMoves DEF ApproveReply, Pcs
<1>5. PageTypes'
  BY <1>0, <1>1, <1>3, <1>4 DEF ServesOnly, TurnsTo, Rewrites, PageTypes
<1>6. TripsFit'
  BY <1>0, <1>1, <1>3, <1>4 DEF ServesOnly, TurnsTo, Idle, Onward, Rewrites, TripsFit, TripFits
<1>7. OneTripEach'
  BY <1>0, <1>1, <1>4 DEF ServesOnly, TurnsTo, Idle, Onward, OneTripEach, Waits
<1>8. BusyWaits'
  BY <1>0, <1>4 DEF ServesOnly, TurnsTo, Onward, BusyWaits, Waits
<1>9. ListsHold'
  <2>1. ASSUME NEW q \in Replies, Listed(q) PROVE Listed(q)'
    <3>1. CASE q = r
      BY <1>0, <1>1, <1>2, <1>3, <1>4, <3>1 DEF TurnsTo, Onward, Rewrites, Listed, Reviewed,
         TripsFit, TripFits
    <3>2. CASE q # r
      BY <1>1, <1>3, <1>4, <2>1, <3>2 DEF ServesOnly, TurnsTo, Rewrites, Listed, Reviewed
    <3> QED
      BY <3>1, <3>2
  <2>2. \A q \in Replies : reply[q].row # "none" => reply'[q].says = reply[q].says
    BY <1>3 DEF Rewrites
  <2>3. \A m \in Trips : \A q \in trip'[m].view : q \in Replies /\ Listed(q)
    BY <1>0, <1>4 DEF TurnsTo, Idle, Onward, ListsHold, Trip
  <2> QED
    BY <1>0, <2>1, <2>2, <2>3, ListsStay
<1>10. ReviewsHold'
  <2> SUFFICES ASSUME ~broken' PROVE ReviewsHold'
    BY DEF ReviewsHold
  <2>1. ~broken /\ ~trip[n].deaf /\ ReviewHolds(n) /\ SavedHolds(r)
    BY <1>0, <1>1 DEF TripsFit, TripFits, ReviewsHold
  <2>2. ReviewHolds(n)'
    BY <1>4, <2>1 DEF ReviewHolds, TurnsTo, Onward
  <2>3. SavedHolds(r)'
    BY <1>0, <1>1, <1>2, <1>3, <2>1 DEF ReviewHolds, SavedHolds, Rewrites, ServesOnly, TripsFit, TripFits
  <2>4. \A q \in Replies : q # r => reply'[q] = reply[q]
    BY <1>3 DEF Rewrites
  <2>5. UNCHANGED <<meant, outrun, reticked>>
    BY DEF ServesOnly
  <2> QED
    BY <1>0, <1>1, <1>2, <1>4, <2>2, <2>3, <2>4, <2>5, ReviewsStay
<1>11. SentFromForms'
  BY <1>0, <1>3 DEF ServesOnly, Rewrites, SentFromForms
<1>12. FormsKnow'
  BY <1>0, <1>3 DEF ServesOnly, Rewrites, FormsKnow, HasOne, HasAnswer
<1>13. AnsweredMails'
  BY <1>0, <1>1, <1>3 DEF ServesOnly, Rewrites, AnsweredMails, HasAnswer
<1>14. SubmitsKnow'
  BY <1>0, <1>1, <1>2, <1>3, <1>4 DEF ServesOnly, TurnsTo, Idle, Onward, Rewrites, SubmitsKnow,
     HasOne, HasAnswer
<1>15. FormsAlone'
  <2>1. \A q \in Replies : reply'[q].tab = reply[q].tab
    BY <1>3 DEF Rewrites
  <2>2. \A m \in Trips : trip'[m].kind = "submit"
          /\ trip'[m].pc \in {"sent", "refused", "completed", "expired"} =>
           \/ broken'
           \/ /\ trip[m].kind = "submit" /\ trip[m].pc \in {"sent", "refused", "completed", "expired"}
              /\ trip'[m].tab = trip[m].tab
    BY <1>4 DEF TurnsTo, Idle, Onward
  <2>3. UNCHANGED sheet /\ (broken => broken')
    BY <1>1 DEF ServesOnly
  <2> QED
    BY <1>0, <2>1, <2>2, <2>3, FormsStay
<1> QED
  BY <1>5, <1>6, <1>7, <1>8, <1>9, <1>10, <1>11, <1>12, <1>13, <1>14, <1>15 DEF PagesInv

LEMMA SaveKeeps ==
  ASSUME PagesInv, NEW n \in Trips, ServesOnly, SaveReply(n)
  PROVE  PagesInv'
<1>0. PageTypes /\ TripsFit /\ OneTripEach /\ BusyWaits /\ ListsHold /\ ReviewsHold
      /\ SentFromForms /\ FormsKnow /\ AnsweredMails /\ SubmitsKnow /\ FormsAlone
  BY DEF PagesInv
<1>1. trip[n].kind = "review" /\ trip[n].pc = "read" /\ trip[n].accept
        /\ trip[n].reply \in Replies /\ UNCHANGED <<mail, broken>>
  BY <1>0 DEF SaveReply, TripsFit, TripFits
<1>2. PICK r \in Replies : r = trip[n].reply
  BY <1>1
<1>3. trip[n].keys \in SUBSET Keys /\ trip[n].keys \subseteq reply[r].says
  BY <1>0, <1>1, <1>2 DEF PageTypes, Trip, TripsFit, TripFits
<1>4. Rewrites(r, reply[r].row, reply[r].saved \cup (trip[n].keys \cap reply[r].says))
  BY <1>0, <1>1, <1>2, <1>3, SavedChanges DEF SaveReply
<1>5. PICK t \in Trip : TurnsTo(n, t) /\ Onward(n, t, "made")
  BY <1>0, GoesOnMoves DEF SaveReply, Pcs
<1>6. PageTypes'
  BY <1>0, <1>1, <1>4, <1>5 DEF ServesOnly, TurnsTo, Rewrites, PageTypes
<1>7. TripsFit'
  <2>1. \A q \in Replies : reply'[q].says = reply[q].says
          /\ (reply'[q].row = "none" <=> reply[q].row = "none")
    BY <1>4 DEF Rewrites
  <2>2. ASSUME NEW m \in Trips PROVE TripFits(m)'
    <3>1. TripFits(m) /\ TripFits(n)
      BY <1>0 DEF TripsFit
    <3>2. CASE m = n
      BY <1>0, <1>1, <1>2, <1>3, <1>4, <1>5, <2>1, <3>1, <3>2 DEF ServesOnly, TurnsTo, Onward, TripFits
    <3>3. CASE m # n
      BY <1>1, <1>5, <2>1, <3>1, <3>3 DEF ServesOnly, TurnsTo, TripFits
    <3> QED
      BY <3>2, <3>3
  <2> QED
    BY <2>2 DEF TripsFit
<1>8. OneTripEach'
  BY <1>0, <1>1, <1>5 DEF ServesOnly, TurnsTo, Onward, OneTripEach, Waits
<1>9. BusyWaits'
  BY <1>0, <1>5 DEF ServesOnly, TurnsTo, Onward, BusyWaits, Waits
<1>10. ListsHold'
  <2>1. ASSUME NEW q \in Replies, Listed(q) PROVE Listed(q)'
    <3>1. CASE q = r
      BY <1>1, <1>4, <1>5, <2>1 DEF ServesOnly, TurnsTo, Rewrites, Listed, Reviewed
    <3>2. CASE q # r
      BY <1>1, <1>4, <1>5, <2>1 DEF ServesOnly, TurnsTo, Rewrites, Listed, Reviewed
    <3> QED
      BY <3>1, <3>2
  <2>2. \A q \in Replies : reply[q].row # "none" => reply'[q].says = reply[q].says
    BY <1>4 DEF Rewrites
  <2>3. \A m \in Trips : \A q \in trip'[m].view : q \in Replies /\ Listed(q)
    BY <1>0, <1>5 DEF TurnsTo, Onward, ListsHold, Trip
  <2> QED
    BY <1>0, <2>1, <2>2, <2>3, ListsStay
<1>11. ReviewsHold'
  <2> SUFFICES ASSUME ~broken' PROVE ReviewsHold'
    BY DEF ReviewsHold
  <2>1. ~broken /\ ~trip[n].deaf /\ ReviewHolds(n) /\ SavedHolds(r)
    BY <1>0, <1>1 DEF TripsFit, TripFits, ReviewsHold
  <2>0. trip[n].pc = "read" => reply[r].saved = {}
    BY <1>0, <1>1, <1>2, <2>1, ReviewsApart DEF ReviewHolds, SavedHolds
  <2>2. ReviewHolds(n)'
    BY <1>0, <1>1, <1>2, <1>3, <1>4, <1>5, <2>1, <2>0 DEF ReviewHolds, TurnsTo, Onward, Rewrites,
       ServesOnly
  <2>3. SavedHolds(r)'
    BY <1>1, <1>2, <1>4, <1>5, <2>1 DEF ReviewHolds, SavedHolds, TurnsTo, Onward, Rewrites
  <2>4. \A q \in Replies : q # r => reply'[q] = reply[q]
    BY <1>4 DEF Rewrites
  <2>5. UNCHANGED <<meant, outrun, reticked>>
    BY DEF ServesOnly
  <2> QED
    BY <1>0, <1>1, <1>2, <1>5, <2>2, <2>3, <2>4, <2>5, ReviewsStay
<1>12. SentFromForms'
  BY <1>0, <1>4 DEF ServesOnly, Rewrites, SentFromForms
<1>13. FormsKnow'
  BY <1>0, <1>4 DEF ServesOnly, Rewrites, FormsKnow, HasOne, HasAnswer
<1>14. AnsweredMails'
  BY <1>0, <1>1, <1>4 DEF ServesOnly, Rewrites, AnsweredMails, HasAnswer
<1>15. SubmitsKnow'
  BY <1>0, <1>1, <1>2, <1>4, <1>5 DEF ServesOnly, TurnsTo, Onward, Rewrites, SubmitsKnow, HasOne,
     HasAnswer
<1>16. FormsAlone'
  <2>1. \A q \in Replies : reply'[q].tab = reply[q].tab
    BY <1>4 DEF Rewrites
  <2>2. \A m \in Trips : trip'[m].kind = "submit"
          /\ trip'[m].pc \in {"sent", "refused", "completed", "expired"} =>
           \/ broken'
           \/ /\ trip[m].kind = "submit" /\ trip[m].pc \in {"sent", "refused", "completed", "expired"}
              /\ trip'[m].tab = trip[m].tab
    BY <1>5 DEF TurnsTo, Onward
  <2>3. UNCHANGED sheet /\ (broken => broken')
    BY <1>1 DEF ServesOnly
  <2> QED
    BY <1>0, <2>1, <2>2, <2>3, FormsStay
<1> QED
  BY <1>6, <1>7, <1>8, <1>9, <1>10, <1>11, <1>12, <1>13, <1>14, <1>15, <1>16 DEF PagesInv

LEMMA RefuseKeeps ==
  ASSUME PagesInv, NEW n \in Trips, ServesOnly, NEW pc \in {"refused", "completed", "expired"},
         (trip[n].kind = "review" /\ pc = "refused") \/ trip[n].kind = "submit",
         trip[n].kind = "submit" /\ pc = "completed" => mail[sheet[trip[n].tab].mail].row = "answered",
         trip[n].pc = "sent", Ends(n, pc), UNCHANGED <<mail, reply, broken>>
  PROVE  PagesInv'
<1>0. PageTypes /\ TripsFit /\ OneTripEach /\ BusyWaits /\ ListsHold /\ ReviewsHold
      /\ SentFromForms /\ FormsKnow /\ AnsweredMails /\ SubmitsKnow /\ FormsAlone
  BY DEF PagesInv
<1>1. PICK t \in Trip : TurnsTo(n, t) /\ (IF trip[n].deaf THEN Idle(t) ELSE Onward(n, t, pc))
  BY <1>0, EndsMoves DEF Pcs
<1>2. trip[n].kind = "submit" /\ pc = "completed" => HasAnswer(sheet[trip[n].tab].mail)
  BY <1>0 DEF TripsFit, TripFits, FormsKnow, AnsweredMails
<1>3. PageTypes'
  BY <1>0, <1>1 DEF ServesOnly, TurnsTo, PageTypes
<1>4. TripsFit'
  BY <1>0, <1>1 DEF ServesOnly, TurnsTo, Idle, Onward, TripsFit, TripFits
<1>5. OneTripEach'
  BY <1>0, <1>1 DEF ServesOnly, TurnsTo, Idle, Onward, OneTripEach, Waits
<1>6. BusyWaits'
  BY <1>0, <1>1 DEF ServesOnly, TurnsTo, Onward, BusyWaits, Waits
<1>7. ListsHold'
  BY <1>0, <1>1 DEF ServesOnly, TurnsTo, Idle, Onward, PageTypes, ListsHold, Listed, Reviewed, TripsFit
<1>8. ReviewsHold'
  BY <1>0, <1>1 DEF ServesOnly, TurnsTo, Onward, ReviewsHold, ReviewHolds, SavedHolds, TripsFit, TripFits
<1>9. SentFromForms'
  BY <1>0 DEF ServesOnly, SentFromForms
<1>10. FormsKnow'
  BY <1>0 DEF ServesOnly, FormsKnow, HasOne, HasAnswer
<1>11. AnsweredMails'
  BY <1>0 DEF ServesOnly, AnsweredMails, HasAnswer
<1>12. SubmitsKnow'
  BY <1>0, <1>1, <1>2 DEF ServesOnly, TurnsTo, Idle, Onward, SubmitsKnow, HasOne, HasAnswer
<1>13. FormsAlone'
  BY <1>0, <1>1 DEF ServesOnly, TurnsTo, Onward, FormsAlone, HasOne, TripsFit, TripFits
<1> QED
  BY <1>3, <1>4, <1>5, <1>6, <1>7, <1>8, <1>9, <1>10, <1>11, <1>12, <1>13 DEF PagesInv

LEMMA ReadReplyKeeps ==
  ASSUME PagesInv, NEW n \in Trips, ServesOnly, ReadReply(n), reply[trip[n].reply].row = "pending"
  PROVE  PagesInv'
<1>0. PageTypes /\ TripsFit /\ OneTripEach /\ BusyWaits /\ ListsHold /\ ReviewsHold
      /\ SentFromForms /\ FormsKnow /\ AnsweredMails /\ SubmitsKnow /\ FormsAlone
  BY DEF PagesInv
<1>1. trip[n].kind = "review" /\ trip[n].pc = "sent" /\ trip[n].reply \in Replies
        /\ UNCHANGED <<mail, reply, broken>>
  BY <1>0 DEF ReadReply, pageRows, TripsFit, TripFits
<1>2. PICK t \in Trip : TurnsTo(n, t) /\ Onward(n, t, "read")
  BY <1>0, GoesOnMoves DEF ReadReply, Pcs
<1>3. PageTypes'
  BY <1>0, <1>1, <1>2 DEF ServesOnly, TurnsTo, PageTypes
<1>4. TripsFit'
  BY <1>0, <1>1, <1>2 DEF ServesOnly, TurnsTo, Onward, TripsFit, TripFits
<1>5. OneTripEach'
  BY <1>0, <1>1, <1>2 DEF ServesOnly, TurnsTo, Onward, OneTripEach, Waits
<1>6. BusyWaits'
  BY <1>0, <1>2 DEF ServesOnly, TurnsTo, Onward, BusyWaits, Waits
<1>7. ListsHold'
  BY <1>0, <1>1, <1>2 DEF ServesOnly, TurnsTo, Onward, PageTypes, ListsHold, Listed, Reviewed, TripsFit
<1>8. ReviewsHold'
  BY <1>0, <1>1, <1>2 DEF ServesOnly, TurnsTo, Onward, ReviewsHold, ReviewHolds, SavedHolds
<1>9. SentFromForms'
  BY <1>0, <1>1 DEF ServesOnly, SentFromForms
<1>10. FormsKnow'
  BY <1>0, <1>1 DEF ServesOnly, FormsKnow, HasOne, HasAnswer
<1>11. AnsweredMails'
  BY <1>0, <1>1 DEF ServesOnly, AnsweredMails, HasAnswer
<1>12. SubmitsKnow'
  BY <1>0, <1>1, <1>2 DEF ServesOnly, TurnsTo, Onward, SubmitsKnow, HasOne, HasAnswer
<1>13. FormsAlone'
  BY <1>0, <1>1, <1>2 DEF ServesOnly, TurnsTo, Onward, FormsAlone, HasOne
<1> QED
  BY <1>3, <1>4, <1>5, <1>6, <1>7, <1>8, <1>9, <1>10, <1>11, <1>12, <1>13 DEF PagesInv

LEMMA ServeListKeeps ==
  ASSUME PagesInv, NEW n \in Trips, ServesOnly, ServeList(n)
  PROVE  PagesInv'
<1>0. PageTypes /\ TripsFit /\ OneTripEach /\ BusyWaits /\ ListsHold /\ ReviewsHold
      /\ SentFromForms /\ FormsKnow /\ AnsweredMails /\ SubmitsKnow /\ FormsAlone
  BY DEF PagesInv
<1>1. PICK view \in SUBSET Replies : view = {r \in Replies : reply[r].row = "pending"}
  OBVIOUS
<1>2. /\ trip' \in [Trips -> Trip] /\ trip'[n].pc = "served" /\ trip'[n].kind = "load"
           /\ trip'[n].deaf = trip[n].deaf
      /\ trip'[n].view = view /\ \A m \in Trips : m # n => trip'[m] = trip[m]
  BY <1>0, <1>1, ListMoves DEF ServeList
<1>3. trip[n].kind = "load" /\ trip[n].pc = "sent" /\ UNCHANGED <<mail, reply, broken>>
  BY DEF ServeList, pageRows
<1>4. PageTypes'
  BY <1>0, <1>2, <1>3 DEF ServesOnly, PageTypes
<1>5. TripsFit'
  BY <1>0, <1>2, <1>3 DEF ServesOnly, TripsFit, TripFits
<1>6. OneTripEach'
  BY <1>0, <1>2 DEF ServesOnly, OneTripEach, Waits
<1>7. BusyWaits'
  BY <1>0, <1>2, <1>3 DEF ServesOnly, BusyWaits, Waits
<1>8. ListsHold'
  BY <1>0, <1>1, <1>2, <1>3 DEF ServesOnly, PageTypes, ListsHold, Listed, Reviewed
<1>9. ReviewsHold'
  BY <1>0, <1>2, <1>3 DEF ServesOnly, ReviewsHold, ReviewHolds, SavedHolds
<1>10. SentFromForms'
  BY <1>0, <1>3 DEF ServesOnly, SentFromForms
<1>11. FormsKnow'
  BY <1>0, <1>3 DEF ServesOnly, FormsKnow, HasOne, HasAnswer
<1>12. AnsweredMails'
  BY <1>0, <1>3 DEF ServesOnly, AnsweredMails, HasAnswer
<1>13. SubmitsKnow'
  BY <1>0, <1>2, <1>3 DEF ServesOnly, SubmitsKnow, HasOne, HasAnswer
<1>14. FormsAlone'
  BY <1>0, <1>2, <1>3 DEF ServesOnly, FormsAlone, HasOne
<1> QED
  BY <1>4, <1>5, <1>6, <1>7, <1>8, <1>9, <1>10, <1>11, <1>12, <1>13, <1>14 DEF PagesInv

LEMMA FailKeeps ==
  ASSUME PagesInv, NEW n \in Trips, ServesOnly, CallFails(n)
  PROVE  PagesInv'
<1>0. PageTypes /\ TripsFit /\ OneTripEach /\ BusyWaits /\ ListsHold /\ ReviewsHold
      /\ SentFromForms /\ FormsKnow /\ AnsweredMails /\ SubmitsKnow /\ FormsAlone
  BY DEF PagesInv
<1>1. trip[n].kind # "load" /\ trip[n].pc \in {"sent", "read", "made"}
        /\ UNCHANGED <<mail, reply>> /\ broken' = (broken \/ trip[n].pc = "made")
  BY DEF CallFails, pageRows
<1>2. broken' \in BOOLEAN
  BY <1>1
<1>3. PICK t \in Trip : TurnsTo(n, t) /\ (IF trip[n].deaf THEN Idle(t) ELSE Onward(n, t, "refused"))
  BY <1>0, EndsMoves DEF CallFails, Pcs
<1>4. PageTypes'
  BY <1>0, <1>1, <1>3 DEF ServesOnly, TurnsTo, PageTypes
<1>5. TripsFit'
  BY <1>0, <1>1, <1>3 DEF ServesOnly, TurnsTo, Idle, Onward, PageTypes, TripsFit, TripFits
<1>6. OneTripEach'
  BY <1>0, <1>1, <1>3 DEF ServesOnly, TurnsTo, Idle, Onward, OneTripEach, Waits
<1>7. BusyWaits'
  BY <1>0, <1>3 DEF ServesOnly, TurnsTo, Onward, BusyWaits, Waits
<1>8. ListsHold'
  BY <1>0, <1>1, <1>3 DEF ServesOnly, TurnsTo, Idle, Onward, PageTypes, ListsHold, Listed, Reviewed
<1>9. ReviewsHold'
  <2>1. broken' \in BOOLEAN /\ (broken => broken') /\ UNCHANGED <<reply, meant, outrun, reticked>>
    BY <1>0, <1>1 DEF ServesOnly, PageTypes
  <2>2. t.kind = "review" =>
           /\ trip[n].kind = "review" /\ t.reply = trip[n].reply /\ t.keys = trip[n].keys
                /\ t.accept = trip[n].accept
           /\ t.pc \notin {"made", "read"} /\ (t.pc = "sent" => trip[n].pc = "sent")
    BY <1>3 DEF Idle, Onward
  <2>3. ~broken' => ~(trip[n].kind = "review" /\ trip[n].pc = "made")
    BY <1>0, <1>1, <1>2, <1>3
  <2> QED
    BY <1>0, <1>3, <2>1, <2>2, <2>3, ReviewsRest
<1>10. SentFromForms'
  BY <1>0, <1>1 DEF ServesOnly, SentFromForms
<1>11. FormsKnow'
  BY <1>0, <1>1 DEF ServesOnly, FormsKnow, HasOne, HasAnswer
<1>12. AnsweredMails'
  BY <1>0, <1>1 DEF ServesOnly, AnsweredMails, HasAnswer
<1>13. SubmitsKnow'
  BY <1>0, <1>1, <1>3 DEF ServesOnly, TurnsTo, Idle, Onward, SubmitsKnow, HasOne, HasAnswer
<1>14. FormsAlone'
  <2>1. \A q \in Replies : reply'[q].tab = reply[q].tab
    BY <1>1
  <2>2. \A m \in Trips : trip'[m].kind = "submit"
          /\ trip'[m].pc \in {"sent", "refused", "completed", "expired"} =>
           \/ broken'
           \/ /\ trip[m].kind = "submit" /\ trip[m].pc \in {"sent", "refused", "completed", "expired"}
              /\ trip'[m].tab = trip[m].tab
    BY <1>0, <1>1, <1>2, <1>3 DEF TurnsTo, Idle, Onward, TripsFit, TripFits
  <2>3. UNCHANGED sheet /\ (broken => broken')
    BY <1>0, <1>1, <1>2, <1>3 DEF ServesOnly
  <2> QED
    BY <1>0, <2>1, <2>2, <2>3, FormsStay
<1> QED
  BY <1>4, <1>5, <1>6, <1>7, <1>8, <1>9, <1>10, <1>11, <1>12, <1>13, <1>14 DEF PagesInv

LEMMA SendKeeps ==
  ASSUME PagesInv, NEW n \in Trips, ServesOnly, SendTheMail(n)
  PROVE  PagesInv'
<1>0. PageTypes /\ TripsFit /\ OneTripEach /\ BusyWaits /\ ListsHold /\ ReviewsHold
      /\ SentFromForms /\ FormsKnow /\ AnsweredMails /\ SubmitsKnow /\ FormsAlone
  BY DEF PagesInv
<1>1. trip[n].kind = "send" /\ trip[n].pc = "made" /\ trip[n].mail \in Mails
        /\ UNCHANGED <<reply, broken>>
  BY <1>0 DEF SendTheMail, TripsFit, TripFits
<1>2. PICK l \in Mails : l = trip[n].mail
  BY <1>1
<1>3. mail' = [mail EXCEPT ![l] = [row |-> mail[l].row, asks |-> mail[l].asks, mailed |-> TRUE]]
  BY <1>0, <1>1, <1>2, MailIsARow DEF SendTheMail
<1>4. /\ mail' \in [Mails -> MailRow] /\ mail'[l].row = mail[l].row /\ UNCHANGED reply
      /\ \A k \in Mails : k # l => mail'[k] = mail[k]
  BY <1>0, <1>1, <1>2, <1>3, MailIsARow, MailChanges
<1>5. PICK t \in Trip : TurnsTo(n, t) /\ (IF trip[n].deaf THEN Idle(t) ELSE Onward(n, t, "served"))
  BY <1>0, EndsMoves DEF SendTheMail, Pcs
<1>6. PageTypes'
  BY <1>0, <1>1, <1>4, <1>5 DEF ServesOnly, TurnsTo, PageTypes
<1>7. TripsFit'
  BY <1>0, <1>1, <1>5 DEF ServesOnly, TurnsTo, Idle, Onward, TripsFit, TripFits
<1>8. OneTripEach'
  BY <1>0, <1>1, <1>5 DEF ServesOnly, TurnsTo, Idle, Onward, OneTripEach, Waits
<1>9. BusyWaits'
  BY <1>0, <1>5 DEF ServesOnly, TurnsTo, Onward, BusyWaits, Waits
<1>10. ListsHold'
  BY <1>0, <1>1, <1>5 DEF ServesOnly, TurnsTo, Idle, Onward, PageTypes, ListsHold, Listed, Reviewed
<1>11. ReviewsHold'
  BY <1>0, <1>1, <1>5 DEF ServesOnly, TurnsTo, Onward, ReviewsHold, ReviewHolds, SavedHolds,
     TripsFit, TripFits
<1>12. SentFromForms'
  BY <1>0, <1>4 DEF ServesOnly, SentFromForms
<1>13. FormsKnow'
  BY <1>0, <1>4 DEF ServesOnly, FormsKnow, HasOne, HasAnswer
<1>14. AnsweredMails'
  BY <1>0, <1>4 DEF ServesOnly, AnsweredMails, HasAnswer
<1>15. SubmitsKnow'
  BY <1>0, <1>1, <1>5 DEF ServesOnly, TurnsTo, Idle, Onward, SubmitsKnow, HasOne, HasAnswer
<1>16. FormsAlone'
  BY <1>0, <1>1, <1>5 DEF ServesOnly, TurnsTo, Onward, FormsAlone, HasOne, TripsFit, TripFits
<1> QED
  BY <1>6, <1>7, <1>8, <1>9, <1>10, <1>11, <1>12, <1>13, <1>14, <1>15, <1>16 DEF PagesInv

LEMMA MarkKeeps ==
  ASSUME PagesInv, NEW n \in Trips, ServesOnly, MarkAnswered(n), Ends(n, "served"), UNCHANGED broken
  PROVE  PagesInv'
<1>0. PageTypes /\ TripsFit /\ OneTripEach /\ BusyWaits /\ ListsHold /\ ReviewsHold
      /\ SentFromForms /\ FormsKnow /\ AnsweredMails /\ SubmitsKnow /\ FormsAlone
  BY DEF PagesInv
<1>1. trip[n].kind = "submit" /\ trip[n].pc = "made" /\ trip[n].tab \in Tabs
        /\ sheet[trip[n].tab].mail \in Mails
  BY <1>0 DEF MarkAnswered, TripsFit, TripFits, FormsKnow
<1>2. PICK l \in Mails : l = sheet[trip[n].tab].mail
  BY <1>1
<1>3. UNCHANGED reply
        /\ mail' = [mail EXCEPT ![l] = [row |-> "answered", asks |-> mail[l].asks, mailed |-> mail[l].mailed]]
  BY <1>0, <1>1, <1>2, MailIsARow DEF MarkAnswered
<1>4. /\ mail' \in [Mails -> MailRow] /\ mail'[l].row = "answered" /\ UNCHANGED reply
      /\ \A k \in Mails : k # l => mail'[k] = mail[k]
  BY <1>0, <1>1, <1>2, <1>3, MailIsARow, MailChanges
<1>5. PICK t \in Trip : TurnsTo(n, t) /\ (IF trip[n].deaf THEN Idle(t) ELSE Onward(n, t, "served"))
  BY <1>0, EndsMoves DEF Pcs
<1>6. PageTypes'
  BY <1>0, <1>4, <1>5 DEF ServesOnly, TurnsTo, PageTypes
<1>7. TripsFit'
  BY <1>0, <1>4, <1>5 DEF ServesOnly, TurnsTo, Idle, Onward, TripsFit, TripFits
<1>8. OneTripEach'
  BY <1>0, <1>1, <1>5 DEF ServesOnly, TurnsTo, Idle, Onward, OneTripEach, Waits
<1>9. BusyWaits'
  BY <1>0, <1>5 DEF ServesOnly, TurnsTo, Onward, BusyWaits, Waits
<1>10. ListsHold'
  BY <1>0, <1>1, <1>4, <1>5 DEF ServesOnly, TurnsTo, Idle, Onward, PageTypes, ListsHold, Listed, Reviewed
<1>11. ReviewsHold'
  BY <1>0, <1>1, <1>4, <1>5 DEF ServesOnly, TurnsTo, Onward, ReviewsHold, ReviewHolds, SavedHolds,
     TripsFit, TripFits
<1>12. SentFromForms'
  BY <1>0, <1>4 DEF ServesOnly, SentFromForms
<1>13. FormsKnow'
  BY <1>0, <1>4 DEF ServesOnly, FormsKnow, HasOne, HasAnswer
<1>14. AnsweredMails'
  <2>1. HasAnswer(l)
    BY <1>0, <1>1, <1>2, SurveyPagesAssumption DEF SubmitsKnow, HasOne, HasAnswer
  <2> QED
    BY <1>0, <1>4, <2>1 DEF AnsweredMails, HasAnswer, ServesOnly
<1>15. SubmitsKnow'
  BY <1>0, <1>1, <1>4, <1>5 DEF ServesOnly, TurnsTo, Idle, Onward, SubmitsKnow, HasOne, HasAnswer
<1>16. FormsAlone'
  BY <1>0, <1>4, <1>5 DEF ServesOnly, TurnsTo, Onward, FormsAlone, HasOne, TripsFit, TripFits
<1> QED
  BY <1>6, <1>7, <1>8, <1>9, <1>10, <1>11, <1>12, <1>13, <1>14, <1>15, <1>16 DEF PagesInv

LEMMA MarkBreaks ==
  ASSUME PagesInv, NEW n \in Trips, ServesOnly, MarkAnswered(n), Ends(n, "refused"), broken' = TRUE
  PROVE  PagesInv'
<1>0. PageTypes /\ TripsFit /\ OneTripEach /\ BusyWaits /\ ListsHold /\ ReviewsHold
      /\ SentFromForms /\ FormsKnow /\ AnsweredMails /\ SubmitsKnow /\ FormsAlone
  BY DEF PagesInv
<1>1. trip[n].kind = "submit" /\ trip[n].pc = "made" /\ trip[n].tab \in Tabs
        /\ sheet[trip[n].tab].mail \in Mails
  BY <1>0 DEF MarkAnswered, TripsFit, TripFits, FormsKnow
<1>2. PICK l \in Mails : l = sheet[trip[n].tab].mail
  BY <1>1
<1>3. UNCHANGED reply
        /\ mail' = [mail EXCEPT ![l] = [row |-> "answered", asks |-> mail[l].asks, mailed |-> mail[l].mailed]]
  BY <1>0, <1>1, <1>2, MailIsARow DEF MarkAnswered
<1>4. /\ mail' \in [Mails -> MailRow] /\ mail'[l].row = "answered" /\ UNCHANGED reply
      /\ \A k \in Mails : k # l => mail'[k] = mail[k]
  BY <1>0, <1>1, <1>2, <1>3, MailIsARow, MailChanges
<1>5. PICK t \in Trip : TurnsTo(n, t) /\ (IF trip[n].deaf THEN Idle(t) ELSE Onward(n, t, "refused"))
  BY <1>0, EndsMoves DEF Pcs
<1>6. PageTypes'
  BY <1>0, <1>4, <1>5 DEF ServesOnly, TurnsTo, PageTypes
<1>7. TripsFit'
  BY <1>0, <1>4, <1>5 DEF ServesOnly, TurnsTo, Idle, Onward, TripsFit, TripFits
<1>8. OneTripEach'
  BY <1>0, <1>1, <1>5 DEF ServesOnly, TurnsTo, Idle, Onward, OneTripEach, Waits
<1>9. BusyWaits'
  BY <1>0, <1>5 DEF ServesOnly, TurnsTo, Onward, BusyWaits, Waits
<1>10. ListsHold'
  BY <1>0, <1>4, <1>5 DEF ServesOnly, TurnsTo, Idle, Onward, PageTypes, ListsHold, Listed
<1>11. ReviewsHold'
  BY DEF ReviewsHold
<1>12. SentFromForms'
  BY <1>0, <1>4 DEF ServesOnly, SentFromForms
<1>13. FormsKnow'
  BY <1>0, <1>4 DEF ServesOnly, FormsKnow, HasOne, HasAnswer
<1>14. AnsweredMails'
  <2>1. HasAnswer(l)
    BY <1>0, <1>1, <1>2, SurveyPagesAssumption DEF SubmitsKnow, HasOne, HasAnswer
  <2> QED
    BY <1>0, <1>4, <2>1 DEF AnsweredMails, HasAnswer, ServesOnly
<1>15. SubmitsKnow'
  BY <1>0, <1>4, <1>5 DEF ServesOnly, TurnsTo, Idle, Onward, SubmitsKnow, HasOne, HasAnswer
<1>16. FormsAlone'
  BY DEF FormsAlone
<1> QED
  BY <1>6, <1>7, <1>8, <1>9, <1>10, <1>11, <1>12, <1>13, <1>14, <1>15, <1>16 DEF PagesInv

LEMMA CreateMailKeeps ==
  ASSUME PagesInv, NEW n \in Trips, ServesOnly, NEW l \in Mails, CreateMail(n, l)
  PROVE  PagesInv'
<1>0. PageTypes /\ TripsFit /\ OneTripEach /\ BusyWaits /\ ListsHold /\ ReviewsHold
      /\ SentFromForms /\ FormsKnow /\ AnsweredMails /\ SubmitsKnow /\ FormsAlone
  BY DEF PagesInv
<1>1. trip[n].kind = "send" /\ trip[n].pc = "sent" /\ mail[l].row = "none"
        /\ trip[n].keys \in SUBSET Keys
  BY <1>0 DEF CreateMail, PageTypes, Trip
<1>2. \A k \in Mails : /\ mail'[k] \in MailRow
                       /\ mail'[k].row = "answered" <=> mail[k].row = "answered"
  BY <1>0, <1>1 DEF CreateMail, PageTypes, MailRow
<1>3. /\ mail' \in [Mails -> MailRow] /\ UNCHANGED <<reply, broken>>
      /\ \A k \in Mails : mail'[k].row = "answered" <=> mail[k].row = "answered"
  BY <1>0, <1>1, <1>2 DEF CreateMail, PageTypes
<1>4. PICK t : t = [trip[n] EXCEPT !.pc = "made", !.mail = l]
  OBVIOUS
<1>5. t \in Trip /\ t.kind = "send" /\ t.pc = "made" /\ t.mail = l /\ t.deaf = trip[n].deaf
        /\ t.view = trip[n].view
  BY <1>0, <1>1, <1>2, <1>3, <1>4 DEF PageTypes, Trip
<1>6. trip' = [trip EXCEPT ![n] = t]
  BY <1>0, <1>1, <1>2, <1>3, <1>4, <1>5 DEF CreateMail
<1>7. TurnsTo(n, t)
  BY <1>0, <1>1, <1>2, <1>3, <1>4, <1>5, <1>6, TripTurns
<1>8. PageTypes'
  BY <1>0, <1>3, <1>7 DEF ServesOnly, TurnsTo, PageTypes
<1>9. TripsFit'
  BY <1>0, <1>3, <1>4, <1>5, <1>6 DEF ServesOnly, TripsFit, TripFits
<1>10. OneTripEach'
  BY <1>0, <1>1, <1>5, <1>7 DEF ServesOnly, TurnsTo, OneTripEach, Waits
<1>11. BusyWaits'
  BY <1>0, <1>4, <1>6 DEF ServesOnly, BusyWaits, Waits
<1>12. ListsHold'
  BY <1>0, <1>3, <1>4, <1>5, <1>6 DEF ServesOnly, PageTypes, ListsHold, Listed, Reviewed
<1>13. ReviewsHold'
  BY <1>0, <1>3, <1>4, <1>5, <1>6 DEF ServesOnly, ReviewsHold, ReviewHolds, SavedHolds
<1>14. SentFromForms'
  BY <1>0, <1>3 DEF ServesOnly, SentFromForms
<1>15. FormsKnow'
  BY <1>0, <1>3 DEF ServesOnly, FormsKnow, HasOne, HasAnswer
<1>16. AnsweredMails'
  BY <1>0, <1>3 DEF ServesOnly, AnsweredMails, HasAnswer
<1>17. SubmitsKnow'
  BY <1>0, <1>3, <1>5, <1>7 DEF ServesOnly, TurnsTo, SubmitsKnow, HasOne, HasAnswer
<1>18. FormsAlone'
  BY <1>0, <1>3, <1>5, <1>7 DEF ServesOnly, TurnsTo, FormsAlone, HasOne
<1> QED
  BY <1>8, <1>9, <1>10, <1>11, <1>12, <1>13, <1>14, <1>15, <1>16, <1>17, <1>18 DEF PagesInv

LEMMA TakeKeeps ==
  ASSUME PagesInv, NEW n \in Trips, ServesOnly, NEW r \in Replies, TakeAnswers(n, r), mail[sheet[trip[n].tab].mail].row = "live"
  PROVE  PagesInv'
<1>0. PageTypes /\ TripsFit /\ OneTripEach /\ BusyWaits /\ ListsHold /\ ReviewsHold
      /\ SentFromForms /\ FormsKnow /\ AnsweredMails /\ SubmitsKnow /\ FormsAlone
  BY DEF PagesInv
<1>1. PICK f \in Tabs : f = trip[n].tab
  BY <1>0 DEF TakeAnswers, TripsFit, TripFits
<1>2. trip[n].kind = "submit" /\ trip[n].pc = "sent" /\ reply[r].row = "none"
        /\ UNCHANGED <<mail, broken>> /\ trip[n].keys \in SUBSET Keys
  BY <1>0 DEF TakeAnswers, PageTypes, Trip
<1>3. reply[r].tab = NoTab /\ f # NoTab /\ sheet[f].shows # "nothing"
  BY <1>0, <1>1, <1>2, SurveyPagesAssumption DEF SentFromForms, TripsFit, TripFits
<1>4. PICK x : x = [reply[r] EXCEPT !.row = "pending", !.says = trip[n].keys, !.tab = f]
  OBVIOUS
<1>5. reply[r] \in ReplyRow
  BY <1>0 DEF PageTypes
<1>6. x \in ReplyRow /\ x.row = "pending" /\ x.tab = f /\ x.saved = reply[r].saved
  BY <1>1, <1>2, <1>4, <1>5 DEF ReplyRow
<1>7. reply' = [reply EXCEPT ![r] = x]
  BY <1>0, <1>1, <1>2, <1>3, <1>4, <1>5, <1>6 DEF TakeAnswers
<1>8. reply' \in [Replies -> ReplyRow] /\ reply'[r] = x /\ \A q \in Replies : q # r
        => reply'[q] = reply[q]
  BY <1>0, <1>6, <1>7 DEF PageTypes
<1>9. reply'[r].row = "pending" /\ reply'[r].tab = f /\ reply'[r].saved = reply[r].saved
  BY <1>6, <1>8
<1>10. PICK t \in Trip : TurnsTo(n, t) /\ Onward(n, t, "made")
  BY <1>0, GoesOnMoves DEF TakeAnswers, Pcs
<1>11. UNCHANGED sheet /\ TabsStand
  BY <1>3, <1>8 DEF ServesOnly, TabsStand
<1>12. PageTypes'
  BY <1>0, <1>2, <1>8, <1>10 DEF ServesOnly, TurnsTo, PageTypes
<1>13. TripsFit'
  BY <1>0, <1>2, <1>8, <1>10 DEF ServesOnly, TurnsTo, Onward, TripsFit, TripFits
<1>14. OneTripEach'
  BY <1>0, <1>2, <1>10 DEF ServesOnly, TurnsTo, Onward, OneTripEach, Waits
<1>15. BusyWaits'
  BY <1>0, <1>10 DEF ServesOnly, TurnsTo, Onward, BusyWaits, Waits
<1>16. ListsHold'
  BY <1>0, <1>2, <1>7, <1>10, <1>11 DEF ServesOnly, TurnsTo, Onward, PageTypes, ListsHold, Listed,
     Reviewed
<1>17. ReviewsHold'
  BY <1>0, <1>2, <1>4, <1>7, <1>10 DEF ServesOnly, TurnsTo, Onward, ReviewsHold, ReviewHolds, SavedHolds
<1>18. SentFromForms'
  BY <1>0, <1>3, <1>8, <1>9 DEF ServesOnly, SentFromForms
<1>19. FormsKnow'
  BY <1>0, <1>11, KnownStays
<1>20. AnsweredMails'
  BY <1>0, <1>2, <1>11, AnsweredStays
<1>21. SubmitsKnow'
  <2>1. \A m \in Trips : sheet'[trip[m].tab].mail = sheet[trip[m].tab].mail
    BY <1>11
  <2>2. t.kind = "submit" /\ t.pc = "made" /\ t.tab = f
    BY <1>1, <1>2, <1>10 DEF Onward
  <2> QED
    BY <1>0, <1>9, <1>10, <1>11, <2>2, SubmitsStay
<1>22. FormsAlone'
  <2> SUFFICES ASSUME ~broken' PROVE FormsAlone'
    BY DEF FormsAlone
  <2>1. ~broken /\ ~HasOne(f) /\ Waits(n)
    BY <1>0, <1>1, <1>2 DEF FormsAlone, TripsFit, TripFits, Waits
  <2>2. sheet'[f].sending
    BY <1>0, <1>1, <1>2, <1>11, <2>1 DEF OneTripEach
  <2>3. ASSUME NEW m \in Trips, trip'[m].kind = "submit", trip'[m].pc \in {"sent", "refused", "completed", "expired"},
               NEW q \in Replies
        PROVE  reply'[q].tab # trip'[m].tab
    <3>1. m # n
      BY <1>10, <2>3 DEF TurnsTo, Onward
    <3>2. trip'[m] = trip[m]
      BY <1>10, <3>1 DEF TurnsTo
    <3>3. trip[m].tab # f
      BY <1>0, <1>1, <1>2, <2>3, <3>1, <3>2, SubmitsApart
    <3>4. ~HasOne(trip[m].tab)
      BY <1>0, <2>1, <2>3, <3>2 DEF FormsAlone
    <3> QED
      BY <1>8, <1>9, <3>2, <3>3, <3>4 DEF HasOne
  <2>4. ASSUME NEW g \in Tabs, NEW p \in Replies, NEW q \in Replies, reply'[p].tab = g, reply'[q].tab = g PROVE p = q
    <3>1. CASE g = f
      BY <1>8, <2>1, <2>4, <3>1 DEF HasOne
    <3>2. CASE g # f
      BY <1>0, <1>8, <1>9, <2>1, <2>4, <3>2 DEF FormsAlone
    <3> QED
      BY <3>1, <3>2
  <2>5. ASSUME NEW g \in Tabs, NEW q \in Replies, reply'[q].tab = g
                 PROVE sheet'[g].shows = "thanks" \/ sheet'[g].sending
    <3>1. CASE g = f
      BY <2>2, <3>1
    <3>2. CASE g # f
      BY <1>0, <1>8, <1>9, <1>11, <2>1, <2>5, <3>2 DEF FormsAlone, HasOne
    <3> QED
      BY <3>1, <3>2
  <2> QED
    BY <2>3, <2>4, <2>5 DEF FormsAlone, HasOne
<1> QED
  BY <1>12, <1>13, <1>14, <1>15, <1>16, <1>17, <1>18, <1>19, <1>20, <1>21, <1>22 DEF PagesInv

LEMMA ToggleKeeps ==
  ASSUME PagesInv, NEW r \in Replies, NEW k \in Keys, ToggleField(r, k)
  PROVE  PagesInv'
<1>0. PageTypes /\ TripsFit /\ OneTripEach /\ BusyWaits /\ ListsHold /\ ReviewsHold
      /\ SentFromForms /\ FormsKnow /\ AnsweredMails /\ SubmitsKnow /\ FormsAlone
  BY DEF PagesInv
<1>1. k \in reply[r].says /\ section.ticks[r] \subseteq reply[r].says /\ section.ticks[r] \in SUBSET Keys
  BY <1>0 DEF ToggleField, PageTypes, ListsHold
<1>2. PICK flipped \in SUBSET Keys : flipped = Flipped(section.ticks[r], k)
             /\ flipped \subseteq reply[r].says
  BY <1>0, <1>1 DEF Flipped
<1>3. /\ section' = [section EXCEPT !.ticks[r] = flipped] /\ mind' = [mind EXCEPT ![r] = flipped]
      /\ r \in section.cards
  BY <1>2 DEF ToggleField
<1>4. /\ section'.cards = section.cards /\ section'.busy = section.busy
           /\ section'.ticks[r] = flipped /\ mind'[r] = flipped
      /\ \A q \in Replies : q # r => section'.ticks[q] = section.ticks[q] /\ mind'[q] = mind[q]
  BY <1>0, <1>3 DEF PageTypes
<1>5. UNCHANGED <<mail, reply, dialog, sheet, trip, meant, pressed, fetches, broken, outrun, reticked>>
  BY DEF ToggleField, pageRows, pageFlags
<1>6. PageTypes'
  BY <1>0, <1>3, <1>5 DEF PageTypes
<1>7. TripsFit'
  BY <1>0, <1>5 DEF TripsFit, TripFits
<1>8. OneTripEach'
  BY <1>0, <1>4, <1>5 DEF OneTripEach, Waits
<1>9. BusyWaits'
  BY <1>0, <1>4, <1>5 DEF BusyWaits, Waits
<1>10. ListsHold'
  BY <1>0, <1>2, <1>4, <1>5 DEF PageTypes, ListsHold, Listed, Reviewed
<1>11. ReviewsHold'
  BY <1>0, <1>5 DEF ReviewsHold, ReviewHolds, SavedHolds
<1>12. SentFromForms'
  BY <1>0, <1>5 DEF SentFromForms
<1>13. FormsKnow'
  BY <1>0, <1>5 DEF FormsKnow, HasOne, HasAnswer
<1>14. AnsweredMails'
  BY <1>0, <1>5 DEF AnsweredMails, HasAnswer
<1>15. SubmitsKnow'
  BY <1>0, <1>5 DEF SubmitsKnow, HasOne, HasAnswer
<1>16. FormsAlone'
  BY <1>0, <1>5 DEF FormsAlone, HasOne
<1> QED
  BY <1>6, <1>7, <1>8, <1>9, <1>10, <1>11, <1>12, <1>13, <1>14, <1>15, <1>16 DEF PagesInv

LEMMA DialogKeeps ==
  ASSUME PagesInv, NEW on \in BOOLEAN, OpenDialog(on)
  PROVE  PagesInv'
<1>0. PageTypes /\ TripsFit /\ OneTripEach /\ BusyWaits /\ ListsHold /\ ReviewsHold
      /\ SentFromForms /\ FormsKnow /\ AnsweredMails /\ SubmitsKnow /\ FormsAlone
  BY DEF PagesInv
<1>1. UNCHANGED <<mail, reply, section, sheet, trip, mind, meant, pressed, fetches, broken, outrun, reticked>>
  BY DEF OpenDialog, pageRows, pageFlags
<1>2. dialog' \in [on : BOOLEAN, questions : SUBSET Keys, sending : BOOLEAN]
        /\ dialog'.sending = dialog.sending
  BY <1>0 DEF OpenDialog, PageTypes
<1>3. PageTypes'
  BY <1>0, <1>1, <1>2 DEF PageTypes
<1>4. TripsFit'
  BY <1>0, <1>1 DEF TripsFit, TripFits
<1>5. OneTripEach'
  BY <1>0, <1>1, <1>2 DEF OneTripEach, Waits
<1>6. BusyWaits'
  BY <1>0, <1>1, <1>2 DEF BusyWaits, Waits
<1>7. ListsHold'
  BY <1>0, <1>1 DEF ListsHold, Listed, Reviewed
<1>8. ReviewsHold'
  BY <1>0, <1>1 DEF ReviewsHold, ReviewHolds, SavedHolds
<1>9. SentFromForms'
  BY <1>0, <1>1 DEF SentFromForms
<1>10. FormsKnow'
  BY <1>0, <1>1 DEF FormsKnow, HasOne, HasAnswer
<1>11. AnsweredMails'
  BY <1>0, <1>1 DEF AnsweredMails, HasAnswer
<1>12. SubmitsKnow'
  BY <1>0, <1>1 DEF SubmitsKnow, HasOne, HasAnswer
<1>13. FormsAlone'
  BY <1>0, <1>1 DEF FormsAlone, HasOne
<1> QED
  BY <1>3, <1>4, <1>5, <1>6, <1>7, <1>8, <1>9, <1>10, <1>11, <1>12, <1>13 DEF PagesInv

LEMMA QuestionsKeep ==
  ASSUME PagesInv, NEW keys \in SUBSET Keys, ChooseQuestions(keys)
  PROVE  PagesInv'
<1>0. PageTypes /\ TripsFit /\ OneTripEach /\ BusyWaits /\ ListsHold /\ ReviewsHold
      /\ SentFromForms /\ FormsKnow /\ AnsweredMails /\ SubmitsKnow /\ FormsAlone
  BY DEF PagesInv
<1>1. UNCHANGED <<mail, reply, section, sheet, trip, mind, meant, pressed, fetches, broken, outrun, reticked>>
  BY DEF ChooseQuestions, pageRows, pageFlags
<1>2. dialog' \in [on : BOOLEAN, questions : SUBSET Keys, sending : BOOLEAN]
        /\ dialog'.sending = dialog.sending
  BY <1>0 DEF ChooseQuestions, PageTypes
<1>3. PageTypes'
  BY <1>0, <1>1, <1>2 DEF PageTypes
<1>4. TripsFit'
  BY <1>0, <1>1 DEF TripsFit, TripFits
<1>5. OneTripEach'
  BY <1>0, <1>1, <1>2 DEF OneTripEach, Waits
<1>6. BusyWaits'
  BY <1>0, <1>1, <1>2 DEF BusyWaits, Waits
<1>7. ListsHold'
  BY <1>0, <1>1 DEF ListsHold, Listed, Reviewed
<1>8. ReviewsHold'
  BY <1>0, <1>1 DEF ReviewsHold, ReviewHolds, SavedHolds
<1>9. SentFromForms'
  BY <1>0, <1>1 DEF SentFromForms
<1>10. FormsKnow'
  BY <1>0, <1>1 DEF FormsKnow, HasOne, HasAnswer
<1>11. AnsweredMails'
  BY <1>0, <1>1 DEF AnsweredMails, HasAnswer
<1>12. SubmitsKnow'
  BY <1>0, <1>1 DEF SubmitsKnow, HasOne, HasAnswer
<1>13. FormsAlone'
  BY <1>0, <1>1 DEF FormsAlone, HasOne
<1> QED
  BY <1>3, <1>4, <1>5, <1>6, <1>7, <1>8, <1>9, <1>10, <1>11, <1>12, <1>13 DEF PagesInv

LEMMA OpenKeeps ==
  ASSUME PagesInv, NEW f \in Tabs, NEW l \in Mails, OpenSheet(f, l)
  PROVE  PagesInv'
<1>0. PageTypes /\ TripsFit /\ OneTripEach /\ BusyWaits /\ ListsHold /\ ReviewsHold
      /\ SentFromForms /\ FormsKnow /\ AnsweredMails /\ SubmitsKnow /\ FormsAlone
  BY DEF PagesInv
<1>1. UNCHANGED <<mail, reply, section, dialog, trip, mind, meant, pressed, fetches, broken, outrun, reticked>>
  BY DEF OpenSheet, pageRows, pageFlags
<1>2. PICK shows \in {"form", "over"}, told \in {"none", "expired", "completed"} :
          /\ told = "completed" => mail[l].row = "answered"
          /\ sheet' = [sheet EXCEPT ![f].mail = l, ![f].shows = shows, ![f].told = told]
  BY DEF OpenSheet, Over
<1>3. PICK x : x = [sheet[f] EXCEPT !.mail = l, !.shows = shows, !.told = told]
  OBVIOUS
<1>4. x \in SheetRow /\ x.mail = l /\ x.shows = shows /\ x.told = told
        /\ x.sending = sheet[f].sending /\ sheet[f].shows = "nothing"
  BY <1>0 DEF PageTypes, SheetRow, OpenSheet
<1>5. sheet' = [sheet EXCEPT ![f] = x]
  BY <1>0, <1>1, <1>2, <1>3, <1>4
<1>6. sheet' \in [Tabs -> SheetRow] /\ sheet'[f] = x /\ \A g \in Tabs : g # f => sheet'[g] = sheet[g]
  BY <1>0, <1>4, <1>5 DEF PageTypes
<1>7. \A q \in Replies : reply[q].tab # NoTab => reply[q].tab \in Tabs /\ reply[q].tab # f
  BY <1>0, <1>4 DEF PageTypes, ReplyRow, SentFromForms
<1>8. \A q \in Replies : reply[q].tab # NoTab => sheet'[reply[q].tab] = sheet[reply[q].tab]
  BY <1>6, <1>7
<1>9. \A m \in Trips : trip[m].kind = "submit" => trip[m].tab \in Tabs
        /\ sheet'[trip[m].tab] = sheet[trip[m].tab]
  BY <1>0, <1>4, <1>6 DEF TripsFit, TripFits
<1>10. PageTypes'
  BY <1>0, <1>1, <1>6 DEF PageTypes
<1>11. TripsFit'
  BY <1>0, <1>1, <1>9 DEF TripsFit, TripFits
<1>12. OneTripEach'
  BY <1>0, <1>1, <1>9 DEF OneTripEach, Waits
<1>13. BusyWaits'
  BY <1>0, <1>1, <1>4, <1>6 DEF BusyWaits, Waits
<1>14. ListsHold'
  BY <1>0, <1>1 DEF ListsHold, Listed, Reviewed
<1>15. ReviewsHold'
  BY <1>0, <1>1 DEF ReviewsHold, ReviewHolds, SavedHolds
<1>16. SentFromForms'
  BY <1>0, <1>1, <1>8 DEF SentFromForms
<1>17. FormsKnow'
  <2>1. NoTab \notin Tabs /\ (told = "completed" => HasAnswer(l))
    BY <1>0, <1>2, SurveyPagesAssumption DEF AnsweredMails
  <2>2. ASSUME NEW g \in Tabs PROVE (sheet'[g].shows # "nothing" => sheet'[g].mail \in Mails)
                 /\ (sheet'[g].shows = "thanks" => \E q \in Replies : reply'[q].tab = g)
    BY <1>0, <1>1, <1>4, <1>6 DEF FormsKnow, HasOne
  <2>3. ASSUME NEW g \in Tabs, sheet'[g].told = "completed"
        PROVE  \E q \in Replies : reply'[q].tab # NoTab /\ sheet'[reply'[q].tab].mail = sheet'[g].mail
    <3>1. HasAnswer(sheet'[g].mail)
      BY <1>0, <1>4, <1>6, <2>1, <2>3 DEF FormsKnow
    <3> QED
      BY <1>1, <1>8, <3>1 DEF HasAnswer
  <2> QED
    BY <2>2, <2>3 DEF FormsKnow, HasOne, HasAnswer
<1>18. AnsweredMails'
  BY <1>0, <1>1, <1>8 DEF AnsweredMails, HasAnswer
<1>19. SubmitsKnow'
  BY <1>0, <1>1, <1>8, <1>9 DEF SubmitsKnow, HasOne, HasAnswer
<1>20. FormsAlone'
  BY <1>0, <1>1, <1>4, <1>6 DEF FormsAlone, HasOne
<1> QED
  BY <1>10, <1>11, <1>12, <1>13, <1>14, <1>15, <1>16, <1>17, <1>18, <1>19, <1>20 DEF PagesInv

LEMMA FillKeeps ==
  ASSUME PagesInv, NEW f \in Tabs, NEW k \in Keys, FillIn(f, k)
  PROVE  PagesInv'
<1>0. PageTypes /\ TripsFit /\ OneTripEach /\ BusyWaits /\ ListsHold /\ ReviewsHold
      /\ SentFromForms /\ FormsKnow /\ AnsweredMails /\ SubmitsKnow /\ FormsAlone
  BY DEF PagesInv
<1>1. UNCHANGED <<mail, reply, section, dialog, trip, mind, meant, pressed, fetches, broken, outrun, reticked>>
  BY DEF FillIn, pageRows, pageFlags
<1>2. PICK keys \in SUBSET Keys : keys = Flipped(sheet[f].filled, k)
  BY <1>0, <1>1 DEF Flipped, PageTypes, SheetRow
<1>3. PICK x : x = [sheet[f] EXCEPT !.filled = keys]
  OBVIOUS
<1>4. x \in SheetRow /\ x.mail = sheet[f].mail /\ x.shows = sheet[f].shows
        /\ x.told = sheet[f].told /\ x.sending = sheet[f].sending
  BY <1>0, <1>3 DEF PageTypes, SheetRow
<1>5. sheet' = [sheet EXCEPT ![f] = x]
  BY <1>2, <1>3 DEF FillIn
<1>6. sheet' \in [Tabs -> SheetRow] /\ sheet'[f] = x /\ \A g \in Tabs : g # f => sheet'[g] = sheet[g]
  BY <1>0, <1>4, <1>5 DEF PageTypes
<1>7. PageTypes'
  BY <1>0, <1>1, <1>6 DEF PageTypes
<1>8. TripsFit'
  BY <1>0, <1>1, <1>4, <1>6 DEF TripsFit, TripFits
<1>9. OneTripEach'
  BY <1>0, <1>1, <1>4, <1>6 DEF OneTripEach, Waits, TripsFit, TripFits
<1>10. BusyWaits'
  BY <1>0, <1>1, <1>4, <1>6 DEF BusyWaits, Waits
<1>11. ListsHold'
  BY <1>0, <1>1 DEF ListsHold, Listed, Reviewed
<1>12. ReviewsHold'
  BY <1>0, <1>1 DEF ReviewsHold, ReviewHolds, SavedHolds
<1>13. SentFromForms'
  BY <1>0, <1>1, <1>4, <1>5 DEF SentFromForms
<1>14. FormsKnow'
  BY <1>0, <1>1, <1>4, <1>5 DEF FormsKnow, HasOne, HasAnswer
<1>15. AnsweredMails'
  BY <1>0, <1>1, <1>4, <1>5 DEF AnsweredMails, HasAnswer
<1>16. SubmitsKnow'
  BY <1>0, <1>1, <1>4, <1>5 DEF SubmitsKnow, HasOne, HasAnswer
<1>17. FormsAlone'
  BY <1>0, <1>1, <1>4, <1>6 DEF FormsAlone, HasOne
<1> QED
  BY <1>7, <1>8, <1>9, <1>10, <1>11, <1>12, <1>13, <1>14, <1>15, <1>16, <1>17 DEF PagesInv

LEMMA ExpireKeeps ==
  ASSUME PagesInv, NEW l \in Mails, MailExpires(l)
  PROVE  PagesInv'
<1>0. PageTypes /\ TripsFit /\ OneTripEach /\ BusyWaits /\ ListsHold /\ ReviewsHold
      /\ SentFromForms /\ FormsKnow /\ AnsweredMails /\ SubmitsKnow /\ FormsAlone
  BY DEF PagesInv
<1>1. UNCHANGED <<reply, section, dialog, sheet, trip, mind, meant, pressed, fetches, broken, outrun, reticked>>
  BY DEF MailExpires, pageFlags
<1>2. mail' = [mail EXCEPT ![l] = [row |-> "over", asks |-> mail[l].asks, mailed |-> mail[l].mailed]]
  BY <1>0, <1>1, MailIsARow DEF MailExpires
<1>3. /\ mail' \in [Mails -> MailRow] /\ mail'[l].row = "over"
      /\ \A k \in Mails : k # l => mail'[k] = mail[k]
  BY <1>0, <1>1, <1>2, MailIsARow, MailChanges
<1>4. PageTypes'
  BY <1>0, <1>1, <1>3 DEF PageTypes
<1>5. TripsFit'
  BY <1>0, <1>1 DEF TripsFit, TripFits
<1>6. OneTripEach'
  BY <1>0, <1>1 DEF OneTripEach, Waits
<1>7. BusyWaits'
  BY <1>0, <1>1 DEF BusyWaits, Waits
<1>8. ListsHold'
  BY <1>0, <1>1 DEF ListsHold, Listed, Reviewed
<1>9. ReviewsHold'
  BY <1>0, <1>1 DEF ReviewsHold, ReviewHolds, SavedHolds
<1>10. SentFromForms'
  BY <1>0, <1>1 DEF SentFromForms
<1>11. FormsKnow'
  BY <1>0, <1>1 DEF FormsKnow, HasOne, HasAnswer
<1>12. AnsweredMails'
  BY <1>0, <1>1, <1>3 DEF AnsweredMails, HasAnswer
<1>13. SubmitsKnow'
  BY <1>0, <1>1 DEF SubmitsKnow, HasOne, HasAnswer
<1>14. FormsAlone'
  BY <1>0, <1>1 DEF FormsAlone, HasOne
<1> QED
  BY <1>4, <1>5, <1>6, <1>7, <1>8, <1>9, <1>10, <1>11, <1>12, <1>13, <1>14 DEF PagesInv

-----------------------------------------------------------------------------
(* The pages of a survey: what is pressed.                                 *)

LEMMA LoadKeeps ==
  ASSUME PagesInv, LoadReplies
  PROVE  PagesInv'
<1>0. PageTypes /\ TripsFit /\ OneTripEach /\ BusyWaits /\ ListsHold /\ ReviewsHold
      /\ SentFromForms /\ FormsKnow /\ AnsweredMails /\ SubmitsKnow /\ FormsAlone
  BY DEF PagesInv
<1>1. UNCHANGED <<mail, reply, section, dialog, sheet, mind, meant, pressed, broken, outrun, reticked>>
  BY DEF LoadReplies, pageRows, pageFlags
<1>2. fetches' \in 0 .. MaxFetches
  BY <1>0, SurveyPagesAssumption DEF LoadReplies, PageTypes
<1>3. PICK n \in Trips, c \in Trip :
        trip[n].pc = "idle" /\ TurnsTo(n, c) /\ c.pc = "sent" /\ ~c.deaf /\ c.view = {}
          /\ c.kind = "load"
  <2> DEFINE x == [NoTrip EXCEPT !.pc = "sent"]
  <2>1. x \in Trip /\ x.pc = "sent" /\ ~x.deaf /\ x.view = {} /\ x.kind = "load"
    BY NoTripIsIdle DEF Trip, Idle
  <2>2. Calls(x)
    BY DEF LoadReplies
  <2> HIDE DEF x
  <2> QED
    BY <1>0, <2>1, <2>2, CallsFree
<1>4. PageTypes'
  BY <1>0, <1>1, <1>2, <1>3 DEF TurnsTo, PageTypes
<1>5. TripsFit'
  BY <1>0, <1>1, <1>3 DEF TurnsTo, TripsFit, TripFits
<1>6. OneTripEach'
  BY <1>0, <1>1, <1>3 DEF TurnsTo, OneTripEach, Waits
<1>7. BusyWaits'
  BY <1>0, <1>1, <1>3 DEF TurnsTo, BusyWaits, Waits
<1>8. ListsHold'
  BY <1>0, <1>1, <1>3 DEF TurnsTo, ListsHold, Listed, Reviewed
<1>9. ReviewsHold'
  BY <1>0, <1>1, <1>3 DEF TurnsTo, ReviewsHold, ReviewHolds, SavedHolds
<1>10. SentFromForms'
  BY <1>0, <1>1 DEF SentFromForms
<1>11. FormsKnow'
  BY <1>0, <1>1 DEF FormsKnow, HasOne, HasAnswer
<1>12. AnsweredMails'
  BY <1>0, <1>1 DEF AnsweredMails, HasAnswer
<1>13. SubmitsKnow'
  BY <1>0, <1>1, <1>3 DEF TurnsTo, SubmitsKnow, HasOne, HasAnswer
<1>14. FormsAlone'
  BY <1>0, <1>1, <1>3 DEF TurnsTo, FormsAlone, HasOne
<1> QED
  BY <1>4, <1>5, <1>6, <1>7, <1>8, <1>9, <1>10, <1>11, <1>12, <1>13, <1>14 DEF PagesInv

LEMMA ReviewPressed ==
  ASSUME PagesInv, NEW r \in Replies, NEW accept \in BOOLEAN, PressReview(r, accept)
  PROVE  PagesInv'
<1>0. PageTypes /\ TripsFit /\ OneTripEach /\ BusyWaits /\ ListsHold /\ ReviewsHold
      /\ SentFromForms /\ FormsKnow /\ AnsweredMails /\ SubmitsKnow /\ FormsAlone
  BY DEF PagesInv
<1>1. UNCHANGED <<mail, reply, dialog, sheet, mind, fetches, broken, outrun, reticked>>
  BY DEF PressReview, pageRows, pageFlags
<1>2. pressed' \in 0 .. MaxPressed
  BY <1>0, SurveyPagesAssumption DEF PressReview, Posts, PageTypes
<1>3. /\ r \in section.cards /\ r \notin section.busy
      /\ section.ticks[r] \in SUBSET Keys /\ section.ticks[r] \subseteq reply[r].says
           /\ reply[r].row # "none"
      /\ (reticked \/ section.ticks[r] = mind[r])
  BY <1>0 DEF PressReview, PageTypes, ListsHold, Listed
<1>4. PICK keys \in SUBSET Keys : keys = IF accept THEN section.ticks[r] ELSE {}
  BY <1>0, <1>1, <1>2, <1>3
<1>5. PICK n \in Trips, c \in Trip :
        trip[n].pc = "idle" /\ TurnsTo(n, c) /\ c.pc = "sent" /\ ~c.deaf /\ c.view = {}
          /\ c.kind = "review"
        /\ c.reply = r /\ c.accept = accept /\ c.keys = keys
  <2> DEFINE x == [NoTrip EXCEPT !.kind = "review", !.pc = "sent", !.reply = r, !.accept = accept, !.keys = keys]
  <2>1. x \in Trip /\ x.pc = "sent" /\ ~x.deaf /\ x.view = {} /\ x.kind = "review"
        /\ x.reply = r /\ x.accept = accept /\ x.keys = keys
    BY NoTripIsIdle DEF Trip, Idle
  <2>2. Calls(x)
    BY <1>4 DEF PressReview, Posts
  <2> HIDE DEF x
  <2> QED
    BY <1>0, <2>1, <2>2, CallsFree
<1>6. section' = [section EXCEPT !.busy = section.busy \cup {r}]
  BY DEF PressReview
<1>7. /\ section' \in [cards : SUBSET Replies, ticks : [Replies -> SUBSET Keys], busy : SUBSET Replies, loading : BOOLEAN]
      /\ section'.cards = section.cards /\ section'.ticks = section.ticks
           /\ section'.busy = section.busy \cup {r}
  BY <1>0, <1>6 DEF PageTypes
<1>8. /\ meant' \in [Replies -> SUBSET Keys] /\ (accept => meant'[r] = mind[r])
      /\ \A q \in Replies : q # r => meant'[q] = meant[q]
  BY <1>0 DEF PressReview, PageTypes
<1>9. PageTypes'
  BY <1>0, <1>1, <1>2, <1>5, <1>7, <1>8 DEF TurnsTo, PageTypes
<1>10. TripsFit'
  BY <1>0, <1>1, <1>3, <1>4, <1>5 DEF TurnsTo, TripsFit, TripFits
<1>11. OneTripEach'
  BY <1>0, <1>1, <1>3, <1>5, <1>7 DEF TurnsTo, OneTripEach, Waits
<1>12. BusyWaits'
  BY <1>0, <1>1, <1>5, <1>7 DEF TurnsTo, BusyWaits, Waits
<1>13. ListsHold'
  BY <1>0, <1>1, <1>2, <1>3, <1>4, <1>5, <1>6, <1>7, <1>8 DEF TurnsTo, ListsHold, Listed, Reviewed
<1>14. ReviewsHold'
  <2> SUFFICES ASSUME ~broken' PROVE ReviewsHold'
    BY DEF ReviewsHold
  <2>1. \A m \in Trips : trip[m].kind = "review" /\ trip[m].pc # "idle" => trip[m].reply # r
    BY <1>0, <1>1, <1>3 DEF OneTripEach, Waits, TripsFit, TripFits
  <2>2. reply[r].row = "pending" \/ outrun
    BY <1>0, <1>1, <1>3, <2>1 DEF ListsHold, Listed, Reviewed
  <2>3. ASSUME NEW m \in Trips PROVE ReviewHolds(m)'
    <3>1. CASE m = n
      BY <1>1, <1>3, <1>4, <1>5, <1>8, <3>1 DEF TurnsTo, ReviewHolds
    <3>2. CASE m # n
      <4>1. trip'[m] = trip[m] /\ ReviewHolds(m)
        BY <1>0, <1>1, <1>5, <3>2 DEF TurnsTo, ReviewsHold
      <4>2. trip[m].kind = "review" /\ trip[m].pc # "idle" => trip[m].reply \in Replies
              /\ trip[m].reply # r
        BY <1>0, <2>1 DEF TripsFit, TripFits
      <4> QED
        BY <1>1, <1>8, <4>1, <4>2 DEF ReviewHolds
    <3> QED
      BY <3>1, <3>2
  <2>4. ASSUME NEW q \in Replies PROVE SavedHolds(q)'
    <3>1. SavedHolds(q)
      BY <1>0, <1>1 DEF ReviewsHold
    <3>2. ASSUME NEW m \in Trips, trip[m].kind = "review", trip[m].reply = q, trip[m].pc = "made" PROVE trip'[m] = trip[m]
      BY <1>5, <3>2 DEF TurnsTo
    <3> QED
      BY <1>1, <1>8, <2>2, <3>1, <3>2 DEF SavedHolds
  <2> QED
    BY <2>3, <2>4 DEF ReviewsHold
<1>15. SentFromForms'
  BY <1>0, <1>1 DEF SentFromForms
<1>16. FormsKnow'
  BY <1>0, <1>1 DEF FormsKnow, HasOne, HasAnswer
<1>17. AnsweredMails'
  BY <1>0, <1>1 DEF AnsweredMails, HasAnswer
<1>18. SubmitsKnow'
  BY <1>0, <1>1, <1>5 DEF TurnsTo, SubmitsKnow, HasOne, HasAnswer
<1>19. FormsAlone'
  BY <1>0, <1>1, <1>5 DEF TurnsTo, FormsAlone, HasOne
<1> QED
  BY <1>9, <1>10, <1>11, <1>12, <1>13, <1>14, <1>15, <1>16, <1>17, <1>18, <1>19 DEF PagesInv

LEMMA SendPressed ==
  ASSUME PagesInv, PressSend
  PROVE  PagesInv'
<1>0. PageTypes /\ TripsFit /\ OneTripEach /\ BusyWaits /\ ListsHold /\ ReviewsHold
      /\ SentFromForms /\ FormsKnow /\ AnsweredMails /\ SubmitsKnow /\ FormsAlone
  BY DEF PagesInv
<1>1. UNCHANGED <<mail, reply, section, sheet, mind, meant, fetches, broken, outrun, reticked>>
  BY DEF PressSend, pageRows, pageFlags
<1>2. pressed' \in 0 .. MaxPressed
  BY <1>0, SurveyPagesAssumption DEF PressSend, Posts, PageTypes
<1>3. dialog.questions \in SUBSET Keys
  BY <1>0 DEF PageTypes
<1>4. PICK n \in Trips, c \in Trip :
        trip[n].pc = "idle" /\ TurnsTo(n, c) /\ c.pc = "sent" /\ ~c.deaf /\ c.view = {}
          /\ c.kind = "send"
  <2> DEFINE x == [NoTrip EXCEPT !.kind = "send", !.pc = "sent", !.keys = dialog.questions]
  <2>1. x \in Trip /\ x.pc = "sent" /\ ~x.deaf /\ x.view = {} /\ x.kind = "send"
    BY NoTripIsIdle, <1>3 DEF Trip, Idle
  <2>2. Calls(x)
    BY DEF PressSend, Posts
  <2> HIDE DEF x
  <2> QED
    BY <1>0, <2>1, <2>2, CallsFree
<1>5. ~dialog.sending /\ dialog' \in [on : BOOLEAN, questions : SUBSET Keys, sending : BOOLEAN]
        /\ dialog'.sending
  BY <1>0, <1>1, <1>2, <1>3, <1>4 DEF PressSend, PageTypes
<1>6. PageTypes'
  BY <1>0, <1>1, <1>2, <1>4, <1>5 DEF TurnsTo, PageTypes
<1>7. TripsFit'
  BY <1>0, <1>1, <1>4 DEF TurnsTo, TripsFit, TripFits
<1>8. OneTripEach'
  BY <1>0, <1>1, <1>4, <1>5 DEF TurnsTo, OneTripEach, Waits
<1>9. BusyWaits'
  BY <1>0, <1>1, <1>4 DEF TurnsTo, BusyWaits, Waits
<1>10. ListsHold'
  BY <1>0, <1>1, <1>4 DEF TurnsTo, ListsHold, Listed, Reviewed
<1>11. ReviewsHold'
  BY <1>0, <1>1, <1>4 DEF TurnsTo, ReviewsHold, ReviewHolds, SavedHolds
<1>12. SentFromForms'
  BY <1>0, <1>1 DEF SentFromForms
<1>13. FormsKnow'
  BY <1>0, <1>1 DEF FormsKnow, HasOne, HasAnswer
<1>14. AnsweredMails'
  BY <1>0, <1>1 DEF AnsweredMails, HasAnswer
<1>15. SubmitsKnow'
  BY <1>0, <1>1, <1>4 DEF TurnsTo, SubmitsKnow, HasOne, HasAnswer
<1>16. FormsAlone'
  BY <1>0, <1>1, <1>4 DEF TurnsTo, FormsAlone, HasOne
<1> QED
  BY <1>6, <1>7, <1>8, <1>9, <1>10, <1>11, <1>12, <1>13, <1>14, <1>15, <1>16 DEF PagesInv

LEMMA SubmitPressed ==
  ASSUME PagesInv, NEW f \in Tabs, PressSubmit(f)
  PROVE  PagesInv'
<1>0. PageTypes /\ TripsFit /\ OneTripEach /\ BusyWaits /\ ListsHold /\ ReviewsHold
      /\ SentFromForms /\ FormsKnow /\ AnsweredMails /\ SubmitsKnow /\ FormsAlone
  BY DEF PagesInv
<1>1. UNCHANGED <<mail, reply, section, dialog, mind, meant, fetches, broken, outrun, reticked>>
  BY DEF PressSubmit, pageRows, pageFlags
<1>2. pressed' \in 0 .. MaxPressed
  BY <1>0, SurveyPagesAssumption DEF PressSubmit, Posts, PageTypes
<1>3. sheet[f] \in SheetRow /\ sheet[f].shows = "form" /\ ~sheet[f].sending
  BY <1>0 DEF PressSubmit, PageTypes
<1>4. sheet[f].filled \in SUBSET Keys
  BY <1>3 DEF SheetRow
<1>5. PICK n \in Trips, c \in Trip :
        trip[n].pc = "idle" /\ TurnsTo(n, c) /\ c.pc = "sent" /\ ~c.deaf /\ c.view = {}
          /\ c.kind = "submit" /\ c.tab = f
  <2> DEFINE x == [NoTrip EXCEPT !.kind = "submit", !.pc = "sent", !.keys = sheet[f].filled, !.tab = f]
  <2>1. x \in Trip /\ x.pc = "sent" /\ ~x.deaf /\ x.view = {} /\ x.kind = "submit" /\ x.tab = f
    BY NoTripIsIdle, <1>4 DEF Trip, Idle
  <2>2. Calls(x)
    BY DEF PressSubmit, Posts
  <2> HIDE DEF x
  <2> QED
    BY <1>0, <2>1, <2>2, CallsFree
<1>6. PICK x : x = [sheet[f] EXCEPT !.sending = TRUE, !.told = "none"]
  OBVIOUS
<1>7. x \in SheetRow /\ x.mail = sheet[f].mail /\ x.shows = "form" /\ x.told = "none" /\ x.sending
  BY <1>3, <1>6 DEF SheetRow
<1>8. sheet' = [sheet EXCEPT ![f] = x]
  BY <1>6 DEF PressSubmit
<1>9. sheet' \in [Tabs -> SheetRow] /\ sheet'[f] = x /\ \A g \in Tabs : g # f => sheet'[g] = sheet[g]
  BY <1>0, <1>7, <1>8 DEF PageTypes
<1>10. PageTypes'
  BY <1>0, <1>1, <1>2, <1>5, <1>9 DEF TurnsTo, PageTypes
<1>11. TripsFit'
  BY <1>0, <1>1, <1>5, <1>7, <1>9 DEF TurnsTo, TripsFit, TripFits
<1>12. OneTripEach'
  BY <1>0, <1>1, <1>3, <1>5, <1>7, <1>9 DEF TurnsTo, OneTripEach, Waits, TripsFit, TripFits
<1>13. BusyWaits'
  BY <1>0, <1>1, <1>5, <1>9 DEF TurnsTo, BusyWaits, Waits
<1>14. ListsHold'
  BY <1>0, <1>1, <1>5 DEF TurnsTo, ListsHold, Listed, Reviewed
<1>15. ReviewsHold'
  BY <1>0, <1>1, <1>5 DEF TurnsTo, ReviewsHold, ReviewHolds, SavedHolds
<1>16. SentFromForms'
  BY <1>0, <1>1, <1>7, <1>8 DEF SentFromForms
<1>17. FormsKnow'
  BY <1>0, <1>1, <1>6, <1>8 DEF FormsKnow, HasOne, HasAnswer
<1>18. AnsweredMails'
  BY <1>0, <1>1, <1>7, <1>8 DEF AnsweredMails, HasAnswer
<1>19. SubmitsKnow'
  BY <1>0, <1>1, <1>5, <1>7, <1>8 DEF TurnsTo, SubmitsKnow, HasOne, HasAnswer
<1>20. FormsAlone'
  BY <1>0, <1>1, <1>3, <1>5, <1>6, <1>9 DEF TurnsTo, FormsAlone, HasOne
<1> QED
  BY <1>10, <1>11, <1>12, <1>13, <1>14, <1>15, <1>16, <1>17, <1>18, <1>19, <1>20 DEF PagesInv

-----------------------------------------------------------------------------
(* The pages of a survey: what is heard.                                   *)

LEMMA RepliesHeard ==
  ASSUME PagesInv, NEW n \in Trips, Heard(n), HearReplies(n)
  PROVE  PagesInv'
<1>0. PageTypes /\ TripsFit /\ OneTripEach /\ BusyWaits /\ ListsHold /\ ReviewsHold
      /\ SentFromForms /\ FormsKnow /\ AnsweredMails /\ SubmitsKnow /\ FormsAlone
  BY DEF PagesInv
<1>1. Idle(NoTrip)
  BY NoTripIsIdle
<1>2. trip[n].kind = "load" /\ trip[n].pc = "served" /\ UNCHANGED <<dialog, sheet, outrun>>
  BY DEF HearReplies
<1>3. PICK view \in SUBSET Replies : view = trip[n].view
  BY <1>0 DEF PageTypes, Trip
<1>4. PICK ticks : ticks = [r \in Replies |-> IF r \in view THEN reply[r].says ELSE {}]
  OBVIOUS
<1>5. ticks \in [Replies -> SUBSET Keys]
  BY <1>0, <1>4 DEF PageTypes, ReplyRow
<1>6. section' = [section EXCEPT !.cards = view, !.loading = FALSE, !.ticks = ticks]
  BY <1>3, <1>4 DEF HearReplies
<1>7. /\ section' \in [cards : SUBSET Replies, ticks : [Replies -> SUBSET Keys], busy : SUBSET Replies, loading : BOOLEAN]
      /\ section'.cards = view /\ section'.ticks = ticks /\ section'.busy = section.busy
  BY <1>0, <1>3, <1>5, <1>6 DEF PageTypes
<1>8. \A r \in view : ticks[r] = reply[r].says /\ Listed(r)
  BY <1>0, <1>1, <1>2, <1>3, <1>4, <1>5 DEF ListsHold
<1>9. reticked' = (reticked \/ \E r \in view : mind[r] # reply[r].says)
  BY <1>0, <1>1, <1>2, <1>3, <1>4, <1>5 DEF HearReplies
<1>10. reticked' \in BOOLEAN /\ (reticked => reticked') /\ \A r \in view : reticked'
         \/ mind[r] = reply[r].says
  BY <1>0, <1>9 DEF PageTypes
<1>12. PageTypes'
  BY <1>0, <1>2, <1>7, <1>10 DEF Heard, TurnsTo, PageTypes
<1>13. TripsFit'
  BY <1>0, <1>1, <1>2 DEF Heard, TurnsTo, Idle, TripsFit, TripFits
<1>14. OneTripEach'
  BY <1>0, <1>1, <1>2, <1>7 DEF Heard, TurnsTo, Idle, OneTripEach, Waits
<1>15. BusyWaits'
  BY <1>0, <1>2, <1>7 DEF Heard, TurnsTo, BusyWaits, Waits
<1>16. ListsHold'
  BY <1>0, <1>1, <1>2, <1>7, <1>8, <1>10 DEF Heard, TurnsTo, Idle, ListsHold, Listed, Reviewed
<1>17. ReviewsHold'
  BY <1>0, <1>1, <1>2, <1>10 DEF Heard, TurnsTo, Idle, ReviewsHold, ReviewHolds, SavedHolds
<1>18. SentFromForms'
  BY <1>0, <1>2 DEF Heard, SentFromForms
<1>19. FormsKnow'
  BY <1>0, <1>2 DEF Heard, FormsKnow, HasOne, HasAnswer
<1>20. AnsweredMails'
  BY <1>0, <1>2 DEF Heard, AnsweredMails, HasAnswer
<1>21. SubmitsKnow'
  BY <1>0, <1>1, <1>2 DEF Heard, TurnsTo, Idle, SubmitsKnow, HasOne, HasAnswer
<1>22. FormsAlone'
  BY <1>0, <1>1, <1>2 DEF Heard, TurnsTo, Idle, FormsAlone, HasOne
<1> QED
  BY <1>12, <1>13, <1>14, <1>15, <1>16, <1>17, <1>18, <1>19, <1>20, <1>21, <1>22 DEF PagesInv

LEMMA ReviewHeard ==
  ASSUME PagesInv, NEW n \in Trips, Heard(n), HearReview(n)
  PROVE  PagesInv'
<1>0. PageTypes /\ TripsFit /\ OneTripEach /\ BusyWaits /\ ListsHold /\ ReviewsHold
      /\ SentFromForms /\ FormsKnow /\ AnsweredMails /\ SubmitsKnow /\ FormsAlone
  BY DEF PagesInv
<1>1. Idle(NoTrip)
  BY NoTripIsIdle
<1>2. trip[n].kind = "review" /\ trip[n].pc = "served" /\ UNCHANGED <<dialog, sheet, reticked>>
  BY DEF HearReview
<1>3. PICK r \in Replies : r = trip[n].reply
  BY <1>0, <1>2 DEF TripsFit, TripFits
<1>4. section' = [section EXCEPT !.cards = section.cards \ {r}, !.busy = section.busy \ {r}]
  BY <1>3 DEF HearReview
<1>5. /\ section' \in [cards : SUBSET Replies, ticks : [Replies -> SUBSET Keys], busy : SUBSET Replies, loading : BOOLEAN]
      /\ section'.cards = section.cards \ {r} /\ section'.ticks = section.ticks
           /\ section'.busy = section.busy \ {r}
  BY <1>0, <1>3, <1>4 DEF PageTypes
<1>6. outrun' \in BOOLEAN /\ (outrun => outrun') /\ ((\E m \in Trips : r \in trip[m].view) => outrun')
  BY <1>0, <1>1, <1>2, <1>3, <1>4, <1>5 DEF HearReview, PageTypes
<1>7. PageTypes'
  BY <1>0, <1>2, <1>5, <1>6 DEF Heard, TurnsTo, PageTypes
<1>8. TripsFit'
  BY <1>0, <1>1, <1>2 DEF Heard, TurnsTo, Idle, TripsFit, TripFits
<1>9. OneTripEach'
  BY <1>0, <1>1, <1>2, <1>3, <1>5 DEF Heard, TurnsTo, Idle, OneTripEach, Waits
<1>10. BusyWaits'
  BY <1>0, <1>2, <1>3, <1>5 DEF Heard, TurnsTo, BusyWaits, Waits
<1>11. ListsHold'
  BY <1>0, <1>1, <1>2, <1>3, <1>5, <1>6 DEF Heard, TurnsTo, Idle, ListsHold, Listed, Reviewed
<1>12. ReviewsHold'
  BY <1>0, <1>1, <1>2, <1>5, <1>6 DEF Heard, TurnsTo, Idle, ReviewsHold, ReviewHolds, SavedHolds
<1>13. SentFromForms'
  BY <1>0, <1>2 DEF Heard, SentFromForms
<1>14. FormsKnow'
  BY <1>0, <1>2 DEF Heard, FormsKnow, HasOne, HasAnswer
<1>15. AnsweredMails'
  BY <1>0, <1>2 DEF Heard, AnsweredMails, HasAnswer
<1>16. SubmitsKnow'
  BY <1>0, <1>1, <1>2 DEF Heard, TurnsTo, Idle, SubmitsKnow, HasOne, HasAnswer
<1>17. FormsAlone'
  BY <1>0, <1>1, <1>2 DEF Heard, TurnsTo, Idle, FormsAlone, HasOne
<1> QED
  BY <1>7, <1>8, <1>9, <1>10, <1>11, <1>12, <1>13, <1>14, <1>15, <1>16, <1>17 DEF PagesInv

LEMMA SentHeard ==
  ASSUME PagesInv, NEW n \in Trips, Heard(n), HearSent(n)
  PROVE  PagesInv'
<1>0. PageTypes /\ TripsFit /\ OneTripEach /\ BusyWaits /\ ListsHold /\ ReviewsHold
      /\ SentFromForms /\ FormsKnow /\ AnsweredMails /\ SubmitsKnow /\ FormsAlone
  BY DEF PagesInv
<1>1. Idle(NoTrip)
  BY NoTripIsIdle
<1>2. trip[n].kind = "send" /\ trip[n].pc = "served" /\ UNCHANGED <<section, sheet, outrun, reticked>>
  BY DEF HearSent
<1>3. dialog' = [dialog EXCEPT !.on = FALSE, !.sending = FALSE]
  BY DEF HearSent
<1>4. dialog' \in [on : BOOLEAN, questions : SUBSET Keys, sending : BOOLEAN] /\ ~dialog'.sending
  BY <1>0, <1>1, <1>2, <1>3 DEF PageTypes
<1>5. PageTypes'
  BY <1>0, <1>2, <1>4 DEF Heard, TurnsTo, PageTypes
<1>6. TripsFit'
  BY <1>0, <1>1, <1>2 DEF Heard, TurnsTo, Idle, TripsFit, TripFits
<1>7. OneTripEach'
  BY <1>0, <1>1, <1>2 DEF Heard, TurnsTo, Idle, OneTripEach, Waits
<1>8. BusyWaits'
  BY <1>0, <1>2, <1>4 DEF Heard, TurnsTo, BusyWaits, Waits
<1>9. ListsHold'
  BY <1>0, <1>1, <1>2, <1>3 DEF Heard, TurnsTo, Idle, ListsHold, Listed, Reviewed
<1>10. ReviewsHold'
  BY <1>0, <1>1, <1>2 DEF Heard, TurnsTo, Idle, ReviewsHold, ReviewHolds, SavedHolds
<1>11. SentFromForms'
  BY <1>0, <1>2 DEF Heard, SentFromForms
<1>12. FormsKnow'
  BY <1>0, <1>2 DEF Heard, FormsKnow, HasOne, HasAnswer
<1>13. AnsweredMails'
  BY <1>0, <1>2 DEF Heard, AnsweredMails, HasAnswer
<1>14. SubmitsKnow'
  BY <1>0, <1>1, <1>2 DEF Heard, TurnsTo, Idle, SubmitsKnow, HasOne, HasAnswer
<1>15. FormsAlone'
  BY <1>0, <1>1, <1>2 DEF Heard, TurnsTo, Idle, FormsAlone, HasOne
<1> QED
  BY <1>5, <1>6, <1>7, <1>8, <1>9, <1>10, <1>11, <1>12, <1>13, <1>14, <1>15 DEF PagesInv

LEMMA TakenHeard ==
  ASSUME PagesInv, NEW n \in Trips, Heard(n), HearTaken(n)
  PROVE  PagesInv'
<1>0. PageTypes /\ TripsFit /\ OneTripEach /\ BusyWaits /\ ListsHold /\ ReviewsHold
      /\ SentFromForms /\ FormsKnow /\ AnsweredMails /\ SubmitsKnow /\ FormsAlone
  BY DEF PagesInv
<1>1. Idle(NoTrip)
  BY NoTripIsIdle
<1>2. trip[n].kind = "submit" /\ trip[n].pc \in {"served", "completed", "expired"}
        /\ UNCHANGED <<section, dialog, outrun, reticked>>
  BY DEF HearTaken
<1>3. PICK f \in Tabs : f = trip[n].tab
  BY <1>0, <1>2 DEF TripsFit, TripFits
<1>4. sheet[f] \in SheetRow /\ sheet[f].shows # "nothing"
  BY <1>0, <1>2, <1>3 DEF PageTypes, TripsFit, TripFits
<1>5. PICK shows \in {"nothing", "form", "thanks", "over"} : shows = IF trip[n].pc = "served" THEN "thanks" ELSE sheet[f].shows
  BY <1>4 DEF SheetRow
<1>6. PICK told \in {"none", "completed", "expired", "again"} : told = IF trip[n].pc = "served" THEN sheet[f].told ELSE trip[n].pc
  BY <1>2, <1>4 DEF SheetRow
<1>7. PICK x : x = [sheet[f] EXCEPT !.sending = FALSE, !.shows = shows, !.told = told]
  OBVIOUS
<1>8. x \in SheetRow /\ x.mail = sheet[f].mail /\ x.shows = shows /\ x.told = told /\ ~x.sending
  BY <1>4, <1>7 DEF SheetRow
<1>9. sheet' = [sheet EXCEPT ![f] = x]
  BY <1>0, <1>1, <1>2, <1>3, <1>4, <1>5, <1>6, <1>7, <1>8 DEF HearTaken
<1>10. sheet' \in [Tabs -> SheetRow] /\ sheet'[f] = x /\ \A g \in Tabs : g # f => sheet'[g] = sheet[g]
  BY <1>0, <1>1, <1>2, <1>8, <1>9 DEF PageTypes
<1>11. PageTypes'
  BY <1>0, <1>2, <1>10 DEF Heard, TurnsTo, PageTypes
<1>12. TripsFit'
  BY <1>0, <1>1, <1>5, <1>8, <1>10 DEF Heard, TurnsTo, Idle, TripsFit, TripFits
<1>13. OneTripEach'
  BY <1>0, <1>1, <1>2, <1>3, <1>10 DEF Heard, TurnsTo, Idle, OneTripEach, Waits, TripsFit, TripFits
<1>14. BusyWaits'
  BY <1>0, <1>2, <1>3, <1>8, <1>10 DEF Heard, TurnsTo, BusyWaits, Waits
<1>15. ListsHold'
  BY <1>0, <1>1, <1>2, <1>8, <1>9 DEF Heard, TurnsTo, Idle, ListsHold, Listed, Reviewed
<1>16. ReviewsHold'
  BY <1>0, <1>1, <1>2 DEF Heard, TurnsTo, Idle, ReviewsHold, ReviewHolds, SavedHolds
<1>17. SentFromForms'
  BY <1>0, <1>5, <1>8, <1>9 DEF Heard, SentFromForms
<1>18. FormsKnow'
  <2>1. (x.told = "completed" => HasAnswer(sheet[f].mail)) /\ (x.shows = "thanks" => HasOne(f))
    BY <1>0, <1>2, <1>3, <1>5, <1>6, <1>8 DEF FormsKnow, SubmitsKnow
  <2>2. UNCHANGED reply
    BY DEF Heard
  <2> QED
    BY <1>0, <1>4, <1>8, <1>10, <2>1, <2>2, KnownOfOne
<1>19. AnsweredMails'
  BY <1>0, <1>8, <1>9 DEF Heard, AnsweredMails, HasAnswer
<1>20. SubmitsKnow'
  BY <1>0, <1>1, <1>8, <1>9 DEF Heard, TurnsTo, Idle, SubmitsKnow, HasOne, HasAnswer
<1>21. FormsAlone'
  BY <1>0, <1>1, <1>2, <1>3, <1>4, <1>5, <1>8, <1>10 DEF Heard, TurnsTo, Idle, FormsAlone, HasOne
<1> QED
  BY <1>11, <1>12, <1>13, <1>14, <1>15, <1>16, <1>17, <1>18, <1>19, <1>20, <1>21 DEF PagesInv

LEMMA RepliesLost ==
  ASSUME PagesInv, NEW n \in Trips, NEW t \in Trip, Missed(n, t), LoseReplies(n)
  PROVE  PagesInv'
<1>0. PageTypes /\ TripsFit /\ OneTripEach /\ BusyWaits /\ ListsHold /\ ReviewsHold
      /\ SentFromForms /\ FormsKnow /\ AnsweredMails /\ SubmitsKnow /\ FormsAlone
  BY DEF PagesInv
<1>1. trip[n].kind = "load" /\ Idle(t) /\ UNCHANGED <<dialog, sheet, outrun, reticked>>
  BY DEF LoseReplies, Missed, Deafened
<1>2. /\ section' \in [cards : SUBSET Replies, ticks : [Replies -> SUBSET Keys], busy : SUBSET Replies, loading : BOOLEAN]
      /\ section'.cards = section.cards /\ section'.ticks = section.ticks /\ section'.busy = section.busy
  BY <1>0, <1>1 DEF PageTypes, LoseReplies
<1>3. PageTypes'
  BY <1>0, <1>1, <1>2 DEF Missed, TurnsTo, PageTypes
<1>4. TripsFit'
  BY <1>0, <1>1 DEF Missed, TurnsTo, Idle, TripsFit, TripFits
<1>5. OneTripEach'
  BY <1>0, <1>1, <1>2 DEF Missed, TurnsTo, Idle, OneTripEach, Waits
<1>6. BusyWaits'
  BY <1>0, <1>1, <1>2 DEF Missed, TurnsTo, BusyWaits, Waits
<1>7. ListsHold'
  BY <1>0, <1>1, <1>2 DEF Missed, TurnsTo, Idle, ListsHold, Listed, Reviewed
<1>8. ReviewsHold'
  BY <1>0, <1>1 DEF Missed, TurnsTo, Idle, ReviewsHold, ReviewHolds, SavedHolds
<1>9. SentFromForms'
  BY <1>0, <1>1 DEF Missed, SentFromForms
<1>10. FormsKnow'
  BY <1>0, <1>1 DEF Missed, FormsKnow, HasOne, HasAnswer
<1>11. AnsweredMails'
  BY <1>0, <1>1 DEF Missed, AnsweredMails, HasAnswer
<1>12. SubmitsKnow'
  BY <1>0, <1>1 DEF Missed, TurnsTo, Idle, SubmitsKnow, HasOne, HasAnswer
<1>13. FormsAlone'
  BY <1>0, <1>1 DEF Missed, TurnsTo, Idle, FormsAlone, HasOne
<1> QED
  BY <1>3, <1>4, <1>5, <1>6, <1>7, <1>8, <1>9, <1>10, <1>11, <1>12, <1>13 DEF PagesInv

LEMMA ReviewMissed ==
  ASSUME PagesInv, NEW n \in Trips, NEW t \in Trip, Missed(n, t), MissReview(n)
  PROVE  PagesInv'
<1>0. PageTypes /\ TripsFit /\ OneTripEach /\ BusyWaits /\ ListsHold /\ ReviewsHold
      /\ SentFromForms /\ FormsKnow /\ AnsweredMails /\ SubmitsKnow /\ FormsAlone
  BY DEF PagesInv
<1>1. trip[n].kind = "review" /\ UNCHANGED <<dialog, sheet, outrun, reticked>>
  BY DEF MissReview
<1>2. PICK r \in Replies : r = trip[n].reply
  BY <1>0, <1>1 DEF TripsFit, TripFits
<1>3. /\ section' \in [cards : SUBSET Replies, ticks : [Replies -> SUBSET Keys], busy : SUBSET Replies, loading : BOOLEAN]
      /\ section'.cards = section.cards /\ section'.ticks = section.ticks
           /\ section'.busy = section.busy \ {r}
  BY <1>0, <1>2 DEF PageTypes, MissReview
<1>4. PageTypes'
  BY <1>0, <1>1, <1>3 DEF Missed, TurnsTo, PageTypes
<1>5. TripsFit'
  BY <1>0, <1>1 DEF Missed, Deafened, TurnsTo, Idle, TripsFit, TripFits
<1>6. OneTripEach'
  BY <1>0, <1>1, <1>2, <1>3 DEF Missed, Deafened, TurnsTo, Idle, OneTripEach, Waits
<1>7. BusyWaits'
  BY <1>0, <1>1, <1>2, <1>3 DEF Missed, TurnsTo, BusyWaits, Waits
<1>8. ListsHold'
  BY <1>0, <1>1, <1>3 DEF Missed, Deafened, TurnsTo, Idle, ListsHold, Listed, Reviewed
<1>9. ReviewsHold'
  BY <1>0, <1>1 DEF Missed, TurnsTo, Idle, ReviewsHold, ReviewHolds, SavedHolds
<1>10. SentFromForms'
  BY <1>0, <1>1 DEF Missed, SentFromForms
<1>11. FormsKnow'
  BY <1>0, <1>1 DEF Missed, FormsKnow, HasOne, HasAnswer
<1>12. AnsweredMails'
  BY <1>0, <1>1 DEF Missed, AnsweredMails, HasAnswer
<1>13. SubmitsKnow'
  BY <1>0, <1>1 DEF Missed, Deafened, TurnsTo, Idle, SubmitsKnow, HasOne, HasAnswer
<1>14. FormsAlone'
  BY <1>0, <1>1 DEF Missed, TurnsTo, Idle, FormsAlone, HasOne
<1> QED
  BY <1>4, <1>5, <1>6, <1>7, <1>8, <1>9, <1>10, <1>11, <1>12, <1>13, <1>14 DEF PagesInv

LEMMA SentMissed ==
  ASSUME PagesInv, NEW n \in Trips, NEW t \in Trip, Missed(n, t), MissSent(n)
  PROVE  PagesInv'
<1>0. PageTypes /\ TripsFit /\ OneTripEach /\ BusyWaits /\ ListsHold /\ ReviewsHold
      /\ SentFromForms /\ FormsKnow /\ AnsweredMails /\ SubmitsKnow /\ FormsAlone
  BY DEF PagesInv
<1>1. trip[n].kind = "send" /\ UNCHANGED <<section, sheet, outrun, reticked>>
  BY DEF MissSent
<1>2. dialog' \in [on : BOOLEAN, questions : SUBSET Keys, sending : BOOLEAN] /\ ~dialog'.sending
  BY <1>0, <1>1 DEF PageTypes, MissSent
<1>3. PageTypes'
  BY <1>0, <1>1, <1>2 DEF Missed, TurnsTo, PageTypes
<1>4. TripsFit'
  BY <1>0, <1>1 DEF Missed, Deafened, TurnsTo, Idle, TripsFit, TripFits
<1>5. OneTripEach'
  BY <1>0, <1>1 DEF Missed, Deafened, TurnsTo, Idle, OneTripEach, Waits
<1>6. BusyWaits'
  BY <1>0, <1>1, <1>2 DEF Missed, TurnsTo, BusyWaits, Waits
<1>7. ListsHold'
  BY <1>0, <1>1 DEF Missed, Deafened, TurnsTo, Idle, ListsHold, Listed, Reviewed
<1>8. ReviewsHold'
  BY <1>0, <1>1 DEF Missed, TurnsTo, Idle, ReviewsHold, ReviewHolds, SavedHolds
<1>9. SentFromForms'
  BY <1>0, <1>1 DEF Missed, SentFromForms
<1>10. FormsKnow'
  BY <1>0, <1>1 DEF Missed, FormsKnow, HasOne, HasAnswer
<1>11. AnsweredMails'
  BY <1>0, <1>1 DEF Missed, AnsweredMails, HasAnswer
<1>12. SubmitsKnow'
  BY <1>0, <1>1 DEF Missed, Deafened, TurnsTo, Idle, SubmitsKnow, HasOne, HasAnswer
<1>13. FormsAlone'
  BY <1>0, <1>1 DEF Missed, TurnsTo, Idle, FormsAlone, HasOne
<1> QED
  BY <1>3, <1>4, <1>5, <1>6, <1>7, <1>8, <1>9, <1>10, <1>11, <1>12, <1>13 DEF PagesInv

LEMMA TakenMissed ==
  ASSUME PagesInv, NEW n \in Trips, NEW t \in Trip, Missed(n, t), MissTaken(n)
  PROVE  PagesInv'
<1>0. PageTypes /\ TripsFit /\ OneTripEach /\ BusyWaits /\ ListsHold /\ ReviewsHold
      /\ SentFromForms /\ FormsKnow /\ AnsweredMails /\ SubmitsKnow /\ FormsAlone
  BY DEF PagesInv
<1>1. trip[n].kind = "submit" /\ UNCHANGED <<section, dialog, outrun, reticked>>
  BY DEF MissTaken
<1>2. PICK f \in Tabs : f = trip[n].tab
  BY <1>0, <1>1 DEF TripsFit, TripFits
<1>3. sheet[f] \in SheetRow /\ sheet[f].shows # "nothing"
  BY <1>0, <1>1, <1>2 DEF PageTypes, TripsFit, TripFits
<1>4. PICK x : x = [sheet[f] EXCEPT !.sending = FALSE, !.told = "again"]
  OBVIOUS
<1>5. x \in SheetRow /\ x.mail = sheet[f].mail /\ x.shows = sheet[f].shows /\ x.told = "again"
        /\ ~x.sending
  BY <1>3, <1>4 DEF SheetRow
<1>6. sheet' = [sheet EXCEPT ![f] = x]
  BY <1>0, <1>1, <1>2, <1>3, <1>4, <1>5 DEF MissTaken
<1>7. sheet' \in [Tabs -> SheetRow] /\ sheet'[f] = x /\ \A g \in Tabs : g # f => sheet'[g] = sheet[g]
  BY <1>0, <1>1, <1>5, <1>6 DEF PageTypes
<1>8. PageTypes'
  BY <1>0, <1>1, <1>7 DEF Missed, TurnsTo, PageTypes
<1>9. TripsFit'
  BY <1>0, <1>5, <1>7 DEF Missed, Deafened, TurnsTo, Idle, TripsFit, TripFits
<1>10. OneTripEach'
  BY <1>0, <1>1, <1>2, <1>7 DEF Missed, Deafened, TurnsTo, Idle, OneTripEach, Waits, TripsFit, TripFits
<1>11. BusyWaits'
  BY <1>0, <1>1, <1>2, <1>5, <1>7 DEF Missed, TurnsTo, BusyWaits, Waits
<1>12. ListsHold'
  BY <1>0, <1>1, <1>7 DEF Missed, Deafened, TurnsTo, Idle, ListsHold, Listed, Reviewed
<1>13. ReviewsHold'
  BY <1>0, <1>1 DEF Missed, TurnsTo, Idle, ReviewsHold, ReviewHolds, SavedHolds
<1>14. SentFromForms'
  BY <1>0, <1>5, <1>6 DEF Missed, SentFromForms
<1>15. FormsKnow'
  BY <1>0, <1>5, <1>6 DEF Missed, FormsKnow, HasOne, HasAnswer
<1>16. AnsweredMails'
  BY <1>0, <1>5, <1>6 DEF Missed, AnsweredMails, HasAnswer
<1>17. SubmitsKnow'
  BY <1>0, <1>5, <1>6 DEF Missed, Deafened, TurnsTo, Idle, SubmitsKnow, HasOne, HasAnswer
<1>18. FormsAlone'
  BY <1>0, <1>1, <1>2, <1>6 DEF Missed, TurnsTo, Idle, FormsAlone, HasOne
<1> QED
  BY <1>8, <1>9, <1>10, <1>11, <1>12, <1>13, <1>14, <1>15, <1>16, <1>17, <1>18 DEF PagesInv

-----------------------------------------------------------------------------
(* The pages of a survey: together.                                        *)

LEMMA ServesOnlyRows ==
  ASSUME PageTypes, NEW n \in Trips, ServeTrip(n), reply' \in [Replies -> ReplyRow]
  PROVE  ServesOnly
<1>1. \A r \in Replies : reply'[r].says \in SUBSET Keys
  BY DEF ReplyRow
<1>2. mind' = [r \in Replies |-> IF reply[r].row = "none" THEN reply'[r].says ELSE mind[r]]
  BY DEF ServeTrip
<1>3. mind' \in [Replies -> SUBSET Keys] /\ \A r \in Replies : reply[r].row # "none"
        => mind'[r] = mind[r]
  BY <1>1, <1>2 DEF PageTypes
<1> QED
  BY <1>3 DEF ServeTrip, ServesOnly

\* A response is still one, whatever the API does.
LEMMA RowsAreTyped ==
  ASSUME PageTypes, TripsFit, NEW n \in Trips, ServeTrip(n)
  PROVE  reply' \in [Replies -> ReplyRow]
<1>1. CASE DismissReply(n)
  <2>1. trip[n].reply \in Replies /\ reply' = [reply EXCEPT ![trip[n].reply].row = "dismissed"]
    BY <1>1 DEF DismissReply, TripsFit, TripFits
  <2> QED
    BY <2>1, RowChanges DEF Rewrites
<1>2. CASE ApproveReply(n)
  <2>1. trip[n].reply \in Replies /\ reply' = [reply EXCEPT ![trip[n].reply].row = "approved"]
    BY <1>2 DEF ApproveReply, TripsFit, TripFits
  <2> QED
    BY <2>1, RowChanges DEF Rewrites
<1>3. CASE SaveReply(n)
  <2>1. /\ trip[n].reply \in Replies /\ trip[n].keys \in SUBSET Keys
        /\ reply' = [reply EXCEPT ![trip[n].reply].saved = @ \cup (trip[n].keys \cap reply[trip[n].reply].says)]
    BY <1>3 DEF SaveReply, TripsFit, TripFits, PageTypes, Trip
  <2> QED
    BY <2>1, SavedChanges DEF Rewrites
<1>4. ASSUME NEW r \in Replies, TakeAnswers(n, r), mail[sheet[trip[n].tab].mail].row = "live"
      PROVE  reply' \in [Replies -> ReplyRow]
  <2>1. trip[n].tab \in Tabs /\ trip[n].keys \in SUBSET Keys /\ reply[r] \in ReplyRow
    BY <1>4 DEF TakeAnswers, TripsFit, TripFits, PageTypes, Trip
  <2>2. PICK x : x = [reply[r] EXCEPT !.row = "pending", !.says = trip[n].keys, !.tab = trip[n].tab]
    OBVIOUS
  <2>3. x \in ReplyRow
    BY <2>1, <2>2 DEF ReplyRow
  <2>4. reply' = [reply EXCEPT ![r] = x]
    BY <1>4, <2>2 DEF TakeAnswers
  <2> QED
    BY <2>3, <2>4 DEF PageTypes
<1>5. CASE UNCHANGED reply
  BY <1>5 DEF PageTypes
<1> QED
  BY <1>1, <1>2, <1>3, <1>4, <1>5
     DEF ServeTrip, ServeList, ReadReply, SendTheMail, MarkAnswered, CallFails, CreateMail,
        TakeAnswers, pageRows

LEMMA ServeTripKeeps ==
  ASSUME PagesInv, NEW n \in Trips, ServeTrip(n)
  PROVE  PagesInv'
<1>1. PageTypes /\ TripsFit
  BY DEF PagesInv
<1>2. reply' \in [Replies -> ReplyRow]
  BY <1>1, RowsAreTyped
<1>3. ServesOnly
  BY <1>1, <1>2, ServesOnlyRows
<1>4. CASE ServeList(n) \/ DismissReply(n) \/ SaveReply(n) \/ ApproveReply(n) \/ SendTheMail(n)
             \/ CallFails(n)
  BY <1>3, <1>4, ServeListKeeps, DismissKeeps, SaveKeeps, ApproveKeeps, SendKeeps, FailKeeps
<1>5. CASE ReadReply(n)
  <2>1. CASE reply[trip[n].reply].row = "pending"
    BY <1>3, <1>5, <2>1, ReadReplyKeeps
  <2>2. CASE reply[trip[n].reply].row # "pending"
    <3>1. /\ trip[n].kind = "review" /\ trip[n].pc = "sent" /\ Ends(n, "refused")
          /\ UNCHANGED <<mail, reply, broken>>
      BY <1>5, <2>2 DEF ReadReply, pageRows
    <3> QED
      BY <1>3, <3>1, RefuseKeeps
  <2> QED
    BY <2>1, <2>2
<1>6. CASE MarkAnswered(n)
  <2>1. CASE Ends(n, "served") /\ UNCHANGED broken
    BY <1>3, <1>6, <2>1, MarkKeeps
  <2>2. CASE Ends(n, "refused") /\ broken' = TRUE
    BY <1>3, <1>6, <2>2, MarkBreaks
  <2> QED
    BY <1>6, <2>1, <2>2 DEF MarkAnswered
<1>7. ASSUME NEW l \in Mails, CreateMail(n, l) PROVE PagesInv'
  BY <1>3, <1>7, CreateMailKeeps
<1>8. ASSUME NEW r \in Replies, TakeAnswers(n, r) PROVE PagesInv'
  <2>1. CASE mail[sheet[trip[n].tab].mail].row = "live"
    BY <1>3, <1>8, <2>1, TakeKeeps
  <2>2. CASE mail[sheet[trip[n].tab].mail].row # "live"
    <3>1. /\ trip[n].kind = "submit" /\ trip[n].pc = "sent" /\ Ends(n, Over(sheet[trip[n].tab].mail))
          /\ UNCHANGED <<mail, reply, broken>>
      BY <1>8, <2>2 DEF TakeAnswers
    <3>2. PICK pc \in {"completed", "expired"} : pc = Over(sheet[trip[n].tab].mail)
      BY DEF Over
    <3>3. pc = "completed" => mail[sheet[trip[n].tab].mail].row = "answered"
      BY <3>2 DEF Over
    <3>4. Ends(n, pc)
      BY <3>1, <3>2
    <3> QED
      BY <1>3, <3>1, <3>3, <3>4, RefuseKeeps
  <2> QED
    BY <2>1, <2>2
<1> QED
  BY <1>4, <1>5, <1>6, <1>7, <1>8 DEF ServeTrip

LEMMA HearTripKeeps ==
  ASSUME PagesInv, NEW n \in Trips, HearTrip(n)
  PROVE  PagesInv'
<1>1. PageTypes /\ TripsFit
  BY DEF PagesInv
<1>2. Heard(n)
  BY <1>1, NoTripIsIdle, TripTurns DEF HearTrip, Heard, pageRows
<1>3. CASE HearReplies(n) \/ HearReview(n) \/ HearSent(n) \/ HearTaken(n)
  BY <1>2, <1>3, RepliesHeard, ReviewHeard, SentHeard, TakenHeard
<1>4. CASE trip[n].pc = "refused" /\ Misses(n)
  <2>1. Idle(NoTrip) /\ NoTrip \in Trip
    BY NoTripIsIdle
  <2>2. Missed(n, NoTrip)
    BY <1>1, <1>2, <1>4, <2>1 DEF Missed, Heard, PageTypes
  <2> QED
    BY <1>4, <2>1, <2>2, RepliesLost, ReviewMissed, SentMissed, TakenMissed DEF Misses
<1> QED
  BY <1>3, <1>4 DEF HearTrip

LEMMA LoseTripKeeps ==
  ASSUME PagesInv, NEW n \in Trips, LoseTrip(n)
  PROVE  PagesInv'
<1>1. PageTypes /\ TripsFit
  BY DEF PagesInv
<1>2. Idle(NoTrip) /\ NoTrip \in Trip
  BY NoTripIsIdle
<1>3. ~trip[n].deaf /\ trip[n].pc # "idle"
        /\ UNCHANGED <<mail, reply, mind, meant, pressed, fetches>> /\ Misses(n)
  BY DEF LoseTrip, pageRows
<1>4. \E t \in Trip : Missed(n, t)
  <2>1. CASE /\ trip[n].pc = "sent" \/ trip[n].kind = "load"
             /\ trip' = [trip EXCEPT ![n] = NoTrip] /\ UNCHANGED broken
    <3>1. TurnsTo(n, NoTrip)
      BY <1>1, <1>2, <2>1, TripTurns
    <3> QED
      BY <1>1, <1>2, <1>3, <2>1, <3>1 DEF Missed, PageTypes
  <2>2. CASE trip[n].kind # "load" /\ trip[n].pc \in {"sent", "read", "made"}
             /\ trip' = [trip EXCEPT ![n] = [trip[n] EXCEPT !.deaf = TRUE]] /\ broken' = TRUE
    <3>1. PICK t : t = [trip[n] EXCEPT !.deaf = TRUE]
      OBVIOUS
    <3>2. trip[n] \in Trip
      BY <1>1 DEF PageTypes
    <3>3. t \in Trip /\ Deafened(n, t)
      BY <2>2, <3>1, <3>2 DEF Trip, Deafened
    <3>4. trip' = [trip EXCEPT ![n] = t]
      BY <2>2, <3>1
    <3>5. TurnsTo(n, t)
      BY <1>1, <3>3, <3>4, TripTurns
    <3> QED
      BY <1>1, <1>3, <2>2, <3>3, <3>5 DEF Missed
  <2>3. CASE trip' = [trip EXCEPT ![n] = NoTrip] /\ broken' = TRUE
    <3>1. TurnsTo(n, NoTrip)
      BY <1>1, <1>2, <2>3, TripTurns
    <3> QED
      BY <1>2, <1>3, <2>3, <3>1 DEF Missed
  <2> QED
    BY <2>1, <2>2, <2>3 DEF LoseTrip
<1>5. PICK t \in Trip : Missed(n, t)
  BY <1>4
<1> QED
  BY <1>3, <1>5, RepliesLost, ReviewMissed, SentMissed, TakenMissed DEF Misses

LEMMA PagesBegin ==
  ASSUME SurveyPagesInit
  PROVE  PagesInv
<1>1. PICK old \in SUBSET Replies :
        reply = [r \in Replies |-> [row |-> IF r \in old THEN "pending" ELSE "none",
                  says |-> IF r \in old THEN Keys ELSE {}, saved |-> {}, tab |-> NoTab]]
  BY DEF SurveyPagesInit
<1>2. reply \in [Replies -> ReplyRow] /\ \A r \in Replies : reply[r].saved = {}
        /\ reply[r].tab = NoTab /\ reply[r].row \in {"none", "pending"}
  BY <1>1 DEF ReplyRow
<1>3. \A n \in Trips : trip[n] = NoTrip
  BY DEF SurveyPagesInit
<1>4. Idle(NoTrip) /\ NoTrip \in Trip
  BY NoTripIsIdle
<1>5. /\ section = [cards |-> {}, ticks |-> [r \in Replies |-> {}], busy |-> {}, loading |-> TRUE]
      /\ dialog = [on |-> FALSE, questions |-> Keys, sending |-> FALSE]
      /\ pressed = 0 /\ fetches = 0 /\ broken = FALSE /\ outrun = FALSE /\ reticked = FALSE
      /\ trip = [n \in Trips |-> NoTrip] /\ mind = [r \in Replies |-> reply[r].says]
           /\ meant = [r \in Replies |-> {}]
  BY DEF SurveyPagesInit
<1>6. mail \in [Mails -> MailRow] /\ \A l \in Mails : mail[l].row = "none"
  BY DEF SurveyPagesInit, MailRow
<1>7. /\ sheet \in [Tabs -> SheetRow]
      /\ \A f \in Tabs : sheet[f].shows = "nothing" /\ ~sheet[f].sending /\ sheet[f].told = "none"
  BY DEF SurveyPagesInit, SheetRow
<1>8. mind \in [Replies -> SUBSET Keys] /\ meant \in [Replies -> SUBSET Keys]
  BY <1>2, <1>5 DEF ReplyRow
<1>9. PageTypes
  <2>1. section \in [cards : SUBSET Replies, ticks : [Replies -> SUBSET Keys], busy : SUBSET Replies, loading : BOOLEAN]
    BY <1>5
  <2>2. dialog \in [on : BOOLEAN, questions : SUBSET Keys, sending : BOOLEAN]
    BY <1>5
  <2>3. pressed \in 0 .. MaxPressed /\ fetches \in 0 .. MaxFetches
    BY <1>5, SurveyPagesAssumption DEF SurveyPagesAssumption
  <2>4. trip \in [Trips -> Trip] /\ broken \in BOOLEAN /\ outrun \in BOOLEAN /\ reticked \in BOOLEAN
    BY <1>4, <1>5
  <2> QED
    BY <1>2, <1>6, <1>7, <1>8, <2>1, <2>2, <2>3, <2>4 DEF PageTypes
<1>10. TripsFit
  BY <1>3, <1>4 DEF TripsFit, TripFits, Idle
<1>11. OneTripEach /\ BusyWaits
  BY <1>3, <1>4, <1>5, <1>7 DEF OneTripEach, BusyWaits, Waits, Idle
<1>12. ListsHold
  BY <1>3, <1>4, <1>5 DEF ListsHold, Idle
<1>13. ReviewsHold
  BY <1>2, <1>3, <1>4 DEF ReviewsHold, ReviewHolds, SavedHolds, Idle
<1>14. NoTab \notin Tabs
  BY SurveyPagesAssumption DEF SurveyPagesAssumption
<1>15. SentFromForms /\ FormsKnow /\ AnsweredMails
  BY <1>2, <1>6, <1>7 DEF SentFromForms, FormsKnow, AnsweredMails
<1>16. SubmitsKnow /\ FormsAlone
  BY <1>2, <1>3, <1>4, <1>14 DEF SubmitsKnow, FormsAlone, HasOne, Idle
<1> QED
  BY <1>9, <1>10, <1>11, <1>12, <1>13, <1>15, <1>16 DEF PagesInv

LEMMA PagesRest ==
  ASSUME PagesInv, UNCHANGED surveyPageVars
  PROVE  PagesInv'
<1>1. UNCHANGED <<mail, reply, section, dialog, sheet, trip, mind, meant, pressed, fetches, broken, outrun, reticked>>
  BY DEF surveyPageVars, pageRows, pageFlags
<1> QED
  BY <1>1 DEF PagesInv, PageTypes, TripsFit, TripFits, OneTripEach, BusyWaits, Waits, ListsHold,
     Listed, Reviewed,
     ReviewsHold, ReviewHolds, SavedHolds, SentFromForms, FormsKnow, AnsweredMails, SubmitsKnow, FormsAlone, HasOne, HasAnswer

LEMMA PagesStep ==
  ASSUME PagesInv, [SurveyPagesNext]_surveyPageVars
  PROVE  PagesInv'
<1>1. CASE LoadReplies \/ PressSend
  BY <1>1, LoadKeeps, SendPressed
<1>2. ASSUME NEW r \in Replies, NEW k \in Keys, ToggleField(r, k) PROVE PagesInv'
  BY <1>2, ToggleKeeps
<1>3. ASSUME NEW r \in Replies, NEW accept \in BOOLEAN, PressReview(r, accept) PROVE PagesInv'
  BY <1>3, ReviewPressed
<1>4. ASSUME NEW on \in BOOLEAN, OpenDialog(on) PROVE PagesInv'
  BY <1>4, DialogKeeps
<1>5. ASSUME NEW keys \in SUBSET Keys, ChooseQuestions(keys) PROVE PagesInv'
  BY <1>5, QuestionsKeep
<1>6. ASSUME NEW f \in Tabs, NEW l \in Mails, OpenSheet(f, l) PROVE PagesInv'
  BY <1>6, OpenKeeps
<1>7. ASSUME NEW f \in Tabs, NEW k \in Keys, FillIn(f, k) PROVE PagesInv'
  BY <1>7, FillKeeps
<1>8. ASSUME NEW f \in Tabs, PressSubmit(f) PROVE PagesInv'
  BY <1>8, SubmitPressed
<1>9. ASSUME NEW l \in Mails, MailExpires(l) PROVE PagesInv'
  BY <1>9, ExpireKeeps
<1>10. ASSUME NEW n \in Trips, ServeTrip(n) \/ HearTrip(n) \/ LoseTrip(n) PROVE PagesInv'
  BY <1>10, ServeTripKeeps, HearTripKeeps, LoseTripKeeps
<1>11. CASE UNCHANGED surveyPageVars
  BY <1>11, PagesRest
<1> QED
  BY <1>1, <1>2, <1>3, <1>4, <1>5, <1>6, <1>7, <1>8, <1>9, <1>10, <1>11 DEF SurveyPagesNext

LEMMA PagesInvImplies ==
  ASSUME PagesInv
  PROVE  SurveyPagesAsServed
<1>1. ReviewsAsMeant
  <2>1. \A r \in section.cards :
          \/ reply[r].row = "pending" \/ broken \/ outrun
          \/ \E n \in Trips : trip[n].kind = "review" /\ trip[n].reply = r /\ trip[n].pc = "served"
    BY DEF PagesInv, ListsHold, Listed, Reviewed
  <2>2. ~broken => \A r \in Replies :
          /\ reply[r].row = "dismissed" => reply[r].saved = {}
          /\ reply[r].row = "approved" => reply[r].saved = meant[r] \/ outrun \/ reticked
    BY DEF PagesInv, ReviewsHold, SavedHolds
  <2> QED
    BY <2>1, <2>2 DEF ReviewsAsMeant
<1>2. FormsToldRight
  <2> SUFFICES ASSUME NEW f \in Tabs
               PROVE  LET own == {r \in Replies : reply[r].tab = f} IN
                      /\ sheet[f].told = "completed" => \E r \in Replies : /\ reply[r].tab # NoTab
                                                                           /\ sheet[reply[r].tab].mail = sheet[f].mail
                      /\ sheet[f].shows = "thanks" => own # {}
                      /\ ~broken => /\ \A r, q \in own : r = q
                                    /\ own # {} => sheet[f].shows = "thanks" \/ sheet[f].sending
    BY DEF FormsToldRight
  <2> DEFINE own == {r \in Replies : reply[r].tab = f}
  <2>1. own # {} <=> HasOne(f)
    BY DEF HasOne
  <2>2. sheet[f].told = "completed" => \E r \in Replies : reply[r].tab # NoTab
          /\ sheet[reply[r].tab].mail = sheet[f].mail
    BY DEF PagesInv, FormsKnow, HasAnswer
  <2>3. sheet[f].shows = "thanks" => own # {}
    BY <2>1 DEF PagesInv, FormsKnow
  <2>4. ~broken /\ own # {} => sheet[f].shows = "thanks" \/ sheet[f].sending
    BY <2>1 DEF PagesInv, FormsAlone
  <2>5. ~broken => \A r, q \in own : r = q
    BY DEF PagesInv, FormsAlone
  <2> QED
    BY <2>2, <2>3, <2>4, <2>5
<1>3. ButtonsComeBack
  BY DEF PagesInv, BusyWaits, Waits, ButtonsComeBack, OnTrip, PageTypes
<1> QED
  BY <1>1, <1>2, <1>3 DEF SurveyPagesAsServed

\* The section of the owner and the form of the recipient show what became of
\* a survey: cards go with their reviews, what is saved is what was left
\* ticked, who is thanked has sent one response, and buttons come back
\* (survey-section.tsx, survey-form-client.tsx).
THEOREM TheSurveyIsShownAsServed == SurveyPagesSpec => []SurveyPagesAsServed
<1>1. SurveyPagesInit => PagesInv
  BY PagesBegin
<1>2. PagesInv /\ [SurveyPagesNext]_surveyPageVars => PagesInv'
  BY PagesStep
<1>3. PagesInv => SurveyPagesAsServed
  BY PagesInvImplies
<1> QED
  BY <1>1, <1>2, <1>3, PTL DEF SurveyPagesSpec
=============================================================================
