--------------------------- MODULE StorageManager ----------------------------
(***************************************************************************)
(* The snapshot files under the storage root, one per database name.       *)
(*                                                                         *)
(* A file holds the database it was written from: names, schemas, index    *)
(* definitions and rows in binary (doubles as their eight bytes), so an    *)
(* image is the database itself.  loadDatabase() throws on a file that was *)
(* cut short, and it does not read everything back as it was written: the  *)
(* name and the column of an index are read by the two arguments of one    *)
(* call, and the language leaves open which is read first.                 *)
(***************************************************************************)
EXTENDS Database

CONSTANT StorageFaults   \* which of the failures below the environment inflicts

(***************************************************************************)
(* "SaveFails"      saveDatabase() throws.  The temporary file could not   *)
(*                  be written, and the target is as it was; or neither    *)
(*                  rename worked, and the target was removed between them;*)
(* "ShortSnapshot"  the end of the snapshot was still in the stream's      *)
(*                  buffer when the disk filled up: the destructor ignores *)
(*                  it and the short file is published.                    *)
(***************************************************************************)
StorageFault == {"SaveFails", "ShortSnapshot"}

ASSUME StorageFaultsAssumption == StorageFaults \subseteq StorageFault

\* The order in which a build evaluates the arguments of a call.
ReadOrder == {"LeftToRight", "RightToLeft"}

VARIABLES
  saved,                 \* the snapshot files: a function from names to images
  readOrder              \* the order of this build, the same in all its processes

Image(db) == [complete |-> TRUE, database |-> db]
Damaged == [complete |-> FALSE]

StorageInit ==
  /\ saved = << >>
  /\ readOrder \in ReadOrder

\* A snapshot is visible only under its final name, where rename() puts it.
publish(db) ==
  /\ saved' = [n \in DOMAIN saved \cup {db.name} |-> IF n = db.name THEN Image(db) ELSE saved[n]]
  /\ UNCHANGED readOrder

publishDamaged(db) ==
  /\ "ShortSnapshot" \in StorageFaults
  /\ saved' = [n \in DOMAIN saved \cup {db.name} |-> IF n = db.name THEN Damaged ELSE saved[n]]
  /\ UNCHANGED readOrder

saveThrows(db) ==
  /\ "SaveFails" \in StorageFaults
  /\ \/ UNCHANGED saved
     \/ saved' = [n \in DOMAIN saved \ {db.name} |-> saved[n]]
  /\ UNCHANGED readOrder

\* Whether loadDatabase(n) returns rather than throw.
Loadable(n) == n \in DOMAIN saved /\ saved[n].complete

\* Read from right to left the name and the column change places.  createIndex() then
\* finds no such column and returns false, which loadDatabase() ignores: an index
\* survives only if it is named like its column.
loadedIndexes(indexes) ==
  IF readOrder = "LeftToRight" THEN indexes ELSE indexes \cap {"price"}

\* The table and the database that loadDatabase() builds from what was saved of them.
LoadedTable(table) ==
  [column |-> table.column, rows |-> table.rows, indexes |-> loadedIndexes(table.indexes)]

Loaded(db) ==
  [name |-> db.name, tables |-> [t \in DOMAIN db.tables |-> LoadedTable(db.tables[t])]]

IsStorage ==
  /\ readOrder \in ReadOrder
  /\ DOMAIN saved \subseteq DbName
  /\ \A n \in DOMAIN saved :
       \/ saved[n] = Damaged
       \/ /\ saved[n] = Image(saved[n].database)
          /\ IsDatabase(saved[n].database)
          /\ saved[n].database # NoDatabase

=============================================================================
