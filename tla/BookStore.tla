------------------------------- MODULE BookStore -------------------------------
(***************************************************************************)
(* How Settings keeps the table of books (settings.lua, book_store.lua):   *)
(* three JSON files for each book and an index of their directories in the *)
(* settings store.  A caller takes a copy of the table, changes it, sets   *)
(* it and flushes.  The file system does what it is asked here: what the   *)
(* module shows needs no fault.                                            *)
(***************************************************************************)
EXTENDS Naturals

CONSTANTS
    Books,
    NoSave,     \* no Settings:set("books") under way
    MaxChanges  \* bound on the changes callers make

VARIABLES
    index,    \* "books" in the settings store: books with a directory
    flushed,  \* what of it is on disk
    files,    \* the three files of each book; 0: no such file
    saving,   \* Settings:set("books") under way
    wanted,   \* what callers asked to keep (observer)
    changes

vars == <<index, flushed, files, saving, wanted, changes>>

\* metadata.json, reading_state.json, articles.json; a value is the number of the
\* change that wrote it, 0 when a book has no such field.
Kinds == {"metadata", "reading_state", "articles"}
Record == [Kinds -> 0..MaxChanges]
Nothing == [k \in Kinds |-> 0]
After(k) == CASE k = "metadata" -> "reading_state" [] k = "reading_state" -> "articles"
              [] k = "articles" -> "end"

\* encode and decode raise unless the global ok_json is set; nothing sets it.
ok_json == FALSE

\* Settings:get("books"): what BookStore.load reads for each book of the index
Loaded == [b \in index |-> [k \in Kinds |-> IF ok_json THEN files[b][k] ELSE 0]]

\* A caller changes one field group of one book, which may be new.
SetBooks ==
    /\ saving = NoSave /\ changes < MaxChanges
    /\ changes' = changes + 1
    /\ \E b \in Books, k \in Kinds :
         LET old == IF b \in index THEN Loaded[b] ELSE Nothing
             given == [c \in index \union {b} |->
                         IF c = b THEN [old EXCEPT ![k] = changes + 1, !["metadata"] = changes + 1]
                         ELSE Loaded[c]]
         IN  /\ wanted' = [c \in Books |-> IF c \in DOMAIN given THEN given[c] ELSE wanted[c]]
             /\ saving' = [given |-> given, book |-> b, at |-> "metadata", todo |-> DOMAIN given]
    /\ UNCHANGED <<index, flushed, files>>

\* write_json: an encode that raises ends the whole set with an error.
WriteFile ==
    /\ saving # NoSave /\ saving.at # "end"
    /\ LET value == saving.given[saving.book][saving.at] IN
       IF value # 0 /\ ~ok_json THEN saving' = NoSave /\ UNCHANGED files
       ELSE /\ files' = [files EXCEPT ![saving.book][saving.at] = value]
            /\ saving' = [saving EXCEPT !.at = After(@)]
    /\ UNCHANGED <<index, flushed, wanted, changes>>

NextBook ==
    /\ saving # NoSave /\ saving.at = "end"
    /\ LET todo == saving.todo \ {saving.book} IN
       IF todo = {} THEN saving' = NoSave /\ index' = DOMAIN saving.given
       ELSE /\ \E b \in todo :
                 saving' = [saving EXCEPT !.todo = todo, !.book = b, !.at = "metadata"]
            /\ UNCHANGED index
    /\ UNCHANGED <<flushed, files, wanted, changes>>

Flush ==
    /\ saving = NoSave
    /\ flushed' = index
    /\ UNCHANGED <<index, files, saving, wanted, changes>>

Init ==
    /\ index = {} /\ flushed = {}
    /\ files = [b \in Books |-> Nothing]
    /\ saving = NoSave
    /\ wanted = files
    /\ changes = 0

Next == SetBooks \/ WriteFile \/ NextBook \/ Flush

Spec == Init /\ [][Next]_vars

\* apps/koreader-plugin/README.md:61: the metadata, the reading context and the list
\* of articles of a book are kept in its metadata.json, reading_state.json and
\* articles.json.  So once Settings:set("books") is over, they hold what was set.
BooksAreKept == saving = NoSave => files = wanted

================================================================================
