---------------------------- MODULE MCProgressSync ----------------------------
\* A two-chapter book, kept whole and as its second chapter, beside another book.
EXTENDS ProgressSync

CONSTANTS b1, b2

\* Whole book, its first chapter alone, and another book's last chapter,
\* and a document of no book.
MCDocuments == {[book |-> b1, chapter |-> Whole], [book |-> b1, chapter |-> 0],
                [book |-> b2, chapter |-> 1], [book |-> NoBook, chapter |-> Whole]}
MCConfigs == [pull: BOOLEAN, upload: {TRUE}, ask: BOOLEAN]
===============================================================================
