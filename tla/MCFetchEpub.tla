------------------------------ MODULE MCFetchEpub ------------------------------
EXTENDS FetchEpub

\* A cover, a chapter long enough for swaps told by its tail and with code points of one
\* to four bytes, and one whose payload is shorter; they share the name of an image.
MCCatalog == <<
    [uid |-> 1, readable |-> FALSE, text |-> <<>>, style |-> <<>>, images |-> {}],
    [uid |-> 2, readable |-> TRUE, text |-> <<24494, 20449, 65, 233, 128512, 35835, 20070>>,
     style |-> <<112, 123, 125>>, images |-> {"a", "b"}],
    [uid |-> 3, readable |-> TRUE, text |-> <<24494, 20449>>, style |-> <<>>, images |-> {"b"}]>>

================================================================================
