-------------------------- MODULE MCStandaloneReader --------------------------
\* Two books of two chapters, pages and limits as small as they can be told apart.
EXTENDS StandaloneReader, TLC

CONSTANTS b1, b2
===============================================================================
