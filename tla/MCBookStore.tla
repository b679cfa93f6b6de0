------------------------------ MODULE MCBookStore ------------------------------
\* Two books and a few changes.
EXTENDS BookStore

CONSTANTS b1, b2
================================================================================
