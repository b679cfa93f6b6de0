----------------------------- MODULE MCDownloader -----------------------------
\* Two downloads of a two-chapter book side by side.
EXTENDS Downloader, TLC

CONSTANTS j1, j2

MCSymmetry == Permutations(Jobs)
===============================================================================
