---------------------------- MODULE MCChapterCache ----------------------------
\* A book of two chapters.
EXTENDS ChapterCache
===============================================================================
