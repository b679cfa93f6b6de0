---------------------------- MODULE MCProgressProbe ----------------------------
EXTENDS ProgressProbe

\* An endpoint gives both fields or leaves one of them out.
MCFieldSets == {{"uid", "offset"}, {"uid"}, {"offset"}}

================================================================================
