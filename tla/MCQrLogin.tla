------------------------------- MODULE MCQrLogin -------------------------------
EXTENDS QrLogin

================================================================================
