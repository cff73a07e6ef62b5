----------------------------- MODULE MCFlashTs ------------------------------
EXTENDS FlashTs
=============================================================================
