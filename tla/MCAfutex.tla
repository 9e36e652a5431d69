------------------------------ MODULE MCAfutex ------------------------------
EXTENDS Afutex
=============================================================================
