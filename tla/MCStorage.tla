------------------------------- MODULE MCStorage -------------------------------
EXTENDS Storage
================================================================================
