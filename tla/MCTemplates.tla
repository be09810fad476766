---------------------------- MODULE MCTemplates ----------------------------
EXTENDS Templates

\* Every form but those that are wrong.
MCForms == Sound
============================================================================
