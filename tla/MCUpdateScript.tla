--------------------------- MODULE MCUpdateScript ---------------------------
EXTENDS UpdateScript, TLC
\* One model server, and of the app services one that comes before aipanel-web.
ModelServices == <<"llm">>
AppServices == <<"workers", "web">>
=============================================================================
