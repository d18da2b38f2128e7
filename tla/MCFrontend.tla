----------------------------- MODULE MCFrontend -----------------------------
\* A small instance of FrontendApi for TLC.
EXTENDS FrontendApi
=============================================================================
