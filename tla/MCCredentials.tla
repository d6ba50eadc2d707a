--------------------------- MODULE MCCredentials ---------------------------
EXTENDS Credentials

=============================================================================
