---------------------------- MODULE MCProvision -----------------------------
EXTENDS Provision

\* A table, a chunk of zeros, the region and two chunks of userdata, of which
\* openpilot changes one and empties the other.
BaseImage == <<"os", "zero", "zero", "data", "data">>
OpenpilotImage == <<"os", "zero", "zero", "openpilot", "zero">>
=============================================================================
