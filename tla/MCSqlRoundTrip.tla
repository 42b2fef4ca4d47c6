--------------------------- MODULE MCSqlRoundTrip ----------------------------
EXTENDS SqlRoundTrip

\* One value of each kind; 1.5 prints exactly, 2.0 does not and is left to the
\* statements the executor's runs use.
MCValues ==
  {SqlText!Null, SqlText!IntValue(-1), SqlText!DoubleValue(15, -1), SqlText!DoubleValue(2, 0),
   SqlText!StringValue("s")}

=============================================================================
