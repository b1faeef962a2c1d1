------------------------------ MODULE MCTagLog ------------------------------
EXTENDS TagLog

\* In order: <<1, 1>>, <<1>>, <<2>>.
MCNames == {<<1, 1>>, <<1>>, <<2>>}
MCFiles == {{<<1>>}, MCNames}
=============================================================================
