--------------------------- MODULE MCInstallation ---------------------------
EXTENDS Installation

CONSTANTS i1, i2, i3, d1, d2

ThreeInstallers == {i1, i2, i3}
TwoDigests == {d1, d2}
=============================================================================
