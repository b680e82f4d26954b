----------------------------- MODULE MCRotation -----------------------------
EXTENDS Rotation

FairRotation == RotationSpec /\ RotationFairness
=============================================================================
