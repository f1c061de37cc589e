SPECIFICATION Spec
CONSTANT MaxSweep = 1
INVARIANT PartialRunResumes
