\* A wizard and one call: does connecting end on one of the wizard's steps.
SPECIFICATION Spec
CONSTANTS
    wizard = wizard
    dialog = dialog
    Wizards <- MCWizards
    Dialogs <- MCDialogs
    MaxCalls = 1
PROPERTIES
    ConnectingHasAResult
